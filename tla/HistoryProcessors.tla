------------------------- MODULE HistoryProcessors -------------------------
(***************************************************************************)
(* What becomes of the transactions of a ledger: the ingestion filters     *)
(* with their cached configuration (ingest/filters, group_processors.go),  *)
(* the transaction processors that turn a transaction into history rows    *)
(* (ingest/processors), and the runner that streams a ledger through them  *)
(* and flushes loaders and batches (ingest/processor_runner.go).           *)
(*                                                                         *)
(* A transaction is a record of what the processors tell apart: its        *)
(* success, whether it is a fee bump, its accounts, and per operation the  *)
(* type, the accounts and assets the body names, and the accounts, pools   *)
(* and claimable balances its ledger changes and asset-contract events     *)
(* name.  An id is <<ledger, transaction, operation>>, operation 0 being   *)
(* the transaction itself.                                                 *)
(***************************************************************************)
EXTENDS Integers, FiniteSets, Sequences, Functions, SequencesExt

CONSTANTS Ledgers,    \* the network: ledger number -> sequence of transactions
          Whitelists, \* filter name -> the whitelists an administrator may set
          None,       \* no account
          GCPeriod,   \* transactionsFilteredTmpGCPeriod, in clock ticks
          MaxTime     \* the last tick

VARIABLES now,     \* the clock, in whole seconds
          stored,  \* filter name -> configuration in the database
          cached,  \* the live ingesting process's filters
          run,     \* the processors at work, or Idle
          db,      \* the history tables
          lastGC,  \* lastTransactionsTmpGC
          asked    \* ledger -> the transactions its rows should show

vars == <<now, stored, cached, run, db, lastGC, asked>>

First == CHOOSE l \in DOMAIN Ledgers : \A m \in DOMAIN Ledgers : l <= m
Filters == {"asset", "account"}
Off == [on |-> FALSE, list |-> {}, at |-> 0]

-----------------------------------------------------------------------------
(* Participants, pools and balances of a transaction.                      *)

\* The operations whose body names further accounts (destination, claimants,
\* trustor, sponsored account, key owner of a revoked sponsorship).
NamingOps == {"create_account", "payment", "path_payment", "merge", "allow_trust",
              "create_balance", "begin", "revoke", "clawback", "set_flags"}

SourceAccount(tx, i) ==
  IF tx.ops[i].source = None THEN tx.source ELSE tx.ops[i].source

\* The sponsor whose begin operation the end operation i closes.
findInitatingBeginSponsoringOp(tx, i) ==
  LET begins == {j \in 1..(i - 1) : /\ tx.ops[j].type = "begin"
                                    /\ SourceAccount(tx, i) \in tx.ops[j].to}
  IN  IF ~tx.ok \/ begins = {} THEN {}
      ELSE {SourceAccount(tx, CHOOSE j \in begins : \A k \in begins : k <= j)}

\* Asset-contract events are recognised only when the network is known.
getParticipantsFromSACEvents(op, network) == IF network THEN op.sac ELSE {}

Participants(tx, i, network) ==
  LET op == tx.ops[i]
  IN  {SourceAccount(tx, i)} \cup (IF op.sponsor = None THEN {} ELSE {op.sponsor})
      \cup CASE op.type \in NamingOps -> op.to
             [] op.type = "end"       -> findInitatingBeginSponsoringOp(tx, i)
             [] op.type = "invoke"    -> op.keys \cup getParticipantsFromSACEvents(op, network)
             [] OTHER                 -> {}

\* The operation wrappers built here carry no network.
ParticipantsForTransaction(tx) ==
  {tx.source} \cup (IF tx.feeSource = None THEN {} ELSE {tx.feeSource}) \cup tx.fee
  \cup UNION {Participants(tx, i, FALSE) : i \in DOMAIN tx.ops}

IsPayment(op) ==
  \/ op.type \in {"create_account", "payment", "path_payment", "merge"}
  \/ op.type = "invoke" /\ op.sac # {}

-----------------------------------------------------------------------------
(* The filters.                                                            *)

\* Mutant: the cached filter is kept.
RefreshFilterNever(f, config) == f

\* RefreshAssetFilter and RefreshAccountFilter: the cache is replaced when the
\* stored configuration carries a later second.
RefreshFilter(f, config) == IF config.at > f.at THEN config ELSE f

isEnabled(f) == f.on /\ f.list # {}

\* The operations whose assets the asset filter looks at.
FilteredOps == {"change_trust", "offer", "create_balance", "clawback", "payment", "path_payment"}

\* Only the operations of version 0 and 1 envelopes are looked at, never those
\* inside a fee bump.
filterOperationsMatchedOnRules(f, tx) ==
  /\ tx.feeSource = None
  /\ \E i \in DOMAIN tx.ops : /\ tx.ops[i].type \in FilteredOps
                              /\ tx.ops[i].assets \cap f.list # {}

Matches(name, f, tx) ==
  IF name = "asset" THEN filterOperationsMatchedOnRules(f, tx)
                    ELSE ParticipantsForTransaction(tx) \cap f.list # {}

\* Mutant: all enabled filters must match.
FilterTransactionAll(fs, tx) ==
  \A n \in Filters : isEnabled(fs[n]) => Matches(n, fs[n], tx)

\* groupTransactionFilterers: one match among the enabled filters includes the
\* transaction; with no filter enabled everything is included.
FilterTransaction(fs, tx) ==
  LET enabled == {n \in Filters : isEnabled(fs[n])}
  IN  enabled = {} \/ \E n \in enabled : Matches(n, fs[n], tx)

\* GetFilters: the check interval of 100ns is 0 in whole seconds, so every call
\* goes to the database.  A configuration that cannot be read is logged, and
\* the cached one stays.
GetFilters(fs, read) ==
  [n \in Filters |-> IF n \in read THEN RefreshFilter(fs[n], stored[n]) ELSE fs[n]]

-----------------------------------------------------------------------------
(* The processors: what one transaction adds to the batches.               *)

Empty == [ledgers |-> <<>>, txs |-> {}, tmp |-> {}, ops |-> {}, parts |-> {},
          pools |-> {}, balances |-> {}, names |-> {}]

\* LedgersProcessor.ProcessLedger: the row is there even without transactions.
ProcessLedger(b, l) ==
  [b EXCEPT !.ledgers = (l :> [success |-> 0, failed |-> 0, ops |-> 0, setOps |-> 0]) @@ @]

\* Mutant: failed transactions are counted as successful.
CountTransactionAlways(r, tx) ==
  [r EXCEPT !.setOps = @ + Len(tx.ops), !.success = @ + 1, !.ops = @ + Len(tx.ops)]

\* LedgersProcessor.ProcessTransaction.
CountTransaction(r, tx) ==
  IF tx.ok THEN [r EXCEPT !.setOps = @ + Len(tx.ops), !.success = @ + 1, !.ops = @ + Len(tx.ops)]
           ELSE [r EXCEPT !.setOps = @ + Len(tx.ops), !.failed = @ + 1]

\* TransactionProcessor: the row of transaction t of ledger l, found by its hash.
TransactionRow(l, t) == <<l, t, 0>>

\* The operation rows of transaction t of ledger l.
OperationRows(l, t, tx) ==
  {[id |-> <<l, t, i>>, tx |-> <<l, t, 0>>, source |-> SourceAccount(tx, i),
    payment |-> IsPayment(tx.ops[i])] : i \in DOMAIN tx.ops}

\* ParticipantsProcessor: rows for the transaction and for each operation.
ParticipantRows(l, t, tx) ==
  {<<<<l, t, 0>>, a>> : a \in ParticipantsForTransaction(tx)}
  \cup UNION {{<<<<l, t, i>>, a>> : a \in Participants(tx, i, TRUE)} : i \in DOMAIN tx.ops}

\* The pools, or the claimable balances, that the changes of a transaction and
\* of each of its operations name.
PoolRows(l, t, tx) ==
  UNION {{<<<<l, t, i>>, p>> : p \in tx.ops[i].pools} \cup
         {<<<<l, t, 0>>, p>> : p \in tx.ops[i].pools} : i \in DOMAIN tx.ops}
BalanceRows(l, t, tx) ==
  UNION {{<<<<l, t, i>>, p>> : p \in tx.ops[i].balances} \cup
         {<<<<l, t, 0>>, p>> : p \in tx.ops[i].balances} : i \in DOMAIN tx.ops}

\* groupTransactionProcessors.ProcessTransaction: every processor in turn; the
\* loaders collect the names the rows refer to.
ProcessTransaction(b, l, t, tx) ==
  [ledgers  |-> [b.ledgers EXCEPT ![l] = CountTransaction(@, tx)],
   txs      |-> b.txs \cup {TransactionRow(l, t)},
   tmp      |-> b.tmp,
   ops      |-> b.ops \cup OperationRows(l, t, tx),
   parts    |-> b.parts \cup ParticipantRows(l, t, tx),
   pools    |-> b.pools \cup PoolRows(l, t, tx),
   balances |-> b.balances \cup BalanceRows(l, t, tx),
   names    |-> b.names \cup {r[2] : r \in ParticipantRows(l, t, tx) \cup PoolRows(l, t, tx)
                                           \cup BalanceRows(l, t, tx)}]

\* TransactionFilteredTmpProcessor.  The row's created_at is the clock's time.
ProcessFilteredOut(b, l, t) == [b EXCEPT !.tmp = @ \cup {[id |-> TransactionRow(l, t), at |-> now]}]

\* Mutant: filtered-out transactions are not stored for their senders.
StreamLedgerTransactionsDrops(b, l, fs, online) ==
  LET step(acc, t) == IF FilterTransaction(fs, Ledgers[l][t])
                      THEN ProcessTransaction(acc, l, t, Ledgers[l][t]) ELSE acc
  IN  FoldLeftDomain(LAMBDA acc, t : step(acc, t), ProcessLedger(b, l), Ledgers[l])

\* StreamLedgerTransactions for ledger l: the filtered-out processor runs only
\* online, where a client may wait for the transaction's result.
StreamLedgerTransactions(b, l, fs, online) ==
  LET step(acc, t) ==
        IF FilterTransaction(fs, Ledgers[l][t]) THEN ProcessTransaction(acc, l, t, Ledgers[l][t])
        ELSE IF online THEN ProcessFilteredOut(acc, l, t) ELSE acc
  IN  FoldLeftDomain(LAMBDA acc, t : step(acc, t), ProcessLedger(b, l), Ledgers[l])

\* The transactions of ledger l that a configuration asks to keep.
Wanted(l, config) ==
  {t \in DOMAIN Ledgers[l] :
     \/ \A n \in Filters : ~config[n].on \/ config[n].list = {}
     \/ \E n \in Filters : config[n].on /\ Matches(n, config[n], Ledgers[l][t])}

-----------------------------------------------------------------------------
(* The runner.                                                             *)

Idle == [mode |-> "idle", from |-> 0, next |-> 0, to |-> 0, since |-> 0, filters |-> [n \in Filters |-> Off],
         b |-> Empty, asked |-> <<>>, sure |-> FALSE, loaded |-> FALSE]

\* Tables with the rows of ledgers S taken out.
Without(tables, S) ==
  LET keep(rows) == {r \in rows : r[1][1] \notin S}
  IN  [ledgers  |-> Restrict(tables.ledgers, DOMAIN tables.ledgers \ S),
       txs      |-> {r \in tables.txs : r[1] \notin S},
       tmp      |-> tables.tmp,
       ops      |-> {r \in tables.ops : r.id[1] \notin S},
       parts    |-> keep(tables.parts),
       pools    |-> keep(tables.pools),
       balances |-> keep(tables.balances),
       names    |-> tables.names]

\* The batches of b inserted into the tables.
Inserted(tables, b) ==
  [b EXCEPT !.ledgers = b.ledgers @@ tables.ledgers, !.txs = @ \cup tables.txs,
            !.tmp = @ \cup tables.tmp, !.ops = @ \cup tables.ops, !.parts = @ \cup tables.parts,
            !.pools = @ \cup tables.pools, !.balances = @ \cup tables.balances,
            !.names = tables.names]

NextLedger == First + Cardinality(DOMAIN db.ledgers)
Contiguous == DOMAIN db.ledgers = First..(NextLedger - 1)

\* RunAllProcessorsOnLedger, the transaction side: filters refreshed, ledger
\* streamed.  An unreadable configuration aborts the surrounding database
\* transaction, which is the failure of Fail.
RunAllProcessorsOnLedger ==
  /\ run = Idle /\ Contiguous /\ NextLedger \in DOMAIN Ledgers
  /\ LET fs == GetFilters(cached, Filters)
     IN  /\ cached' = fs
         /\ run' = [Idle EXCEPT !.mode = "live", !.next = NextLedger + 1, !.to = NextLedger, !.since = now,
                                !.filters = fs, !.sure = TRUE,
                                !.asked = NextLedger :> Wanted(NextLedger, stored),
                                !.b = StreamLedgerTransactions(Empty, NextLedger, fs, TRUE)]
  /\ UNCHANGED <<now, stored, db, lastGC, asked>>

\* Reingestion of from..to by a process of its own: its history is deleted and
\* RunTransactionProcessorsOnLedgers starts with filters that were never loaded.
ReingestRange(from, to, read) ==
  /\ run = Idle /\ from <= to /\ to \in DOMAIN db.ledgers /\ from \in DOMAIN db.ledgers
  /\ db' = Without(db, from..to)
  /\ asked' = Restrict(asked, DOMAIN asked \ (from..to))
  /\ run' = [Idle EXCEPT !.mode = "batch", !.from = from, !.next = from, !.to = to,
                         !.asked = [l \in from..to |-> Wanted(l, stored)],
                         !.filters = GetFilters(@, read), !.sure = read = Filters]
  /\ UNCHANGED <<now, stored, cached, lastGC>>

\* The next ledger of the batch, under the filters the batch began with.
StreamLedger ==
  /\ run.mode = "batch" /\ run.next <= run.to
  /\ run' = [run EXCEPT !.next = @ + 1,
                        !.b = StreamLedgerTransactions(@, run.next, run.filters, FALSE)]
  /\ UNCHANGED <<now, stored, cached, db, lastGC, asked>>

\* groupLoaders.Flush.  A batch commits the names in a transaction of its own.
FlushLoaders ==
  /\ run.mode # "idle" /\ run.next > run.to /\ ~run.loaded
  /\ run' = [run EXCEPT !.loaded = TRUE]
  /\ db' = IF run.mode = "batch" THEN [db EXCEPT !.names = @ \cup run.b.names] ELSE db
  /\ UNCHANGED <<now, stored, cached, lastGC, asked>>

\* Mutant: results are deleted one second early.
CollectedEarly(tmp) == {r \in tmp : now - r.at < GCPeriod - 1}

\* DeleteTransactionsFilteredTmpOlderThan, at most once per period.
Collected(tmp) == {r \in tmp : now - r.at < GCPeriod}

\* flushProcessors and the commit that follows it.
FlushProcessors ==
  /\ run.mode # "idle" /\ run.loaded
  /\ LET collects == run.mode = "live" /\ now - lastGC > GCPeriod
         flushed  == Inserted(db, run.b)
         named    == [flushed EXCEPT !.names = @ \cup run.b.names]
     IN  /\ db' = IF collects THEN [named EXCEPT !.tmp = Collected(@)] ELSE named
         /\ lastGC' = IF collects THEN now ELSE lastGC
  /\ asked' = [l \in DOMAIN run.b.ledgers |->
                 [wanted |-> run.asked[l], sure |-> run.sure, since |-> run.since,
                  live |-> run.mode = "live"]] @@ asked
  /\ run' = Idle
  /\ UNCHANGED <<now, stored, cached>>

\* An error of a processor or of the database: what the run has not committed is
\* rolled back.  A failed batch is begun again, filters and all.
Fail ==
  /\ run.mode # "idle"
  /\ run' = IF run.mode = "live" THEN Idle
            ELSE [run EXCEPT !.next = run.from, !.b = Empty, !.loaded = FALSE, !.sure = TRUE,
                             !.asked = [l \in run.from..run.to |-> Wanted(l, stored)],
                             !.filters = GetFilters(@, Filters)]
  /\ UNCHANGED <<now, stored, cached, db, lastGC, asked>>

\* FilterConfigHandler.Update: one update of a filter per second.
UpdateFilterConfig(name, on, list) ==
  /\ now > stored[name].at
  /\ stored' = [stored EXCEPT ![name] = [on |-> on, list |-> list, at |-> now]]
  /\ UNCHANGED <<now, cached, run, db, lastGC, asked>>

Tick ==
  /\ now < MaxTime
  /\ now' = now + 1
  /\ UNCHANGED <<stored, cached, run, db, lastGC, asked>>

Init ==
  /\ now = 1 /\ stored = [n \in Filters |-> Off] /\ cached = [n \in Filters |-> Off]
  /\ run = Idle /\ db = Empty /\ lastGC = 0 /\ asked = <<>>

Next ==
  \/ RunAllProcessorsOnLedger
  \/ \E from, to \in DOMAIN Ledgers, read \in SUBSET Filters : ReingestRange(from, to, read)
  \/ StreamLedger
  \/ FlushLoaders
  \/ FlushProcessors
  \/ Fail
  \/ \E name \in Filters, on \in BOOLEAN : \E list \in Whitelists[name] :
       UpdateFilterConfig(name, on, list)
  \/ Tick

Spec == Init /\ [][Next]_vars

-----------------------------------------------------------------------------
(* Properties.                                                             *)

Sum(S, f) == FoldFunction(+, 0, Restrict(f, S))

\* The history tables show exactly the wanted transactions of every ledger, the
\* ones wanted by the configuration in the database when the ledger's processing
\* began, whatever was cached, updated meanwhile, retried or ingested again; the
\* ledger's counts agree with its rows, every row belongs to a shown transaction,
\* and every name a row refers to is in the lookup tables.
HistoryIsFiltered ==
  /\ \A l \in DOMAIN db.ledgers :
       LET shown == {r[2] : r \in {x \in db.txs : x[1] = l}}
           row   == db.ledgers[l]
           good  == {t \in shown : Ledgers[l][t].ok}
           size  == [t \in DOMAIN Ledgers[l] |-> Len(Ledgers[l][t].ops)]
       IN  /\ asked[l].sure => shown = asked[l].wanted
           /\ row.success = Cardinality(good) /\ row.failed = Cardinality(shown \ good)
           /\ row.ops = Sum(good, size) /\ row.setOps = Sum(shown, size)
           /\ {r.id : r \in {x \in db.ops : x.id[1] = l}} =
                UNION {{<<l, t, i>> : i \in DOMAIN Ledgers[l][t].ops} : t \in shown}
  /\ \A r \in db.parts \cup db.pools \cup db.balances :
       <<r[1][1], r[1][2], 0>> \in db.txs /\ r[2] \in db.names

\* A transaction of a ledger ingested online can be found by its hash, in the
\* history or among the filtered-out transactions, until the collection period has
\* passed: a client waiting for its result gets it although the filters drop it.
ResultStaysFindable ==
  \A l \in DOMAIN asked :
     asked[l].live =>
       \A t \in DOMAIN Ledgers[l] :
          \/ <<l, t, 0>> \in db.txs
          \/ \E r \in db.tmp : r.id = <<l, t, 0>>
          \/ now - asked[l].since >= GCPeriod
=============================================================================
