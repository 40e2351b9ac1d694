---------------------------- MODULE StateTables ----------------------------
(***************************************************************************)
(* The tables that mirror the ledger's classic entries and the change      *)
(* processors that maintain them: ProcessorRunner streams the compacted    *)
(* changes of a ledger (or every entry of a history archive) through the   *)
(* processors, which batch their writes, and commits them.                 *)
(*                                                                         *)
(* A table is a function from primary keys to rows; a signers row is keyed *)
(* by <<account, signer>> and a claimants row by <<balance, destination>>. *)
(* An entry is abstracted to `body` (all columns that are only copied),    *)
(* its sponsor, the ledger that modified it and, for accounts, the weight  *)
(* of the master key and the signers; claimable balances have claimants.   *)
(*                                                                         *)
(* The first error of a run is kept in `err` of the transaction: what the  *)
(* code would have done after it is rolled back.                           *)
(***************************************************************************)
EXTENDS Integers, FiniteSets, Functions, TLC

CONSTANTS
    Key,                \* ledger keys
    KindOf,             \* [Key -> {"account", "data", "offer", "trustLine", "balance", "pool"}]
    Contents,           \* [Key -> set of entries without `modified`]
    None,               \* NULL
    Absent, Spent,      \* no entry; no entry and the key cannot be used again
    MaxBatch,           \* maxBatchSize
    CompactionWindow,   \* compactionWindow
    Frequency,          \* ledgers between two checkpoints
    MaxLedger,          \* bound: ledgers that close
    Groups              \* bound: the sets of keys of which a behaviour uses one

VARIABLES
    used,       \* the keys of this behaviour
    ledger,     \* the network's entries after ledger `sequence`
    next,       \* and after the ledger that is ingested next, None before it closes
    checkpoint, \* the last checkpoint: [seq, entries]
    archive,    \* the last one that is published
    sequence,   \* exp_ingest_last_ledger
    db,         \* the committed tables
    tx,         \* the tables as the open transaction sees them, with err
    source,     \* what is being ingested: None, "ledger" or "archive"
    todo,       \* changes that the reader has not returned yet
    pending,    \* the processors' batches
    diverged    \* whether the tables were damaged since they were built

networkVars == <<used, ledger, next, checkpoint, archive>>
runVars == <<sequence, db, tx, source, todo, pending>>
tableVars == <<networkVars, runVars, diverged>>

Table == {"accounts", "signers", "data", "offers", "trustLines", "balances", "claimants", "pools"}
Empty == <<>>
NoRows == [t \in Table |-> Empty]
NoBatch == [ins |-> Empty, upd |-> Empty, del |-> {}]
NoPending == [t \in Table |-> NoBatch]
Missing(e) == e \in {Absent, Spent}
Without(table, keys) == Restrict(table, DOMAIN table \ keys)

\* Keeps the first error.
Fail(t, failed, kind) == [t EXCEPT !.err = IF @ = None /\ failed THEN kind ELSE @]

-----------------------------------------------------------------------------
(***************************************************************************)
(* db2/history: batch inserts use COPY, so an existing row is an error.    *)
(***************************************************************************)
Inserted(t, table, rows) ==
    Fail([t EXCEPT ![table] = rows @@ @], DOMAIN rows \cap DOMAIN t[table] # {}, "error")

InsertAccounts(t, rows) == Inserted(t, "accounts", rows)
InsertSigners(t, rows) == Inserted(t, "signers", rows)
InsertData(t, rows) == Inserted(t, "data", rows)
InsertOffers(t, rows) == Inserted(t, "offers", rows)
InsertTrustLines(t, rows) == Inserted(t, "trustLines", rows)
InsertBalances(t, rows) == Inserted(t, "balances", rows)
InsertClaimants(t, rows) == Inserted(t, "claimants", rows)

upsertRows(t, table, rows) == [t EXCEPT ![table] = rows @@ @]

UpsertAccounts(t, rows) == upsertRows(t, "accounts", rows)
UpsertAccountData(t, rows) == upsertRows(t, "data", rows)
UpsertOffers(t, rows) == upsertRows(t, "offers", rows)
UpsertTrustLines(t, rows) == upsertRows(t, "trustLines", rows)
UpsertLiquidityPools(t, rows) == upsertRows(t, "pools", rows)

upsertCBs(t, rows) == upsertRows(t, "balances", rows)
ClaimantRows(rows) ==
    [c \in UNION {{<<b, d>> : d \in rows[b].claimants} : b \in DOMAIN rows} |-> rows[c[1]].modified]
upsertCBClaimants(t, rows) == upsertRows(t, "claimants", ClaimantRows(rows))
UpsertClaimableBalances(t, rows) == upsertCBClaimants(upsertCBs(t, rows), rows)

\* Fewer rows affected than keys given is a state error.
Removed(t, table, keys) ==
    Fail([t EXCEPT ![table] = Without(@, keys)], ~(keys \subseteq DOMAIN t[table]), "state")

RemoveAccounts(t, keys) == Removed(t, "accounts", keys)
RemoveAccountSigners(t, keys) == Removed(t, "signers", keys)
RemoveAccountData(t, keys) == Removed(t, "data", keys)
RemoveTrustLines(t, keys) == Removed(t, "trustLines", keys)
RemoveClaimableBalances(t, keys) == Removed(t, "balances", keys)
RemoveClaimableBalanceClaimants(t, keys) ==
    [t EXCEPT !.claimants = Without(@, {c \in DOMAIN @ : c[1] \in keys})]

Compacted(rows, cutOff) ==
    Without(rows, {k \in DOMAIN rows : rows[k].deleted /\ rows[k].modified =< cutOff})
CompactOffers(t, cutOff) == [t EXCEPT !.offers = Compacted(@, cutOff)]
CompactLiquidityPools(t, cutOff) == [t EXCEPT !.pools = Compacted(@, cutOff)]

-----------------------------------------------------------------------------
(***************************************************************************)
(* The change processors.  A change is [key, pre, post]; a batch holds the *)
(* rows to insert and to upsert and the keys to delete.                    *)
(***************************************************************************)
AccountRow(e) == [body |-> e.body, sponsor |-> e.sponsor, master |-> e.master, modified |-> e.modified]
DataRow(e) == [body |-> e.body, sponsor |-> e.sponsor, modified |-> e.modified]
xdrToTrustline(e) == [body |-> e.body, sponsor |-> e.sponsor, modified |-> e.modified]
OfferRow(e) == [body |-> e.body, sponsor |-> e.sponsor, modified |-> e.modified, deleted |-> FALSE]
BalanceRow(e) == [body |-> e.body, sponsor |-> e.sponsor, modified |-> e.modified, claimants |-> e.claimants]
PoolRow(e) == [body |-> e.body, modified |-> e.modified, deleted |-> FALSE]
Tombstone(row, seq) == [row EXCEPT !.deleted = TRUE, !.modified = seq]

\* SignerSummary: the master key counts as a signer unless its weight is zero.
SignerRows(account, e) ==
    LET signers == DOMAIN e.signers \cup (IF e.master > 0 THEN {account} ELSE {})
    IN  [s \in {<<account, x>> : x \in signers} |->
            IF s[2] = account THEN [weight |-> e.master, sponsor |-> None] ELSE e.signers[s[2]]]
SignersOf(account, e) == IF Missing(e) THEN Empty ELSE SignerRows(account, e)

\* The ledger that is ingested: an archive is the one of the ledger `sequence`.
Ingesting == IF source = "archive" THEN sequence ELSE sequence + 1

Size(b) == Cardinality(DOMAIN b.ins) + Cardinality(DOMAIN b.upd) + Cardinality(b.del)
Insert(b, key, row) == [b EXCEPT !.ins = (key :> row) @@ @]
Upsert(b, key, row) == [b EXCEPT !.upd = (key :> row) @@ @]
Delete(b, key) == [b EXCEPT !.del = @ \cup {key}]

DataProcessChange(b, c) ==
    IF Missing(c.pre) THEN Insert(b, c.key, DataRow(c.post))
    ELSE IF Missing(c.post) THEN Delete(b, c.key)
    ELSE Upsert(b, c.key, DataRow(c.post))

DataCommit(t, b) == RemoveAccountData(UpsertAccountData(InsertData(t, b.ins), b.upd), b.del)

\* Every field but the signers is compared, the last modified ledger included.
AccountChangedExceptSigners(c) ==
    \/ Missing(c.pre) \/ Missing(c.post)
    \/ [c.pre EXCEPT !.signers = Empty] # [c.post EXCEPT !.signers = Empty]

AccountsProcessChange(b, c) ==
    IF ~AccountChangedExceptSigners(c) THEN b
    ELSE IF Missing(c.pre) THEN Insert(b, c.key, AccountRow(c.post))
    ELSE IF Missing(c.post) THEN Delete(b, c.key)
    ELSE Upsert(b, c.key, AccountRow(c.post))

AccountsCommit(t, b) == RemoveAccounts(UpsertAccounts(InsertAccounts(t, b.ins), b.upd), b.del)

OffersProcessChange(b, c) ==
    IF Missing(c.pre) THEN Insert(b, c.key, OfferRow(c.post))
    ELSE IF Missing(c.post) THEN Upsert(b, c.key, Tombstone(OfferRow(c.pre), Ingesting))
    ELSE Upsert(b, c.key, OfferRow(c.post))

OffersFlush(t, b) == UpsertOffers(InsertOffers(t, b.ins), b.upd)

OffersCommit(t, b, seq) ==
    IF seq > CompactionWindow THEN CompactOffers(OffersFlush(t, b), seq - CompactionWindow)
    ELSE OffersFlush(t, b)

\* Mutant: a signer whose sponsor changed is left alone.
accountSignersDiffByWeight(c) ==
    LET pre == SignersOf(c.key, c.pre)
        post == SignersOf(c.key, c.post)
        same == {s \in DOMAIN pre \cap DOMAIN post : pre[s].weight = post[s].weight}
    IN  [removed |-> DOMAIN pre \ same, added |-> Without(post, same)]

\* accountSignersDiff: signers whose weight and sponsor stay are left alone.
accountSignersDiff(c) ==
    LET pre == SignersOf(c.key, c.pre)
        post == SignersOf(c.key, c.post)
        same == {s \in DOMAIN pre \cap DOMAIN post : pre[s] = post[s]}
    IN  [removed |-> DOMAIN pre \ same, added |-> Without(post, same)]

\* Signers are removed at once; the ones to add wait in the batch.
SignersRemove(t, c) == RemoveAccountSigners(t, accountSignersDiff(c).removed)
SignersProcessChange(b, c) == [b EXCEPT !.ins = accountSignersDiff(c).added @@ @]
SignersCommit(t, b) == InsertSigners(t, b.ins)

TrustLinesProcessChange(b, c) ==
    IF Missing(c.pre) THEN Insert(b, c.key, xdrToTrustline(c.post))
    ELSE IF Missing(c.post) THEN Delete(b, c.key)
    ELSE Upsert(b, c.key, xdrToTrustline(c.post))

TrustLinesCommit(t, b) == RemoveTrustLines(UpsertTrustLines(InsertTrustLines(t, b.ins), b.upd), b.del)

BalancesProcessChange(b, c) ==
    IF Missing(c.pre) THEN Insert(b, c.key, BalanceRow(c.post))
    ELSE IF Missing(c.post) THEN Delete(b, c.key)
    ELSE Upsert(b, c.key, BalanceRow(c.post))

\* Mutant: the claimants of removed balances stay.
BalancesCommitKeepsClaimants(t, b) ==
    LET inserted == InsertBalances(InsertClaimants(t, ClaimantRows(b.ins)), b.ins)
    IN  RemoveClaimableBalances(UpsertClaimableBalances(inserted, b.upd), b.del)

BalancesCommit(t, b) ==
    LET inserted == InsertBalances(InsertClaimants(t, ClaimantRows(b.ins)), b.ins)
        removed == RemoveClaimableBalances(UpsertClaimableBalances(inserted, b.upd), b.del)
    IN  RemoveClaimableBalanceClaimants(removed, b.del)

\* The claimants to insert count as well.
BalancesSize(b) == Size(b) + Cardinality(DOMAIN ClaimantRows(b.ins))

PoolsProcessChange(b, c) ==
    IF Missing(c.post) THEN Upsert(b, c.key, Tombstone(PoolRow(c.pre), Ingesting))
    ELSE Upsert(b, c.key, PoolRow(c.post))

PoolsCommit(t, b, seq) ==
    LET upserted == UpsertLiquidityPools(t, b.upd)
    IN  IF seq > CompactionWindow THEN CompactLiquidityPools(upserted, seq - CompactionWindow)
        ELSE upserted

-----------------------------------------------------------------------------
(***************************************************************************)
(* The runner.                                                             *)
(***************************************************************************)
\* Changes of a ledger as the compacting reader returns them: one for each key.
Changes(from, to) ==
    {[key |-> k, pre |-> from[k], post |-> to[k]] :
        k \in {x \in used : from[x] # to[x] /\ ~(Missing(from[x]) /\ Missing(to[x]))}}

\* Offers and claimable balances have identifiers that are never used again.
Successors(k, seq) ==
    IF ledger[k] = Spent THEN {Spent}
    ELSE {ledger[k]}
         \cup {e @@ [modified |-> seq] : e \in Contents[k]}
         \cup (IF ledger[k] = Absent THEN {}
               ELSE {IF KindOf[k] \in {"offer", "balance"} THEN Spent ELSE Absent})

Following(seq) ==
    {f @@ ledger : f \in {g \in [used -> UNION {Successors(k, seq) : k \in used}] :
                              \A k \in used : g[k] \in Successors(k, seq)}}

\* The next ledger closes, unless it has before, and the runner begins with it.
BeginLedger ==
    /\ source = None /\ sequence < MaxLedger
    /\ IF next = None THEN next' \in Following(sequence + 1) ELSE UNCHANGED next
    /\ todo' = Changes(ledger, next')
    /\ source' = "ledger"
    /\ tx' = db @@ [err |-> None]
    /\ pending' = NoPending
    /\ UNCHANGED <<used, ledger, checkpoint, archive, sequence, db, diverged>>

Creations(entries) ==
    {[key |-> k, pre |-> Absent, post |-> entries[k]] : k \in {x \in used : ~Missing(entries[x])}}

\* RunHistoryArchiveIngestion on tables that were truncated: every entry is created.
BeginArchive ==
    /\ source = None /\ archive.seq = sequence
    /\ todo' = Creations(archive.entries)
    /\ source' = "archive"
    /\ tx' = NoRows @@ [err |-> None]
    /\ pending' = NoPending
    /\ UNCHANGED <<networkVars, sequence, db, diverged>>

\* A processor flushes when its batch exceeds MaxBatch.
Full(table, b) == (IF table = "balances" THEN BalancesSize(b) ELSE Size(b)) > MaxBatch

Processed(table, flushed, b, t) ==
    /\ tx' = IF Full(table, b) THEN flushed ELSE t
    /\ pending' = [pending EXCEPT ![table] = IF Full(table, b) THEN NoBatch ELSE b]

ProcessAccount(c) ==
    LET accounts == AccountsProcessChange(pending.accounts, c)
        t == IF Full("accounts", accounts) THEN AccountsCommit(tx, accounts) ELSE tx
        removed == SignersRemove(t, c)
        signers == SignersProcessChange(pending.signers, c)
    IN  /\ tx' = IF Full("signers", signers) THEN SignersCommit(removed, signers) ELSE removed
        /\ pending' = [pending EXCEPT
                !.accounts = IF Full("accounts", accounts) THEN NoBatch ELSE accounts,
                !.signers = IF Full("signers", signers) THEN NoBatch ELSE signers]

ProcessData(c) ==
    LET b == DataProcessChange(pending.data, c) IN Processed("data", DataCommit(tx, b), b, tx)

ProcessOffer(c) ==
    LET b == OffersProcessChange(pending.offers, c) IN Processed("offers", OffersFlush(tx, b), b, tx)

ProcessTrustLine(c) ==
    LET b == TrustLinesProcessChange(pending.trustLines, c)
    IN  Processed("trustLines", TrustLinesCommit(tx, b), b, tx)

ProcessBalance(c) ==
    LET b == BalancesProcessChange(pending.balances, c)
    IN  Processed("balances", BalancesCommit(tx, b), b, tx)

ProcessPool(c) ==
    LET b == PoolsProcessChange(pending.pools, c)
    IN  Processed("pools", PoolsCommit(tx, b, Ingesting), b, tx)

ProcessChange ==
    /\ source # None /\ tx.err = None
    /\ \E c \in todo :
        /\ todo' = todo \ {c}
        /\ \/ KindOf[c.key] = "account" /\ ProcessAccount(c)
           \/ KindOf[c.key] = "data" /\ ProcessData(c)
           \/ KindOf[c.key] = "offer" /\ ProcessOffer(c)
           \/ KindOf[c.key] = "trustLine" /\ ProcessTrustLine(c)
           \/ KindOf[c.key] = "balance" /\ ProcessBalance(c)
           \/ KindOf[c.key] = "pool" /\ ProcessPool(c)
    /\ UNCHANGED <<networkVars, sequence, db, source, diverged>>

\* groupChangeProcessors.Commit, in the order of buildChangeProcessor.
CommitProcessors(t, p, seq) ==
    LET data == DataCommit(t, p.data)
        accounts == AccountsCommit(data, p.accounts)
        offers == OffersCommit(accounts, p.offers, seq)
        signers == SignersCommit(offers, p.signers)
        trustLines == TrustLinesCommit(signers, p.trustLines)
        balances == BalancesCommit(trustLines, p.balances)
    IN  PoolsCommit(balances, p.pools, seq)

\* The processors commit and the transaction with them.
Commit ==
    /\ source # None /\ todo = {} /\ tx.err = None
    /\ tx' = CommitProcessors(tx, pending, Ingesting)
    /\ pending' = NoPending
    /\ IF tx'.err # None THEN UNCHANGED <<db, sequence, source, ledger, next, checkpoint, diverged>>
       ELSE /\ db' = [x \in Table |-> tx'[x]]
            /\ sequence' = Ingesting
            /\ source' = None
            /\ ledger' = IF source = "ledger" THEN next ELSE ledger
            /\ next' = IF source = "ledger" THEN None ELSE next
            /\ checkpoint' = IF source = "ledger" /\ Ingesting % Frequency = 0
                             THEN [seq |-> Ingesting, entries |-> next] ELSE checkpoint
            /\ diverged' = (diverged /\ source = "ledger")
    /\ UNCHANGED <<used, archive, todo>>

\* A crash, or an error of the reader or the database: the run starts over.
Retry ==
    /\ source # None /\ tx.err = None
    /\ tx' = (IF source = "archive" THEN NoRows ELSE db) @@ [err |-> None]
    /\ todo' = IF source = "archive" THEN Creations(archive.entries) ELSE Changes(ledger, next)
    /\ pending' = NoPending
    /\ UNCHANGED <<networkVars, sequence, db, source, diverged>>

\* stellar-core publishes the checkpoint.
Publish ==
    /\ archive # checkpoint
    /\ archive' = checkpoint
    /\ UNCHANGED <<used, ledger, next, checkpoint, runVars, diverged>>

\* Rows a damaged table may hold: what verification is there to find.
RowsFor(table, k) ==
    CASE table = "accounts" -> {AccountRow(e @@ [modified |-> 1]) : e \in Contents[k]}
      [] table = "data" -> {DataRow(e @@ [modified |-> 1]) : e \in Contents[k]}
      [] table = "trustLines" -> {xdrToTrustline(e @@ [modified |-> 1]) : e \in Contents[k]}
      [] table = "offers" -> {OfferRow(e @@ [modified |-> 1]) : e \in Contents[k]}
      [] table = "balances" -> {BalanceRow(e @@ [modified |-> 1]) : e \in Contents[k]}
      [] table = "pools" -> {PoolRow(e @@ [modified |-> 1]) : e \in Contents[k]}
      [] table = "signers" -> {[weight |-> 2, sponsor |-> None]}
      [] table = "claimants" -> {0}

TableOf(k) ==
    [account |-> "accounts", data |-> "data", offer |-> "offers", trustLine |-> "trustLines",
     balance |-> "balances", pool |-> "pools"][KindOf[k]]
SignerKeys(k) == {<<k, k>>} \cup {<<k, s>> : s \in UNION {DOMAIN e.signers : e \in Contents[k]}}
ClaimantKeys(k) == {<<k, d>> : d \in UNION {e.claimants : e \in Contents[k]}}
RowKeys(k) ==
    {<<TableOf(k), k>>}
        \cup (IF KindOf[k] = "account" THEN {<<"signers", s>> : s \in SignerKeys(k)} ELSE {})
        \cup (IF KindOf[k] = "balance" THEN {<<"claimants", c>> : c \in ClaimantKeys(k)} ELSE {})

\* A defect of an earlier release, or a hand, loses or changes one row.
Diverge ==
    /\ source = None /\ ~diverged
    /\ \E k \in used : \E r \in RowKeys(k) :
        \/ r[2] \in DOMAIN db[r[1]] /\ db' = [db EXCEPT ![r[1]] = Without(@, {r[2]})]
        \/ \E row \in RowsFor(r[1], r[2]) : db' = [db EXCEPT ![r[1]] = (r[2] :> row) @@ @]
    /\ diverged' = TRUE
    /\ UNCHANGED <<networkVars, sequence, tx, source, todo, pending>>

TablesInit ==
    /\ used \in Groups
    /\ ledger = [k \in Key |-> Absent] /\ next = None
    /\ checkpoint = [seq |-> 0, entries |-> ledger] /\ archive = checkpoint
    /\ sequence = 0
    /\ db = NoRows
    /\ tx = NoRows @@ [err |-> None]
    /\ source = None /\ todo = {} /\ pending = NoPending
    /\ diverged = FALSE

TablesNext == BeginLedger \/ BeginArchive \/ ProcessChange \/ Commit \/ Retry \/ Publish \/ Diverge

-----------------------------------------------------------------------------
Live(rows) == {k \in DOMAIN rows : ~rows[k].deleted}
Of(entries, kind) == {k \in used : KindOf[k] = kind /\ ~Missing(entries[k])}

\* What the API serves of tables d is exactly the given entries.
Mirrors(d, entries) ==
    /\ d.accounts = [k \in Of(entries, "account") |-> AccountRow(entries[k])]
    /\ \A k \in Of(entries, "account") :
        Restrict(d.signers, {s \in DOMAIN d.signers : s[1] = k}) = SignerRows(k, entries[k])
    /\ d.data = [k \in Of(entries, "data") |-> DataRow(entries[k])]
    /\ d.trustLines = [k \in Of(entries, "trustLine") |-> xdrToTrustline(entries[k])]
    /\ d.balances = [k \in Of(entries, "balance") |-> BalanceRow(entries[k])]
    /\ \A k \in Of(entries, "balance") :
        Restrict(d.claimants, {c \in DOMAIN d.claimants : c[1] = k})
            = ClaimantRows(k :> BalanceRow(entries[k]))
    /\ Restrict(d.offers, Live(d.offers)) = [k \in Of(entries, "offer") |-> OfferRow(entries[k])]
    /\ Restrict(d.pools, Live(d.pools)) = [k \in Of(entries, "pool") |-> PoolRow(entries[k])]

\* Whatever changes a ledger makes, in whatever order they are read and however
\* the batches fill, the committed tables are the entries of the last ledger, no
\* processor fails, no signer or claimant is left behind and no tombstone
\* outlives the compaction window.
MirrorsLedger ==
    ~diverged =>
        /\ tx.err = None
        /\ Mirrors(db, ledger)
        /\ \A s \in DOMAIN db.signers : s[1] \in DOMAIN db.accounts
        /\ \A c \in DOMAIN db.claimants : c[1] \in DOMAIN db.balances
        /\ \A rows \in {db.offers, db.pools} : \A k \in DOMAIN rows \ Live(rows) :
                rows[k].modified > sequence - CompactionWindow
=============================================================================
