----------------------------- MODULE HistoryApi -----------------------------
(***************************************************************************)
(* The history end-points of Horizon: pages of ledgers, transactions,      *)
(* operations, effects and trades, read page by page or as a stream of     *)
(* server-sent events, while ingestion appends ledgers, the reaper removes *)
(* the oldest ones, a read replica lags behind the primary database and    *)
(* the cached ledger status lags behind both.                              *)
(*                                                                         *)
(* History is a fixed set Rows; what a database holds at some moment is    *)
(* the rows of its ledgers elder..latest.  A cursor is a sequence of       *)
(* numbers: <<>> is the absent one, Now the word "now", <<i>> a single     *)
(* number and <<i, j>> a pair joined by "-".                               *)
(***************************************************************************)
EXTENDS Integers, FiniteSets, Sequences

CONSTANTS
  Rows,        \* [table, op, order, base, counter, failed, payment]
  Requests,    \* [mode, q, limit, url, replicated]: what a client asks for
               \* ("page" or "stream", a query [table, by, tag, id, order,
               \* failed, payments, join], a page size, a cursor) and where
  FirstLedger, MaxLedger,
  TxSpan, LedgerSpan,  \* how many ids a transaction and a ledger take
  MaxOrder,    \* stands for math.MaxInt32 in a pair cursor
  Attempts     \* attempts of the replica check

VARIABLES
  replicated,  \* does this deployment read from a replica?
  log,         \* the state of the replica and the commits it has to replay
  tick,        \* the half-read status of UpdateHorizonLedgerState
  status,      \* ledger.State: the cached status
  c            \* the client and the request it has in flight

vars == <<replicated, log, tick, status, c>>

Now == <<-1>>
MaxInt64 == LedgerSpan * (MaxLedger + 2)

IsCursor(cur) == cur \in Seq(Int) /\ Len(cur) <= 2

\* What the tables can be filtered by (the routes and their query parameters).
FiltersOf(table) ==
  CASE table = "ledgers"      -> {"all"}
    [] table = "transactions" -> {"all", "tag", "ledger"}
    [] table = "operations"   -> {"all", "tag", "ledger", "tx"}
    [] table = "effects"      -> {"all", "tag", "pool", "ledger", "tx", "op"}
    [] table = "trades"       -> {"all", "tag"}
    [] OTHER                  -> {}

QueryValid(q) ==
  /\ q.order \in {"asc", "desc"}
  /\ q.by \in FiltersOf(q.table)
  /\ q.failed \in BOOLEAN /\ q.payments \in BOOLEAN /\ q.join \in BOOLEAN
  /\ q.payments \/ q.join => q.table = "operations"

RequestValid(r) ==
  /\ r.mode \in {"page", "stream"} /\ r.replicated \in BOOLEAN
  /\ QueryValid(r.q) /\ r.limit \in Nat \ {0} /\ IsCursor(r.url)

\* Only a trade has two sides, and only transactions and operations fail.
RowValid(r) ==
  /\ r.op \in Nat /\ r.order \in 0 .. MaxOrder - 1
  /\ r.failed \in BOOLEAN /\ r.payment \in BOOLEAN
  /\ r.table # "trades" => r.counter = {}
  /\ r.table \notin {"transactions", "operations"} => ~r.failed

ASSUME HistoryAssumption ==
  /\ FirstLedger \in Nat \ {0} /\ MaxLedger \in Nat /\ FirstLedger <= MaxLedger
  /\ LedgerSpan \in Nat \ {0} /\ TxSpan \in Nat \ {0}
  /\ MaxOrder \in Nat /\ MaxOrder <= MaxInt64 /\ Attempts \in Nat
  /\ IsFiniteSet(Rows) /\ \A r \in Rows : RowValid(r)
  /\ \A r, s \in Rows : r.table = s.table /\ r.op = s.op /\ r.order = s.order => r = s
  /\ \A r \in Requests : RequestValid(r)

ToId(ledger, tx, op) == ledger * LedgerSpan + tx * TxSpan + op
LedgerOf(id) == id \div LedgerSpan
TxOf(id) == id - (id % TxSpan)
AfterLedger(seq) == ToId(seq + 1, 0, 0) - 1

primary == log[Len(log)]
replica == log[1]
Stored(db) == {r \in Rows : LedgerOf(r.op) \in db.elder .. db.latest}

-----------------------------------------------------------------------------
(* Cursors and page queries. *)

PairTable(t) == t \in {"effects", "trades"}

getCursor(url, header, st) ==
  IF header # <<>> THEN header
  ELSE IF url = Now THEN <<AfterLedger(st.latest)>> ELSE url

Negative(cur) == \E i \in DOMAIN cur : cur[i] < 0

CursorInt64Pair(cur, order) ==
  CASE cur = <<>> -> IF order = "asc" THEN <<0, 0>> ELSE <<MaxInt64, MaxInt64>>
    [] Len(cur) = 1 -> <<cur[1], MaxInt64>>
    [] OTHER -> cur

\* A pair is no int64: strconv.ParseInt refuses it.
CursorInt64Parses(cur) == Len(cur) # 2

parseEffectsCursor(cur, order) ==
  LET p == CursorInt64Pair(cur, order)
  IN  <<p[1], IF p[2] > MaxOrder THEN MaxOrder ELSE p[2]>>

BeforeHistory(st, cur, order) ==
  CursorInt64Pair(cur, order)[1] <= ToId(st.elder, 0, 0)

\* The cursor the page is read from, or "gone".
validateAndAdjustCursor(st, cur, order) ==
  IF order = "asc" /\ (cur = <<>> \/ BeforeHistory(st, cur, order))
    THEN [gone |-> FALSE,
          cursor |-> <<AfterLedger(IF st.elder > 1 THEN st.elder - 1 ELSE 0)>>]
    ELSE [gone |-> BeforeHistory(st, cur, order), cursor |-> cur]

lowestLedgerBound(oldest) ==
  IF oldest <= 2 THEN 0 ELSE AfterLedger(oldest - 1)

-----------------------------------------------------------------------------
(* The queries. *)

Pos(r) == <<r.op, r.order>>
Less(a, b) == a[1] < b[1] \/ (a[1] = b[1] /\ a[2] < b[2])

FirstOf(rows, order, limit) ==
  LET ahead(r) == {x \in rows : IF order = "asc" THEN Less(Pos(x), Pos(r))
                                                 ELSE Less(Pos(r), Pos(x))}
      n == IF Cardinality(rows) < limit THEN Cardinality(rows) ELSE limit
  IN  [i \in 1 .. n |-> CHOOSE r \in rows : Cardinality(ahead(r)) = i - 1]

\* A descending query that no id range bounds stops at the oldest ledger.
AboveOldest(rows, q, elder) ==
  IF q.order = "desc" /\ q.by \notin {"ledger", "tx", "op"}
    THEN {r \in rows : r.op > lowestLedgerBound(elder)} ELSE rows

\* Mutant: a cursor that includes its own row.
ApplyToEarly(rows, q, cur, limit) ==
  LET at == IF cur = <<>> THEN MaxInt64 ELSE cur[1]
  IN  FirstOf({r \in rows : IF q.order = "asc" THEN r.op >= at ELSE r.op < at},
              q.order, limit)

ApplyTo(rows, q, cur, limit) ==
  LET at == IF cur = <<>> THEN MaxInt64 ELSE cur[1]
  IN  FirstOf({r \in rows : IF q.order = "asc" THEN r.op > at ELSE r.op < at},
              q.order, limit)

\* Mutant: the order within an operation is forgotten.
selectEffectsPageByOperation(rows, q, cur, limit) ==
  LET at == parseEffectsCursor(cur, q.order)
  IN  FirstOf({r \in rows : IF q.order = "asc" THEN r.op > at[1]
                                               ELSE r.op < at[1]},
              q.order, limit)

selectEffectsPage(rows, q, cur, limit) ==
  LET at == parseEffectsCursor(cur, q.order)
  IN  FirstOf({r \in rows : IF q.order = "asc" THEN Less(at, Pos(r))
                                               ELSE Less(Pos(r), at)},
              q.order, limit)

\* The id range of a ledger, a transaction or an operation.
InRange(q, r) ==
  CASE q.by = "ledger" -> LedgerOf(r.op) = q.id
    [] q.by = "tx"     -> TxOf(r.op) = q.id
    [] q.by = "op"     -> r.op = q.id
    [] OTHER           -> TRUE

\* ForAccount, ForClaimableBalance, ForLiquidityPool, ForLedger,
\* ForTransaction, OnlyPayments and the include_failed condition.
OperationsQ(rows, q) ==
  {r \in rows : /\ r.table = "operations"
                /\ q.by = "tag" => q.tag \in r.base
                /\ InRange(q, r)
                /\ q.payments => r.payment
                /\ q.failed \/ q.by = "tx" \/ ~r.failed}

TransactionsQ(rows, q) ==
  {r \in rows : /\ r.table = "transactions"
                /\ q.by = "tag" => q.tag \in r.base
                /\ InRange(q, r)
                /\ q.failed \/ ~r.failed}

LedgersQ(rows) == {r \in rows : r.table = "ledgers"}

\* Mutant: the operation that the cursor stands in is left out.
PoolOperationsBeyond(rows, q, cur, limit) ==
  LET at  == CursorInt64Pair(cur, q.order)[1]
      ops == FirstOf({r \in rows : /\ r.table = "operations"
                                   /\ q.tag \in r.base
                                   /\ IF q.order = "asc" THEN r.op > at
                                                         ELSE r.op < at},
                     q.order, limit)
  IN  {ops[i].op : i \in DOMAIN ops}

\* The operations of a pool from the cursor on, at most limit of them.  That of the
\* cursor counts, whether or not it has effects left.
PoolOperations(rows, q, cur, limit) ==
  LET at  == CursorInt64Pair(cur, q.order)[1]
      ops == FirstOf({r \in rows : /\ r.table = "operations"
                                   /\ q.tag \in r.base
                                   /\ IF q.order = "asc" THEN r.op >= at
                                                         ELSE r.op <= at},
                     q.order, limit)
  IN  {ops[i].op : i \in DOMAIN ops}

\* The effects of the operations ops.
EffectsForLiquidityPool(rows, ops) == {r \in rows : r.table = "effects" /\ r.op \in ops}

loadEffectRecords(rows, q, ops) ==
  CASE q.by = "pool" -> EffectsForLiquidityPool(rows, ops)
    [] q.by = "tag"  -> {r \in rows : r.table = "effects" /\ q.tag \in r.base}
    [] OTHER         -> {r \in rows : r.table = "effects" /\ InRange(q, r)}

\* Mutant: one side of the union is missing.
createTradesSQLBase(rows, q) ==
  LET trades == {r \in rows : r.table = "trades"}
  IN  IF q.by = "tag" THEN {r \in trades : q.tag \in r.base} ELSE trades

\* An account, an offer or a pool may stand on either side of a trade.
createTradesSQL(rows, q) ==
  LET trades == {r \in rows : r.table = "trades"}
  IN  IF q.by = "tag"
        THEN {r \in trades : q.tag \in r.base} \cup
             {r \in trades : q.tag \in r.counter}
        ELSE trades

\* AccountByAddress, LiquidityPoolByID, ClaimableBalanceByID find what some
\* row has named; LedgerBySequence and TransactionByHash find stored rows.
Found(db, q) ==
  CASE q.by \in {"tag"} ->
         \E r \in Rows : LedgerOf(r.op) <= db.latest /\ q.tag \in r.base \cup r.counter
    [] q.by = "ledger" -> q.id \in db.elder .. db.latest
    [] q.by = "tx" -> \E r \in Stored(db) : r.table = "transactions" /\ r.op = q.id
    [] OTHER -> TRUE

LooksUp(q) == q.by \notin {"all", "op"}

\* The five handlers' GetResourcePage, up to the loading of the ledgers.
GetLedgers(rows, q, elder, cur, limit) ==
  ApplyTo(AboveOldest(LedgersQ(rows), q, elder), q, cur, limit)

GetTransactions(rows, q, elder, cur, limit) ==
  ApplyTo(AboveOldest(TransactionsQ(rows, q), q, elder), q, cur, limit)

GetOperations(rows, q, elder, cur, limit) ==
  ApplyTo(AboveOldest(OperationsQ(rows, q), q, elder), q, cur, limit)

GetEffects(rows, q, elder, cur, limit, ops) ==
  selectEffectsPage(AboveOldest(loadEffectRecords(rows, q, ops), q, elder),
                    q, cur, limit)

GetTrades(rows, q, elder, cur, limit) ==
  selectEffectsPage(AboveOldest(createTradesSQL(rows, q), q, elder), q, cur, limit)

SelectPage(db, q, elder, cur, limit, ops) ==
  LET rows == Stored(db) IN
  CASE q.table = "ledgers"      -> GetLedgers(rows, q, elder, cur, limit)
    [] q.table = "transactions" -> GetTransactions(rows, q, elder, cur, limit)
    [] q.table = "operations"   -> GetOperations(rows, q, elder, cur, limit)
    [] q.table = "effects"      -> GetEffects(rows, q, elder, cur, limit, ops)
    [] OTHER                    -> GetTrades(rows, q, elder, cur, limit)

PagingToken(r) == IF PairTable(r.table) THEN <<r.op, r.order>> ELSE <<r.op>>

-----------------------------------------------------------------------------
(* The databases and the cached status. *)

\* Without a replica every reader sees a commit at once.
CommitState(db) ==
  /\ log' = IF replicated THEN Append(log, db) ELSE <<db>>
  /\ UNCHANGED <<replicated, tick, status, c>>

\* External: ingestion commits the next ledger (IngestionFSM).
IngestLedger ==
  /\ primary.latest < MaxLedger
  /\ CommitState([primary EXCEPT !.latest = @ + 1])

\* External: the reaper removes the oldest ledger (HistoryReaper).
ReapLedger ==
  /\ primary.elder < primary.latest
  /\ CommitState([primary EXCEPT !.elder = @ + 1])

\* External: the replica replays the next commit.
Replay ==
  /\ Len(log) > 1
  /\ log' = Tail(log)
  /\ UNCHANGED <<replicated, tick, status, c>>

\* UpdateHorizonLedgerState: three queries outside a transaction.
TickLatest ==
  /\ tick = <<>>
  /\ tick' = <<replica.latest>>
  /\ UNCHANGED <<replicated, log, status, c>>

TickElder ==
  /\ Len(tick) = 1
  /\ tick' = Append(tick, replica.elder)
  /\ UNCHANGED <<replicated, log, status, c>>

SetHorizonStatus ==
  /\ Len(tick) = 2
  /\ status' = [latest |-> tick[1], elder |-> tick[2], exp |-> replica.latest]
  /\ tick' = <<>>
  /\ UNCHANGED <<replicated, log, c>>

-----------------------------------------------------------------------------
(* One request at a time of one client. *)

NoSnapshot == [elder |-> 0, latest |-> 0]

Client(mode, q, limit, url) ==
  [mode |-> mode, q |-> q, limit |-> limit, url |-> url, pc |-> "idle",
   floor |-> 0, attempt |-> 0, newest |-> 0, header |-> <<>>, last |-> <<>>,
   first |-> <<>>, cursor |-> <<>>, rows |-> <<>>, seq |-> 0, left |-> 0,
   ops |-> {}, snap |-> NoSnapshot,
   start |-> <<>>, seen |-> <<>>]

Server(client) ==
  c' = client /\ UNCHANGED <<replicated, log, tick, status>>

\* Between requests the server keeps nothing of a client.
BetweenRequests(client) ==
  [Client(client.mode, client.q, client.limit, client.url) EXCEPT
     !.last = client.last, !.start = client.start, !.seen = client.seen]

\* The client asks again after an error, with what it has.
Reply == Server(BetweenRequests(c))

\* The client sends a page request, or opens its stream again.
Send ==
  /\ c.pc = "idle"
  /\ Server([c EXCEPT !.pc = IF replicated THEN "primary" ELSE "begin",
                      !.floor = primary.latest, !.attempt = 1,
                      !.header = IF c.mode = "stream" THEN c.last ELSE <<>>,
                      !.start = IF c.seen = <<>> THEN <<>> ELSE @])

\* ReplicaSyncCheckMiddleware reads the primary, then the replica.
ReadPrimary ==
  /\ c.pc = "primary"
  /\ Server([c EXCEPT !.pc = "replica", !.newest = primary.latest])

\* Mutant: a replica one ledger behind passes.
ReplicaInSyncLate == replica.latest + 1 >= c.newest

ReplicaInSync == replica.latest >= c.newest

ReadReplica ==
  /\ c.pc = "replica"
  /\ IF ReplicaInSync THEN Server([c EXCEPT !.pc = "begin"])
     ELSE IF c.attempt < Attempts
       THEN Server([c EXCEPT !.pc = "primary", !.attempt = @ + 1])
       ELSE Reply

\* NewPageQuery validates the cursor as a pair of numbers.
GetPageQuery == getCursor(c.url, c.header, status)

\* renderPage goes to the action; renderStream first takes the page query
\* and then the ledger its source is at.
Begin ==
  /\ c.pc = "begin"
  /\ IF Negative(GetPageQuery) THEN Reply
     ELSE IF c.mode = "page" THEN Server([c EXCEPT !.pc = "resolve"])
     ELSE Server([c EXCEPT !.pc = "serve", !.first = GetPageQuery])

ServeStream ==
  /\ c.pc = "serve"
  /\ Server([c EXCEPT !.pc = "resolve", !.seq = status.exp, !.left = c.limit])

Resolve ==
  /\ c.pc = "resolve"
  /\ IF Negative(GetPageQuery) THEN Reply
     ELSE Server([c EXCEPT !.pc = "adjust", !.cursor = GetPageQuery])

Adjust ==
  /\ c.pc = "adjust"
  /\ LET a == validateAndAdjustCursor(status, c.cursor, c.q.order)
     IN  IF a.gone \/ ~(PairTable(c.q.table) \/ CursorInt64Parses(a.cursor))
           THEN Reply
           ELSE Server([c EXCEPT !.pc = IF LooksUp(c.q) THEN "lookup" ELSE "query",
                                 !.cursor = a.cursor])

\* What the request is about is looked up in a statement of its own.
Lookup ==
  /\ c.pc = "lookup"
  /\ IF ~Found(replica, c.q) THEN Reply
     ELSE Server([c EXCEPT !.pc = "query", !.snap = replica,
            !.ops = IF c.q.by = "pool"
                      THEN PoolOperations(Stored(replica), c.q, c.cursor, c.limit) ELSE {}])

\* The database as both statements saw it.
Common(first, second) == [elder |-> second.elder, latest |-> first.latest]

Query ==
  /\ c.pc = "query"
  /\ Server([c EXCEPT
       !.pc = IF c.q.join THEN "join" ELSE "load",
       !.snap = IF c.q.by = "pool" THEN Common(@, replica) ELSE replica,
       !.rows = SelectPage(replica, c.q, status.elder, c.cursor, c.limit, c.ops)])

\* Fetch with join=transactions: the transaction of every operation is read.
TransactionsByIDs ==
  /\ c.pc = "join"
  /\ IF \E i \in DOMAIN c.rows : \A t \in Stored(replica) :
           t.table = "transactions" => t.op # TxOf(c.rows[i].op)
       THEN Reply
       ELSE Server([c EXCEPT !.pc = "load"])

\* buildOperationsPage: every operation needs the row of its ledger, which
\* the reaper may have removed since.  Effects do without.
LoadLedgers ==
  /\ c.pc = "load"
  /\ IF /\ c.q.table = "operations"
        /\ \E i \in DOMAIN c.rows :
             LedgerOf(c.rows[i].op) \notin replica.elder .. replica.latest
       THEN Reply
       ELSE Server([c EXCEPT !.pc = "build", !.snap = NoSnapshot, !.ops = {}])

LastToken(rows) == PagingToken(rows[Len(rows)])

\* buildPage takes the page query once more; the next link (external: hal)
\* starts at the last row, or at that query's cursor when there is none.
RenderPage ==
  /\ c.pc = "build" /\ c.mode = "page"
  /\ LET next == IF c.rows = <<>> THEN GetPageQuery ELSE LastToken(c.rows)
     IN  Server(BetweenRequests([c EXCEPT
           !.url = next, !.seen = @ \o c.rows,
           !.start = IF @ # <<>> THEN @
                     ELSE IF c.rows = <<>> THEN next ELSE c.cursor]))

\* Mutant: the word "now" is resolved again for an empty page.
NextEventIDNow ==
  IF c.rows # <<>> THEN LastToken(c.rows) ELSE c.header

\* What the header Last-Event-ID holds after generateEvents.
NextEventID ==
  IF c.rows # <<>> THEN LastToken(c.rows)
  ELSE IF c.header = <<>> THEN c.first ELSE c.header

\* The events go out while the limit lasts.  The connection may break after
\* any of them: the client has then read the first k.
SendEvents ==
  /\ c.pc = "build" /\ c.mode = "stream"
  /\ LET n == IF Len(c.rows) < c.left THEN Len(c.rows) ELSE c.left
     IN  \E k \in 0 .. n :
           LET got  == SubSeq(c.rows, 1, k)
               sent == [c EXCEPT
                 !.pc = "wait", !.header = NextEventID, !.left = @ - k,
                 !.rows = <<>>, !.cursor = <<>>,
                 !.seen = @ \o got,
                 !.last = IF k = 0 THEN @ ELSE LastToken(got),
                 !.start = IF @ # <<>> THEN @
                           ELSE IF c.rows = <<>> THEN c.first ELSE c.cursor]
           IN  Server(IF k = n /\ n < c.left THEN sent ELSE BetweenRequests(sent))

\* HistoryDBSource.NextLedger yields when the status has moved.
NextLedger ==
  /\ c.pc = "wait" /\ status.exp > c.seq
  /\ Server([c EXCEPT !.pc = "resolve", !.seq = status.exp])

\* The context of the request ends: timeout, disconnection, rate limit.
Disconnect ==
  /\ c.pc = "wait"
  /\ Reply

-----------------------------------------------------------------------------
InitFor(r) ==
  /\ log = <<[elder |-> FirstLedger, latest |-> FirstLedger]>>
  /\ tick = <<>>
  /\ status = [latest |-> FirstLedger, elder |-> FirstLedger, exp |-> FirstLedger]
  /\ replicated = r.replicated
  /\ c = Client(r.mode, r.q, r.limit, r.url)

Init == \E r \in Requests : InitFor(r)

ServeNext ==
  \/ ReadPrimary \/ ReadReplica \/ Begin \/ ServeStream \/ Resolve \/ Adjust
  \/ Lookup \/ Query \/ TransactionsByIDs \/ LoadLedgers \/ RenderPage \/ NextLedger

Next ==
  \/ IngestLedger \/ ReapLedger \/ Replay
  \/ TickLatest \/ TickElder \/ SetHorizonStatus
  \/ Send \/ ServeNext \/ SendEvents \/ Disconnect

Spec == Init /\ [][Next]_vars

-----------------------------------------------------------------------------
(* Properties. *)

Wanted(q, r) ==
  /\ r.table = q.table
  /\ q.by = "tag" => q.tag \in r.base \cup r.counter
  /\ q.by = "pool" => \E o \in Rows : o.table = "operations" /\ o.op = r.op /\ q.tag \in o.base
  /\ InRange(q, r)
  /\ q.payments => r.payment
  /\ r.failed => q.failed \/ (q.table = "operations" /\ q.by = "tx")

\* Row r lies strictly beyond cursor cur in the order of the query.  A single
\* number passes over all that belongs to it when ascending.
Beyond(q, cur, r) ==
  IF q.order = "asc"
    THEN \/ cur = <<>>
         \/ r.op > cur[1]
         \/ r.op = cur[1] /\ Len(cur) = 2 /\ r.order > cur[2]
    ELSE \/ cur = <<>>
         \/ r.op < cur[1]
         \/ r.op = cur[1] /\ Len(cur) = 2 /\ r.order < cur[2]
         \/ r.op = cur[1] /\ Len(cur) = 1 /\ PairTable(q.table)

\* The rows that belong on the page that is being read.
ExactPage ==
  FirstOf({r \in Stored(c.snap) : Wanted(c.q, r) /\ Beyond(c.q, c.cursor, r)},
          c.q.order, c.limit)

\* A page holds exactly the first rows beyond its cursor that match the query
\* among those the database holds when it is read: neither the lower bound of
\* descending queries, nor the adjusted cursor of ascending ones, nor a lookup
\* before it, nor a union of two hides or repeats a row (actions and db2/history
\* queries, with a status that may be stale).
PagesAreExact ==
  c.pc \in {"join", "load"} /\ c.q.by # "pool" => c.rows = ExactPage

\* A page of the effects of a pool may be short, because the limit is one of
\* operations first (EffectsForLiquidityPool), but it begins as it should.  It is
\* empty before the end only when the limit is 1, where a client that follows the
\* links stands still, or when its operations were reaped meanwhile.
PoolPagesAreBegun ==
  c.pc = "load" /\ c.q.by = "pool" =>
    /\ Len(c.rows) <= Len(ExactPage) /\ c.rows = SubSeq(ExactPage, 1, Len(c.rows))
    /\ c.rows = <<>> /\ ExactPage # <<>> =>
         c.limit = 1 \/ \A o \in c.ops : LedgerOf(o) < c.snap.elder

\* Where a walk begins: at its cursor, or when it descends at its first row, since
\* what is ingested later lies before it.
WalkStart == IF c.q.order = "desc" /\ c.seen # <<>> THEN PagingToken(c.seen[1]) ELSE c.start

\* A client that follows the next links, or a stream over reconnections with
\* Last-Event-ID, sees the rows in order, none twice, and has missed no row
\* between where it began and where it is except what the reaper has removed
\* (buildPage, renderStream, ServeStream, validateAndAdjustCursor).
WalkMissesNothing ==
  WalkStart # <<>> /\ c.seen # <<>> =>
    LET seen == c.seen
        end  == seen[Len(seen)]
    IN  /\ \A i \in 1 .. Len(seen) - 1 :
             Beyond(c.q, PagingToken(seen[i]), seen[i + 1])
        /\ \A r \in Stored(replica) :
             /\ Wanted(c.q, r) /\ Beyond(c.q, WalkStart, r)
             /\ ~Beyond(c.q, PagingToken(end), r)
             => \E i \in DOMAIN seen : seen[i] = r

\* No row comes twice to a client that follows the links or a stream: only a
\* cursor that precedes the oldest ledger is moved to the start of history
\* (validateAndAdjustCursor).
NoRowTwice ==
  \A i, j \in DOMAIN c.seen : i # j => c.seen[i] # c.seen[j]

\* With a replica, a request is answered from a database at least as new as
\* the primary was when the request came, so a client reads the ledger its own
\* transaction went into (ReplicaSyncCheckMiddleware).
ReadsOwnWrites ==
  c.pc \notin {"idle", "primary", "replica"} => replica.latest >= c.floor

\* What a client reads is exact, or of a pool the beginning of what is, and comes
\* from a database that is new enough.
PagesAreTrue == PagesAreExact /\ PoolPagesAreBegun /\ ReadsOwnWrites

Delivers == SendEvents /\ (c'.pc = "wait" \/ c'.seen # c.seen)

\* Ledgers keep closing; the status, the replica and the server's steps are
\* scheduled fairly; a connection does not break for ever before it delivers.
Fairness ==
  /\ WF_vars(IngestLedger) /\ WF_vars(Replay)
  /\ WF_vars(TickLatest) /\ WF_vars(TickElder) /\ WF_vars(SetHorizonStatus)
  /\ WF_vars(Send) /\ WF_vars(ServeNext)
  /\ SF_vars(Delivers)

LiveSpec == Spec /\ Fairness

Undelivered ==
  {r \in Stored(primary) : /\ Wanted(c.q, r) /\ Beyond(c.q, c.start, r)
                           /\ LedgerOf(r.op) < MaxLedger
                           /\ \A i \in DOMAIN c.seen : c.seen[i] # r}

\* The model closes no ledger after MaxLedger for such a stream to wake up.
AtTheBound == c.seen = <<>> /\ c.seq = MaxLedger

CaughtUp == c.mode = "stream" => c.start = <<>> \/ AtTheBound \/ Undelivered = {}

\* An ascending stream that has begun catches up again and again with every
\* ledger but the last: the loop cannot miss the ledger that closes between
\* reading the events and asking the source for the next one, and what it
\* passed over while it resolved the cursor "now" a second time comes with the
\* next ledger (ServeStream, NextLedger, Last-Event-ID).
StreamCatchesUp == []<>CaughtUp
=============================================================================
