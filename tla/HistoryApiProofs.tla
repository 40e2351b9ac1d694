------------------------- MODULE HistoryApiProofs -------------------------
(***************************************************************************)
(* What clients of the history end-points are served, for any history,     *)
(* requests, page size, lag of the replica and age of the cached status.   *)
(* The rows of a table are in a total order, so a page is made of the rows *)
(* of the first ranks, and every query selects the rows that are wanted:   *)
(* the status never names an oldest ledger above that of the replica, so   *)
(* neither the lower bound of a descending query nor the cursor that an    *)
(* ascending one is moved to leaves out a row that is stored.              *)
(***************************************************************************)
EXTENDS HistoryApi, FiniteSetTheorems, FunctionTheorems, SequenceTheorems, TLAPS

Directions == {"asc", "desc"}

\* Rows of one table, which their position tells apart.
OfOneTable(rows) ==
  rows \subseteq Rows /\ \A r, s \in rows : r.table = s.table

Before(order, x, r) ==
  IF order = "asc" THEN Less(Pos(x), Pos(r)) ELSE Less(Pos(r), Pos(x))

LEMMA BeforeIsTotal ==
  ASSUME NEW order \in Directions, NEW rows, OfOneTable(rows)
  PROVE  /\ \A r \in rows : ~Before(order, r, r)
         /\ \A r, s, t \in rows : Before(order, r, s) /\ Before(order, s, t) => Before(order, r, t)
         /\ \A r, s \in rows : r = s \/ Before(order, r, s) \/ Before(order, s, r)
<1>1. \A r \in rows : r.op \in Nat /\ r.order \in Int
  BY HistoryAssumption DEF OfOneTable, RowValid
<1>2. \A r, s \in rows : r.op = s.op /\ r.order = s.order => r = s
  BY HistoryAssumption DEF OfOneTable
<1> QED BY <1>1, <1>2, SMT DEF Before, Less, Pos, Directions

\* How many rows come before row r.
RankIn(rows, order, r) == Cardinality({x \in rows : Before(order, x, r)})

LEMMA RanksDiffer ==
  ASSUME NEW order \in Directions, NEW rows, OfOneTable(rows), IsFiniteSet(rows)
  PROVE  /\ \A r \in rows : RankIn(rows, order, r) \in 0 .. Cardinality(rows) - 1
         /\ \A r, s \in rows : Before(order, r, s) =>
              RankIn(rows, order, r) < RankIn(rows, order, s)
<1> DEFINE ahead(r) == {x \in rows : Before(order, x, r)}
<1>1. ASSUME NEW r \in rows
      PROVE  /\ IsFiniteSet(ahead(r)) /\ Cardinality(ahead(r)) \in Nat
             /\ Cardinality(rows) \in Nat /\ Cardinality(ahead(r)) < Cardinality(rows)
  <2>1. ahead(r) \subseteq rows /\ ahead(r) # rows
    BY BeforeIsTotal, Zenon
  <2>2. /\ IsFiniteSet(ahead(r)) /\ Cardinality(ahead(r)) # Cardinality(rows)
        /\ Cardinality(ahead(r)) <= Cardinality(rows)
    BY <2>1, FS_Subset, Zenon
  <2>3. Cardinality(ahead(r)) \in Nat /\ Cardinality(rows) \in Nat
    BY <2>2, FS_CardinalityType, Zenon
  <2> HIDE DEF ahead
  <2> QED BY <2>2, <2>3, SMT
<1>2. ASSUME NEW r \in rows, NEW s \in rows, Before(order, r, s)
      PROVE  Cardinality(ahead(r)) < Cardinality(ahead(s))
  <2>1. ahead(r) \subseteq ahead(s)
    BY <1>2, BeforeIsTotal, Zenon
  <2>2. r \in ahead(s) /\ r \notin ahead(r)
    BY <1>2, BeforeIsTotal, Zenon
  <2>3. ahead(r) # ahead(s)
    BY <2>2, Zenon
  <2>4. Cardinality(ahead(r)) <= Cardinality(ahead(s)) /\ Cardinality(ahead(r)) # Cardinality(ahead(s))
    BY <1>1, <2>1, <2>3, FS_Subset, Zenon
  <2>5. Cardinality(ahead(r)) \in Nat /\ Cardinality(ahead(s)) \in Nat
    BY <1>1, Zenon
  <2> HIDE DEF ahead
  <2> QED BY <2>4, <2>5, SMT
<1>3. ASSUME NEW r \in rows PROVE Cardinality(ahead(r)) \in 0 .. Cardinality(rows) - 1
  <2> HIDE DEF ahead
  <2> QED BY <1>1, SMT
<1> QED BY <1>2, <1>3, Zenon DEF RankIn

\* Every rank is taken: there are as many as rows.
LEMMA RanksTaken ==
  ASSUME NEW order \in Directions, NEW rows, OfOneTable(rows), IsFiniteSet(rows),
         NEW i \in 1 .. Cardinality(rows)
  PROVE  \E r \in rows : RankIn(rows, order, r) = i - 1
<1> DEFINE ranks == 0 .. Cardinality(rows) - 1
           rank == [r \in rows |-> RankIn(rows, order, r)]
<1>1. Cardinality(rows) \in Nat
  BY FS_CardinalityType
<1>2. IsFiniteSet(ranks) /\ Cardinality(ranks) = Cardinality(rows)
  <2>1. /\ IsFiniteSet(ranks)
        /\ Cardinality(ranks) = IF 0 > Cardinality(rows) - 1 THEN 0
                                 ELSE (Cardinality(rows) - 1) - 0 + 1
    <3>1. 0 \in Int /\ Cardinality(rows) - 1 \in Int
      BY <1>1, SMT
    <3> QED BY <3>1, FS_Interval, Zenon
  <2> QED BY <1>1, <2>1, SMT
<1>3. rank \in [rows -> ranks]
  BY RanksDiffer, Zenon
<1>4. ASSUME NEW r \in rows, NEW s \in rows, rank[r] = rank[s] PROVE r = s
  <2>1. RankIn(rows, order, r) \in Int /\ RankIn(rows, order, r) = RankIn(rows, order, s)
    BY <1>4, <1>1, RanksDiffer, SMT
  <2>2. ~Before(order, r, s) /\ ~Before(order, s, r)
    BY <2>1, RanksDiffer, SMT
  <2> QED BY <2>2, BeforeIsTotal, Zenon
<1>5. rank \in Injection(rows, ranks)
  BY <1>3, <1>4, Zenon DEF Injection, IsInjective
<1>6. rank \in Surjection(rows, ranks)
  BY <1>2, <1>5, FS_Injection, Zenon
<1>7. i - 1 \in ranks
  BY <1>1, SMT
<1>8. \E r \in rows : rank[r] = i - 1
  BY <1>6, <1>7, Zenon DEF Surjection
<1> QED BY <1>8, Zenon

\* A page has rows of the table in it and nothing else.
LEMMA FirstOfType ==
  ASSUME NEW order \in Directions, NEW rows, OfOneTable(rows), NEW limit \in Nat
  PROVE  FirstOf(rows, order, limit) \in Seq(rows)
<1> DEFINE n == IF Cardinality(rows) < limit THEN Cardinality(rows) ELSE limit
           pick(i) == CHOOSE r \in rows : RankIn(rows, order, r) = i - 1
<1>1. IsFiniteSet(rows) /\ Cardinality(rows) \in Nat
  BY HistoryAssumption, FS_Subset, FS_CardinalityType, Zenon DEF OfOneTable
<1>2. n \in Nat /\ n <= Cardinality(rows)
  BY <1>1, SMT
<1>3. ASSUME NEW i \in 1 .. n PROVE pick(i) \in rows
  <2>1. i \in 1 .. Cardinality(rows)
    BY <1>1, <1>2, SMT
  <2> QED BY <1>1, <2>1, RanksTaken, Zenon
<1>4. FirstOf(rows, order, limit) = [i \in 1 .. n |-> pick(i)]
  BY Zenon DEF FirstOf, RankIn, Before
<1>5. [i \in 1 .. n |-> pick(i)] \in [1 .. n -> rows]
  BY <1>3, Zenon
<1>6. FirstOf(rows, order, limit) \in [1 .. n -> rows]
  BY <1>4, <1>5, Zenon
<1> HIDE DEF n
<1> QED BY <1>2, <1>6, SeqDef, Zenon

-----------------------------------------------------------------------------
\* A number lies between the first id of its ledger and that of the next.
LEMMA LedgerOfBounds ==
  ASSUME NEW id \in Nat
  PROVE  /\ LedgerOf(id) \in Nat
         /\ \A l \in Nat : l <= LedgerOf(id) => l * LedgerSpan <= id
         /\ \A l \in Nat : LedgerOf(id) <= l => id < (l + 1) * LedgerSpan
<1>1. LedgerSpan \in Nat \ {0}
  BY HistoryAssumption
<1>2. PICK k : k = LedgerOf(id)
  BY Zenon
<1>3. k \in Nat /\ k * LedgerSpan <= id /\ id < k * LedgerSpan + LedgerSpan
  BY <1>1, <1>2, SMT DEF LedgerOf
<1>4. ASSUME NEW l \in Nat, l <= k PROVE l * LedgerSpan <= k * LedgerSpan
  BY <1>1, <1>3, <1>4, SMT
<1>5. ASSUME NEW l \in Nat, k <= l PROVE k * LedgerSpan + LedgerSpan <= (l + 1) * LedgerSpan
  BY <1>1, <1>3, <1>5, SMT
<1>6. \A l \in Nat : l * LedgerSpan \in Nat
  BY <1>1, SMT
<1>7. ASSUME NEW l \in Nat, l <= k PROVE l * LedgerSpan <= id
  BY <1>1, <1>3, <1>4, <1>6, <1>7, SMT
<1>8. ASSUME NEW l \in Nat, k <= l PROVE id < (l + 1) * LedgerSpan
  <2>1. (l + 1) * LedgerSpan \in Nat /\ k * LedgerSpan \in Nat
    BY <1>3, <1>6, SMT
  <2> QED BY <1>1, <1>3, <1>5, <1>8, <2>1, SMT
<1> QED BY <1>2, <1>3, <1>7, <1>8, Zenon

\* A database between the first ledger and the last.
DbValid(db) ==
  /\ db.elder \in Nat \ {0} /\ db.latest \in Nat
  /\ db.latest <= MaxLedger

\* A stored row has an id of the ledgers that are stored.
LEMMA StoredBounds ==
  ASSUME NEW db, DbValid(db), NEW r \in Stored(db)
  PROVE  /\ r \in Rows /\ RowValid(r)
         /\ 0 < r.op /\ r.op < MaxInt64
         /\ \A e \in Nat : e <= db.elder => e * LedgerSpan <= r.op
<1>1. r \in Rows /\ RowValid(r) /\ LedgerOf(r.op) \in db.elder .. db.latest
  BY HistoryAssumption, Zenon DEF Stored
<1>2. r.op \in Nat
  BY <1>1, Zenon DEF RowValid
<1>3. /\ LedgerSpan \in Nat \ {0} /\ MaxLedger \in Nat
      /\ db.elder \in Nat \ {0} /\ db.latest \in Nat /\ db.latest <= MaxLedger
  BY HistoryAssumption, Zenon DEF DbValid
<1>4. LedgerOf(r.op) \in Nat /\ db.elder <= LedgerOf(r.op) /\ LedgerOf(r.op) <= MaxLedger
  BY <1>1, <1>2, <1>3, LedgerOfBounds, SMT
<1>5. r.op < (MaxLedger + 1) * LedgerSpan
  BY <1>2, <1>3, <1>4, LedgerOfBounds, Zenon
<1>6. (MaxLedger + 1) * LedgerSpan \in Nat /\ (MaxLedger + 1) * LedgerSpan <= MaxInt64 /\ MaxInt64 \in Nat
  BY <1>3, SMT DEF MaxInt64
<1>7. ASSUME NEW e \in Nat, e <= db.elder PROVE e * LedgerSpan <= r.op
  <2>1. e <= LedgerOf(r.op)
    BY <1>3, <1>4, <1>7, SMT
  <2> QED BY <1>2, <2>1, LedgerOfBounds, Zenon
<1>8. 1 * LedgerSpan <= r.op
  <2>1. 1 \in Nat /\ 1 <= db.elder
    BY <1>3, SMT
  <2> QED BY <1>7, <2>1, Zenon
<1>9. 0 < r.op /\ r.op < MaxInt64
  BY <1>2, <1>3, <1>5, <1>6, <1>8, SMT
<1> QED BY <1>1, <1>7, <1>9, Zenon

\* The lower bound of descending queries, from a status that may be stale, is
\* below every stored row.
LEMMA AboveOldestKeeps ==
  ASSUME NEW db, DbValid(db), NEW rows, rows \subseteq Stored(db), NEW q,
         NEW elder \in Nat, elder <= db.elder
  PROVE  AboveOldest(rows, q, elder) = rows
<1>1. ASSUME NEW r \in rows PROVE r.op > lowestLedgerBound(elder)
  <2>1. r.op \in Nat /\ 0 < r.op /\ elder * LedgerSpan <= r.op
    BY StoredBounds, Zenon DEF RowValid
  <2>2. LedgerSpan \in Nat /\ TxSpan \in Nat
    BY HistoryAssumption
  <2>3. ToId((elder - 1) + 1, 0, 0) = elder * LedgerSpan
    BY <2>2, SMT DEF ToId
  <2>4. elder * LedgerSpan \in Nat
    BY <2>2, SMT
  <2> QED BY <2>1, <2>3, <2>4, SMT DEF lowestLedgerBound, AfterLedger
<1> QED BY <1>1, Zenon DEF AboveOldest

\* What validateAndAdjustCursor lets pass.
CursorReady(q, cur) ==
  /\ IsCursor(cur)
  /\ q.order = "asc" => cur # <<>>
  /\ PairTable(q.table) \/ CursorInt64Parses(cur)

LEMMA CursorLengths ==
  ASSUME NEW cur, IsCursor(cur)
  PROVE  /\ Len(cur) \in {0, 1, 2} /\ (cur = <<>> <=> Len(cur) = 0)
         /\ Len(cur) >= 1 => cur[1] \in Int
         /\ Len(cur) = 2 => cur[2] \in Int
<1>1. cur \in Seq(Int) /\ Len(cur) <= 2 /\ Len(cur) \in Nat
  BY LenProperties, Zenon DEF IsCursor
<1>2. Len(cur) \in {0, 1, 2}
  <2>1. \A n \in Nat : n <= 2 => n \in {0, 1, 2}
    BY SMT
  <2> QED BY <1>1, <2>1, Zenon
<1>3. cur = <<>> <=> Len(cur) = 0
  BY <1>1, EmptySeq, Zenon
<1>4. \A i \in 1 .. Len(cur) : cur[i] \in Int
  BY <1>1, ElementOfSeq, Zenon
<1>5. (Len(cur) >= 1 => cur[1] \in Int) /\ (Len(cur) = 2 => cur[2] \in Int)
  BY <1>1, <1>4, SMT
<1> QED BY <1>2, <1>3, <1>5, Zenon

LEMMA SingleBeyond ==
  ASSUME NEW q, q.order \in Directions, NEW cur, CursorReady(q, cur),
         ~PairTable(q.table), NEW db, DbValid(db), NEW r \in Stored(db)
  PROVE  LET at == IF cur = <<>> THEN MaxInt64 ELSE cur[1]
         IN  (IF q.order = "asc" THEN r.op > at ELSE r.op < at) <=> Beyond(q, cur, r)
<1>1. r.op \in Nat /\ r.op < MaxInt64
  BY StoredBounds, Zenon DEF RowValid
<1>2. Len(cur) # 2 /\ (q.order = "asc" => cur # <<>>)
  BY Zenon DEF CursorReady, CursorInt64Parses
<1>3. IsCursor(cur)
  BY Zenon DEF CursorReady
<1> QED BY <1>1, <1>2, <1>3, CursorLengths, SMT DEF Beyond, Directions

LEMMA PairBeyond ==
  ASSUME NEW q, q.order \in Directions, NEW cur, CursorReady(q, cur),
         PairTable(q.table), NEW db, DbValid(db), NEW r \in Stored(db)
  PROVE  LET at == parseEffectsCursor(cur, q.order)
         IN  (IF q.order = "asc" THEN Less(at, Pos(r)) ELSE Less(Pos(r), at))
             <=> Beyond(q, cur, r)
<1>1. r.op \in Nat /\ r.op < MaxInt64 /\ r.order \in Int /\ r.order < MaxOrder
  <2>1. RowValid(r) /\ r.op < MaxInt64
    BY StoredBounds, Zenon
  <2>2. r.op \in Nat /\ r.order \in 0 .. MaxOrder - 1
    BY <2>1, Zenon DEF RowValid
  <2> QED BY <2>1, <2>2, HistoryAssumption, SMT
<1>2. q.order = "asc" => cur # <<>>
  BY Zenon DEF CursorReady
<1>3. IsCursor(cur)
  BY Zenon DEF CursorReady
<1>4. MaxInt64 \in Int /\ MaxOrder \in Int /\ MaxOrder <= MaxInt64
  BY HistoryAssumption, SMT DEF MaxInt64
<1>0. PICK at : at = parseEffectsCursor(cur, q.order)
  BY Zenon
<1> SUFFICES (IF q.order = "asc" THEN Less(at, Pos(r)) ELSE Less(Pos(r), at))
             <=> Beyond(q, cur, r)
  BY <1>0, Zenon
<1>p. PICK pair : pair = CursorInt64Pair(cur, q.order)
  BY Zenon
<1>5. at = <<pair[1], IF pair[2] > MaxOrder THEN MaxOrder ELSE pair[2]>>
  BY <1>0, <1>p, Zenon DEF parseEffectsCursor
<1>6. CASE Len(cur) = 0
  <2>1. q.order = "desc" /\ cur = <<>>
    BY <1>2, <1>3, <1>6, CursorLengths, Zenon DEF Directions
  <2>2. pair = <<MaxInt64, MaxInt64>>
    BY <1>p, <2>1, SMT DEF CursorInt64Pair
  <2>3. at[1] = MaxInt64
    BY <1>5, <2>2, SMT
  <2> QED BY <1>1, <2>1, <2>3, SMT DEF Beyond, Less, Pos
<1>7. CASE Len(cur) = 1
  <2>1. cur # <<>> /\ cur[1] \in Int
    BY <1>3, <1>7, CursorLengths, SMT
  <2>2. pair = <<cur[1], MaxInt64>>
    BY <1>p, <1>7, <2>1, SMT DEF CursorInt64Pair
  <2>3. at[1] = cur[1] /\ at[2] = MaxOrder
    BY <1>4, <1>5, <2>2, SMT
  <2> QED BY <1>1, <1>4, <1>7, <2>1, <2>3, SMT DEF Beyond, Less, Pos, Directions
<1>8. CASE Len(cur) = 2
  <2>1. cur # <<>> /\ cur[1] \in Int /\ cur[2] \in Int
    BY <1>3, <1>8, CursorLengths, SMT
  <2>2. pair = cur
    BY <1>p, <1>8, <2>1, SMT DEF CursorInt64Pair
  <2>3. at[1] = cur[1] /\ at[2] = (IF cur[2] > MaxOrder THEN MaxOrder ELSE cur[2])
    BY <1>5, <2>2, SMT
  <2> QED BY <1>1, <1>4, <1>8, <2>1, <2>3, SMTT(60) DEF Beyond, Less, Pos, Directions
<1> QED BY <1>3, <1>6, <1>7, <1>8, CursorLengths, Zenon

\* The queries of a table filter what the request wants.
Filtered(rows, q) ==
  CASE q.table = "ledgers"      -> LedgersQ(rows)
    [] q.table = "transactions" -> TransactionsQ(rows, q)
    [] q.table = "operations"   -> OperationsQ(rows, q)
    [] q.table = "effects"      -> loadEffectRecords(rows, q, {})
    [] OTHER                    -> createTradesSQL(rows, q)

LEMMA FilteredIsWanted ==
  ASSUME NEW q, QueryValid(q), q.by # "pool", NEW rows, rows \subseteq Rows
  PROVE  Filtered(rows, q) = {r \in rows : Wanted(q, r)}
<1>1. \A r \in rows :
        /\ r.table # "trades" => r.counter = {}
        /\ r.table \notin {"transactions", "operations"} => ~r.failed
  BY HistoryAssumption, Zenon DEF RowValid
<1>2. q.by \in FiltersOf(q.table) /\ (q.payments => q.table = "operations")
  BY Zenon DEF QueryValid
<1>t. ASSUME NEW r \in rows, r.table # "trades"
      PROVE  (q.by = "tag" => q.tag \in r.base \cup r.counter)
             <=> (q.by = "tag" => q.tag \in r.base)
  <2>1. r.base \cup r.counter = r.base
    BY <1>1, <1>t, SMT
  <2> QED BY <2>1, SMT
<1>f. ASSUME NEW r \in rows, r.table \notin {"transactions", "operations"}
      PROVE  r.failed => q.failed \/ (q.table = "operations" /\ q.by = "tx")
  <2>1. ~r.failed
    BY <1>1, <1>f, SMT
  <2> QED BY <2>1, Zenon
<1>a. q.by \in {"all", "tag"} => \A r \in rows : InRange(q, r)
  BY SMT DEF InRange
<1>n. "all" # "tag" /\ "ledgers" # "trades" /\ "transactions" # "trades" /\ "operations" # "trades"
      /\ "effects" # "trades" /\ "ledgers" \notin {"transactions", "operations"}
      /\ "effects" \notin {"transactions", "operations"} /\ "trades" \notin {"transactions", "operations"}
      /\ "transactions" # "operations" /\ "tag" # "pool"
  BY SMT
<1>3. CASE q.table = "ledgers"
  <2>1. q.by = "all" /\ q.table # "operations"
    BY <1>2, <1>3, SMT DEF FiltersOf
  <2>2. Filtered(rows, q) = LedgersQ(rows)
    BY <1>3, SMT DEF Filtered
  <2>3. ASSUME NEW r \in rows PROVE r.table = "ledgers" <=> Wanted(q, r)
    BY <1>2, <1>3, <1>t, <1>f, <1>a, <1>n, <2>1, Zenon DEF Wanted
  <2> QED BY <2>2, <2>3, Zenon DEF LedgersQ
<1>4. CASE q.table = "transactions"
  <2>1. Filtered(rows, q) = TransactionsQ(rows, q)
    BY <1>4, SMT DEF Filtered
  <2>2. ASSUME NEW r \in rows PROVE r \in TransactionsQ(rows, q) <=> Wanted(q, r)
    BY <1>2, <1>4, <1>t, <1>n, Zenon DEF TransactionsQ, Wanted
  <2> QED BY <2>1, <2>2, Zenon DEF TransactionsQ
<1>5. CASE q.table = "operations"
  <2>1. Filtered(rows, q) = OperationsQ(rows, q)
    BY <1>5, SMT DEF Filtered
  <2>2. ASSUME NEW r \in rows PROVE r \in OperationsQ(rows, q) <=> Wanted(q, r)
    BY <1>5, <1>t, <1>n, Zenon DEF OperationsQ, Wanted
  <2> QED BY <2>1, <2>2, Zenon DEF OperationsQ
<1>6. CASE q.table = "effects"
  <2>1. Filtered(rows, q) = loadEffectRecords(rows, q, {}) /\ q.table # "operations"
    BY <1>6, SMT DEF Filtered
  <2>2. CASE q.by = "tag"
    <3>1. loadEffectRecords(rows, q, {}) = {r \in rows : r.table = "effects" /\ q.tag \in r.base}
      BY <2>2, SMT DEF loadEffectRecords
    <3>2. ASSUME NEW r \in rows PROVE r.table = "effects" /\ q.tag \in r.base <=> Wanted(q, r)
      BY <1>2, <1>6, <1>t, <1>f, <1>a, <1>n, <2>1, <2>2, Zenon DEF Wanted
    <3> QED BY <2>1, <3>1, <3>2, Zenon
  <2>3. CASE q.by # "tag"
    <3>1. loadEffectRecords(rows, q, {}) = {r \in rows : r.table = "effects" /\ InRange(q, r)}
      BY <2>3, SMT DEF loadEffectRecords
    <3>2. ASSUME NEW r \in rows PROVE r.table = "effects" /\ InRange(q, r) <=> Wanted(q, r)
      BY <1>2, <1>6, <1>t, <1>f, <1>n, <2>1, <2>3, Zenon DEF Wanted
    <3> QED BY <2>1, <3>1, <3>2, Zenon
  <2> QED BY <2>2, <2>3, Zenon
<1>7. CASE q.table = "trades"
  <2>1. Filtered(rows, q) = createTradesSQL(rows, q) /\ q.by \in {"all", "tag"} /\ q.table # "operations"
    BY <1>2, <1>7, SMT DEF Filtered, FiltersOf
  <2>2. ASSUME NEW r \in rows
        PROVE  r.table = "trades" /\ (q.by = "tag" => q.tag \in r.base \cup r.counter) <=> Wanted(q, r)
    BY <1>2, <1>7, <1>f, <1>a, <1>n, <2>1, Zenon DEF Wanted
  <2>3. createTradesSQL(rows, q) =
          {r \in rows : r.table = "trades" /\ (q.by = "tag" => q.tag \in r.base \cup r.counter)}
    BY SMT DEF createTradesSQL
  <2> QED BY <2>1, <2>2, <2>3, Zenon
<1>8. q.table \in {"ledgers", "transactions", "operations", "effects", "trades"}
  BY <1>2, SMT DEF FiltersOf
<1> QED BY <1>3, <1>4, <1>5, <1>6, <1>7, <1>8, Zenon

\* The rows a page is the beginning of.
PageRows(db, q, cur) == {r \in Stored(db) : Wanted(q, r) /\ Beyond(q, cur, r)}

\* A handler reads exactly the first rows beyond the cursor that are wanted.
LEMMA SelectPageIsExact ==
  ASSUME NEW db, DbValid(db), NEW q, QueryValid(q), q.by # "pool",
         NEW cur, CursorReady(q, cur), NEW elder \in Nat, elder <= db.elder, NEW limit, NEW ops
  PROVE  SelectPage(db, q, elder, cur, limit, ops) = FirstOf(PageRows(db, q, cur), q.order, limit)
<1> DEFINE rows == Stored(db)
           chosen == Filtered(rows, q)
<1>1. rows \subseteq Rows /\ q.order \in Directions
  BY Zenon DEF Stored, QueryValid, Directions
<1>2. chosen = {r \in rows : Wanted(q, r)}
  BY <1>1, FilteredIsWanted, Zenon
<1>3. chosen \subseteq rows /\ AboveOldest(chosen, q, elder) = chosen
  <2>1. chosen \subseteq rows
    BY <1>2, Zenon
  <2> QED BY <2>1, AboveOldestKeeps, Zenon
<1>4. ASSUME ~PairTable(q.table)
      PROVE  ApplyTo(chosen, q, cur, limit) = FirstOf(PageRows(db, q, cur), q.order, limit)
  <2> DEFINE at == IF cur = <<>> THEN MaxInt64 ELSE cur[1]
             beyond == {r \in chosen : IF q.order = "asc" THEN r.op > at ELSE r.op < at}
  <2>1. \A r \in rows : (IF q.order = "asc" THEN r.op > at ELSE r.op < at) <=> Beyond(q, cur, r)
    BY <1>1, <1>4, SingleBeyond, Zenon
  <2>2. beyond = PageRows(db, q, cur)
    <3> HIDE DEF at
    <3> QED BY <1>2, <2>1, Zenon DEF PageRows
  <2>3. ApplyTo(chosen, q, cur, limit) = FirstOf(beyond, q.order, limit)
    BY Zenon DEF ApplyTo
  <2> QED BY <2>2, <2>3, Zenon
<1>5. ASSUME PairTable(q.table)
      PROVE  selectEffectsPage(chosen, q, cur, limit) = FirstOf(PageRows(db, q, cur), q.order, limit)
  <2> DEFINE at == parseEffectsCursor(cur, q.order)
             beyond == {r \in chosen : IF q.order = "asc" THEN Less(at, Pos(r)) ELSE Less(Pos(r), at)}
  <2>1. \A r \in rows : (IF q.order = "asc" THEN Less(at, Pos(r)) ELSE Less(Pos(r), at))
                         <=> Beyond(q, cur, r)
    BY <1>1, <1>5, PairBeyond, Zenon
  <2>2. beyond = PageRows(db, q, cur)
    <3> HIDE DEF at
    <3> QED BY <1>2, <2>1, Zenon DEF PageRows
  <2>3. selectEffectsPage(chosen, q, cur, limit) = FirstOf(beyond, q.order, limit)
    BY Zenon DEF selectEffectsPage
  <2> QED BY <2>2, <2>3, Zenon
<1>6. q.by \in FiltersOf(q.table)
  BY Zenon DEF QueryValid
<1>7. q.table \in {"ledgers", "transactions", "operations", "effects", "trades"}
  BY <1>6, SMT DEF FiltersOf
<1>8. PairTable(q.table) <=> q.table \in {"effects", "trades"}
  BY DEF PairTable
<1> DEFINE page == SelectPage(db, q, elder, cur, limit, ops)
<1>9. CASE q.table = "ledgers"
  <2>1. chosen = LedgersQ(rows) /\ page = GetLedgers(rows, q, elder, cur, limit)
    BY <1>9, SMT DEF Filtered, SelectPage
  <2> QED BY <1>3, <1>4, <1>8, <1>9, <2>1, Zenon DEF GetLedgers
<1>10. CASE q.table = "transactions"
  <2>1. chosen = TransactionsQ(rows, q) /\ page = GetTransactions(rows, q, elder, cur, limit)
    BY <1>10, SMT DEF Filtered, SelectPage
  <2> QED BY <1>3, <1>4, <1>8, <1>10, <2>1, Zenon DEF GetTransactions
<1>11. CASE q.table = "operations"
  <2>1. chosen = OperationsQ(rows, q) /\ page = GetOperations(rows, q, elder, cur, limit)
    BY <1>11, SMT DEF Filtered, SelectPage
  <2> QED BY <1>3, <1>4, <1>8, <1>11, <2>1, Zenon DEF GetOperations
<1>12. CASE q.table = "effects"
  <2>1. chosen = loadEffectRecords(rows, q, {}) /\ page = GetEffects(rows, q, elder, cur, limit, ops)
    BY <1>12, SMT DEF Filtered, SelectPage
  <2>2. loadEffectRecords(rows, q, {}) = loadEffectRecords(rows, q, ops)
    BY SMT DEF loadEffectRecords
  <2> QED BY <1>3, <1>5, <1>8, <1>12, <2>1, <2>2, Zenon DEF GetEffects
<1>13. CASE q.table = "trades"
  <2>1. chosen = createTradesSQL(rows, q) /\ page = GetTrades(rows, q, elder, cur, limit)
    BY <1>13, SMT DEF Filtered, SelectPage
  <2> QED BY <1>3, <1>5, <1>8, <1>13, <2>1, Zenon DEF GetTrades
<1> QED BY <1>7, <1>9, <1>10, <1>11, <1>12, <1>13, Zenon

-----------------------------------------------------------------------------
Databases == [elder : Nat \ {0}, latest : 0 .. MaxLedger]

\* What the replica has to replay only adds ledgers and removes old ones.
Replayable ==
  \A i, j \in 1 .. Len(log) :
    i <= j => log[i].latest <= log[j].latest /\ log[i].elder <= log[j].elder
LogValid ==
  /\ replicated \in BOOLEAN /\ log \in Seq(Databases) /\ log # <<>>
  /\ ~replicated => Len(log) = 1
  /\ Replayable

\* The databases only move forwards.
Forwards ==
  /\ replica'.latest >= replica.latest /\ replica'.elder >= replica.elder
  /\ primary'.latest >= primary.latest

\* Both databases are ones of the log.
LEMMA DatabasesOfLog ==
  ASSUME LogValid
  PROVE  /\ replica \in Databases /\ primary \in Databases
         /\ Len(log) \in Nat \ {0}
         /\ replica.latest <= primary.latest /\ replica.elder <= primary.elder
         /\ ~replicated => replica = primary
<1>1. log \in Seq(Databases) /\ Len(log) \in Nat \ {0}
  BY EmptySeq, Zenon DEF LogValid
<1>2. 1 \in 1 .. Len(log) /\ Len(log) \in 1 .. Len(log) /\ 1 <= Len(log)
  BY <1>1, SMT
<1>3. replica \in Databases /\ primary \in Databases
  BY <1>1, <1>2, ElementOfSeq, Zenon DEF replica, primary
<1>4. replica.latest <= primary.latest /\ replica.elder <= primary.elder
  BY <1>2, Zenon DEF replica, primary, LogValid, Replayable
<1>5. ~replicated => replica = primary
  BY Zenon DEF LogValid, replica, primary
<1> QED BY <1>1, <1>3, <1>4, <1>5, Zenon

\* A commit that only moves forwards keeps the log replayable.
LEMMA CommitKeepsLog ==
  ASSUME LogValid, NEW db \in Databases, CommitState(db),
         primary.latest <= db.latest, primary.elder <= db.elder
  PROVE  LogValid' /\ Forwards
<1>1. /\ replica \in Databases /\ primary \in Databases
      /\ replica.latest <= primary.latest /\ replica.elder <= primary.elder
      /\ ~replicated => replica = primary
      /\ Len(log) \in Nat \ {0} /\ log \in Seq(Databases) /\ replicated \in BOOLEAN
  BY DatabasesOfLog, Zenon DEF LogValid
<1>2. replicated' = replicated
  BY DEF CommitState
<1>3. CASE replicated
  <2>1. log' = Append(log, db)
    BY <1>3, Zenon DEF CommitState
  <2>2. /\ log' \in Seq(Databases) /\ Len(log') = Len(log) + 1
        /\ \A i \in 1 .. Len(log) : log'[i] = log[i]
        /\ log'[Len(log) + 1] = db
    <3>1. /\ Append(log, db) \in Seq(Databases) /\ Len(Append(log, db)) = Len(log) + 1
          /\ \A i \in 1 .. Len(log) : Append(log, db)[i] = log[i]
          /\ Append(log, db)[Len(log) + 1] = db
      BY <1>1, AppendProperties, SMT
    <3> QED BY <2>1, <3>1, Zenon
  <2>3. \A i \in 1 .. Len(log) : log[i] \in Databases /\ log[i].latest <= primary.latest /\ log[i].elder <= primary.elder
    <3>1. \A i \in 1 .. Len(log) : Len(log) \in 1 .. Len(log) /\ i <= Len(log)
      BY <1>1, SMT
    <3> QED BY <1>1, <3>1, ElementOfSeq, Zenon DEF LogValid, Replayable, primary
  <2>4. /\ db.latest \in Int /\ db.elder \in Int /\ primary.latest \in Int /\ primary.elder \in Int
        /\ \A i \in 1 .. Len(log) : log[i].latest \in Int /\ log[i].elder \in Int
    <3>1. \A d \in Databases : d.latest \in Int /\ d.elder \in Int
      BY SMT DEF Databases
    <3> QED BY <1>1, <2>3, <3>1, Zenon
  <2>5. ASSUME NEW i \in 1 .. Len(log'), NEW j \in 1 .. Len(log'), i <= j
        PROVE  log'[i].latest <= log'[j].latest /\ log'[i].elder <= log'[j].elder
    <3>1. CASE j \in 1 .. Len(log)
      <4>1. i \in 1 .. Len(log)
        BY <1>1, <2>2, <2>5, <3>1, SMT
      <4> QED BY <2>2, <2>5, <3>1, <4>1, Zenon DEF LogValid, Replayable
    <3>2. CASE j = Len(log) + 1 /\ i \in 1 .. Len(log)
      <4>1. /\ log'[i] = log[i] /\ log'[j] = db
            /\ log[i].latest <= primary.latest /\ log[i].elder <= primary.elder
            /\ log[i].latest \in Int /\ log[i].elder \in Int
        BY <2>2, <2>3, <2>4, <3>2, Zenon
      <4>2. log[i].latest <= db.latest /\ log[i].elder <= db.elder
        BY <2>4, <4>1, SMTT(60)
      <4> QED BY <4>1, <4>2, Zenon
    <3>3. CASE j = Len(log) + 1 /\ i = Len(log) + 1
      BY <2>2, <2>4, <3>3, SMT
    <3> QED BY <1>1, <2>2, <2>5, <3>1, <3>2, <3>3, SMT
  <2>6. log' # <<>> /\ Len(log') \in Nat /\ 1 \in 1 .. Len(log)
    BY <1>1, <2>2, SMT
  <2>7. LogValid'
    BY <1>1, <1>2, <1>3, <2>2, <2>5, <2>6, Zenon DEF LogValid, Replayable
  <2>8. replica' = replica /\ primary' = db
    BY <2>2, <2>6, Zenon DEF replica, primary
  <2>9. replica.latest \in Int /\ replica.elder \in Int
    BY <1>1, SMT DEF Databases
  <2>10. Forwards
    BY <2>4, <2>8, <2>9, SMT DEF Forwards
  <2> QED BY <2>7, <2>10, Zenon
<1>4. CASE ~replicated
  <2>1. log' = <<db>>
    BY <1>4, Zenon DEF CommitState
  <2>2. log' \in Seq(Databases) /\ Len(log') = 1 /\ log'[1] = db /\ log' # <<>>
    BY <2>1, SMT
  <2>3. db.latest \in Int /\ db.elder \in Int
    BY SMT DEF Databases
  <2>4. LogValid'
    <3>1. Replayable'
      BY <2>2, <2>3, SMT DEF Replayable
    <3> QED BY <1>1, <1>2, <2>2, <3>1, Zenon DEF LogValid
  <2>5. replica' = db /\ primary' = db
    BY <2>2, Zenon DEF replica, primary
  <2> QED BY <1>1, <1>4, <2>4, <2>5, SMT DEF Forwards, Databases
<1> QED BY <1>3, <1>4, Zenon

LEMMA IngestLedgerForwards == LogValid /\ IngestLedger => LogValid' /\ Forwards
<1> SUFFICES ASSUME LogValid, IngestLedger PROVE LogValid' /\ Forwards
  OBVIOUS
<1> DEFINE db == [primary EXCEPT !.latest = @ + 1]
<1>1. primary \in Databases /\ primary.latest < MaxLedger /\ CommitState(db)
  BY DatabasesOfLog, Zenon DEF IngestLedger
<1>2. db \in Databases /\ primary.latest <= db.latest /\ primary.elder <= db.elder
  BY <1>1, HistoryAssumption, SMT DEF Databases
<1> HIDE DEF db
<1> QED BY <1>1, <1>2, CommitKeepsLog, Zenon

LEMMA ReapLedgerForwards == LogValid /\ ReapLedger => LogValid' /\ Forwards
<1> SUFFICES ASSUME LogValid, ReapLedger PROVE LogValid' /\ Forwards
  OBVIOUS
<1> DEFINE db == [primary EXCEPT !.elder = @ + 1]
<1>1. primary \in Databases /\ CommitState(db)
  BY DatabasesOfLog, Zenon DEF ReapLedger
<1>2. db \in Databases /\ primary.latest <= db.latest /\ primary.elder <= db.elder
  BY <1>1, HistoryAssumption, SMT DEF Databases
<1> HIDE DEF db
<1> QED BY <1>1, <1>2, CommitKeepsLog, Zenon

LEMMA ReplayForwards == LogValid /\ Replay => LogValid' /\ Forwards
<1> SUFFICES ASSUME LogValid, Replay PROVE LogValid' /\ Forwards
  OBVIOUS
<1>1. /\ Len(log) > 1 /\ log' = Tail(log) /\ replicated' = replicated
      /\ log \in Seq(Databases) /\ log # <<>> /\ replicated \in BOOLEAN
      /\ ~replicated => Len(log) = 1
      /\ Len(log) \in Nat \ {0}
  BY DatabasesOfLog, Zenon DEF Replay, LogValid
<1>2. Tail(log) \in Seq(Databases) /\ Len(Tail(log)) = Len(log) - 1
  BY <1>1, HeadTailProperties, Zenon
<1>3. \A i \in 1 .. Len(Tail(log)) : Tail(log)[i] = log[i + 1]
  BY <1>1, HeadTailProperties, Zenon
<1>4. ASSUME NEW i \in 1 .. Len(log'), NEW j \in 1 .. Len(log'), i <= j
      PROVE  log'[i].latest <= log'[j].latest /\ log'[i].elder <= log'[j].elder
  <2>1. i + 1 \in 1 .. Len(log) /\ j + 1 \in 1 .. Len(log) /\ i + 1 <= j + 1
    BY <1>1, <1>2, <1>4, SMT
  <2>2. log'[i] = log[i + 1] /\ log'[j] = log[j + 1]
    BY <1>1, <1>3, Zenon
  <2> QED BY <2>1, <2>2, Zenon DEF LogValid, Replayable
<1>5. replicated
  BY <1>1, SMT
<1>6. log' # <<>> /\ 1 \in 1 .. Len(log') /\ Len(log') \in 1 .. Len(log') /\ Len(log') + 1 = Len(log)
  <2>1. PICK n : n = Len(log')
    BY Zenon
  <2>2. n = Len(log) - 1
    BY <1>1, <1>2, <2>1, Zenon
  <2>3. 1 \in 1 .. n /\ n \in 1 .. n /\ n + 1 = Len(log) /\ n # 0
    <3>1. \A l \in Nat : l > 1 =>
            1 \in 1 .. l - 1 /\ l - 1 \in 1 .. l - 1 /\ (l - 1) + 1 = l /\ l - 1 # 0
      BY SMT
    <3>2. Len(log) \in Nat /\ Len(log) > 1
      BY <1>1, SMT
    <3> QED BY <2>2, <3>1, <3>2, Zenon
  <2>4. log' # <<>>
    BY <2>1, <2>3, EmptySeq, Zenon
  <2> QED BY <2>1, <2>3, <2>4, Zenon
<1>7. LogValid'
  BY <1>1, <1>2, <1>4, <1>5, <1>6, Zenon DEF LogValid, Replayable
<1>8. replica' = log[1 + 1] /\ primary' = primary
  BY <1>1, <1>3, <1>6, Zenon DEF replica, primary
<1>9. 1 \in 1 .. Len(log) /\ 1 + 1 \in 1 .. Len(log) /\ 1 <= 1 + 1
  BY <1>1, SMT
<1>10. replica.latest <= replica'.latest /\ replica.elder <= replica'.elder
  BY <1>8, <1>9, Zenon DEF LogValid, Replayable, replica
<1>11. replica \in Databases /\ replica' \in Databases /\ primary \in Databases
  <2>1. log[1 + 1] \in Databases
    BY <1>1, <1>9, ElementOfSeq, Zenon
  <2> QED BY <1>8, <2>1, DatabasesOfLog, Zenon
<1> QED BY <1>7, <1>8, <1>10, <1>11, SMT DEF Forwards, Databases

-----------------------------------------------------------------------------
ClientFields ==
  {"mode", "q", "limit", "url", "pc", "floor", "attempt", "newest", "header", "last",
   "first", "cursor", "rows", "seq", "left", "ops", "snap", "start", "seen"}
IsClient == DOMAIN c = ClientFields

\* What the replica check has established so far.
Checked ==
  /\ c.floor \in Int /\ c.newest \in Int
  /\ c.pc # "idle" => c.floor <= primary.latest
  /\ c.pc = "replica" => c.floor <= c.newest
FreshInv == LogValid /\ IsClient /\ Checked /\ ReadsOwnWrites

LEMMA FreshInit == Init => FreshInv
<1> SUFFICES ASSUME NEW r \in Requests, InitFor(r) PROVE FreshInv
  BY DEF Init
<1>1. r.replicated \in BOOLEAN /\ FirstLedger \in Nat \ {0} /\ MaxLedger \in Nat /\ FirstLedger <= MaxLedger
  BY HistoryAssumption, Zenon DEF RequestValid
<1>2. PICK db : db = [elder |-> FirstLedger, latest |-> FirstLedger]
  BY Zenon
<1>3. db \in Databases /\ db.latest = FirstLedger
  BY <1>1, <1>2, SMT DEF Databases
<1>4. log = <<db>> /\ replicated = r.replicated /\ c = Client(r.mode, r.q, r.limit, r.url)
  BY <1>2, Zenon DEF InitFor
<1>5. log \in Seq(Databases) /\ Len(log) = 1 /\ log[1] = db /\ log # <<>>
  BY <1>3, <1>4, SMT
<1>6. Replayable
  BY <1>3, <1>5, SMT DEF Replayable, Databases
<1>7. LogValid
  BY <1>1, <1>4, <1>5, <1>6, Zenon DEF LogValid
<1>8. IsClient /\ c.pc = "idle" /\ c.floor = 0 /\ c.newest = 0
  BY <1>4, SMT DEF Client, IsClient, ClientFields
<1>9. Checked /\ ReadsOwnWrites
  BY <1>8, SMT DEF Checked, ReadsOwnWrites
<1> QED BY <1>7, <1>9, <1>8, Zenon DEF FreshInv

DatabasesValid == replica \in Databases /\ primary \in Databases

LEMMA DatabasesNow == LogValid => DatabasesValid
BY DatabasesOfLog DEF DatabasesValid

LEMMA DatabasesNext == LogValid' => DatabasesValid'
BY DatabasesNow, PTL

\* Whatever the databases do, they do not fall behind what was checked.
LEMMA FreshForwards ==
  ASSUME FreshInv, LogValid', Forwards, UNCHANGED c
  PROVE  FreshInv'
<1>1. /\ replica.latest \in Int /\ primary.latest \in Int
      /\ replica'.latest \in Int /\ primary'.latest \in Int
  <2>1. /\ replica \in Databases /\ primary \in Databases
        /\ replica' \in Databases /\ primary' \in Databases
    BY DatabasesNow, DatabasesNext, Zenon DEF FreshInv, DatabasesValid
  <2> QED BY <2>1, SMT DEF Databases
<1>2. IsClient'
  BY Zenon DEF FreshInv, IsClient
<1>3. Checked /\ ReadsOwnWrites /\ c' = c
  BY Zenon DEF FreshInv
<1>4. Checked' /\ ReadsOwnWrites'
  BY <1>1, <1>3, SMT DEF Checked, ReadsOwnWrites, Forwards
<1> QED BY <1>2, <1>4, Zenon DEF FreshInv

\* A step of the server or the client leaves the databases as they are.
LEMMA ServerKeepsLog ==
  ASSUME LogValid, NEW client, Server(client)
  PROVE  LogValid' /\ replica' = replica /\ primary' = primary /\ c' = client
BY Zenon DEF Server, LogValid, Replayable, replica, primary

LEMMA ReplyIdle ==
  ASSUME Reply
  PROVE  IsClient' /\ c'.pc = "idle" /\ c'.floor = 0 /\ c'.newest = 0
BY SMT DEF Reply, Server, BetweenRequests, Client, IsClient, ClientFields

\* To begin with, the check: what Send, ReadPrimary and ReadReplica do.
LEMMA CheckKeepsFresh ==
  ASSUME FreshInv, Send \/ ReadPrimary \/ ReadReplica
  PROVE  FreshInv'
<1>1. /\ LogValid /\ IsClient /\ Checked /\ ReadsOwnWrites
      /\ replica.latest \in Int /\ primary.latest \in Int
      /\ ~replicated => replica = primary
  BY DatabasesOfLog, SMT DEF FreshInv, Databases
<1> DEFINE Goal == IsClient' /\ Checked' /\ ReadsOwnWrites'
<1>2. ASSUME Reply PROVE FreshInv'
  <2>1. LogValid' /\ replica' = replica /\ primary' = primary
    BY <1>1, <1>2, ServerKeepsLog, Zenon DEF Reply
  <2>2. IsClient' /\ c'.pc = "idle" /\ c'.floor = 0 /\ c'.newest = 0
    BY <1>2, ReplyIdle
  <2>3. Checked' /\ ReadsOwnWrites'
    BY <2>2, SMT DEF Checked, ReadsOwnWrites
  <2> QED BY <2>1, <2>2, <2>3, Zenon DEF FreshInv
<1>3. ASSUME Send PROVE FreshInv'
  <2>1. PICK client : Server(client) /\
          client = [c EXCEPT !.pc = IF replicated THEN "primary" ELSE "begin",
                             !.floor = primary.latest, !.attempt = 1,
                             !.header = IF c.mode = "stream" THEN c.last ELSE <<>>,
                             !.start = IF c.seen = <<>> THEN <<>> ELSE @]
    BY <1>3, Zenon DEF Send
  <2>2. LogValid' /\ replica' = replica /\ primary' = primary /\ c' = client
    <3>1. Server(client)
      BY <2>1
    <3> HIDE <2>1
    <3> QED BY <1>1, <3>1, ServerKeepsLog, Zenon
  <2>3. /\ IsClient' /\ c'.pc = (IF replicated THEN "primary" ELSE "begin")
        /\ c'.floor = primary.latest /\ c'.newest = c.newest
    BY <1>1, <2>1, <2>2, SMT DEF IsClient, ClientFields
  <2>4. Checked' /\ ReadsOwnWrites'
    BY <1>1, <2>2, <2>3, SMT DEF Checked, ReadsOwnWrites
  <2> QED BY <2>2, <2>3, <2>4, Zenon DEF FreshInv
<1>4. ASSUME ReadPrimary PROVE FreshInv'
  <2>1. PICK client : Server(client) /\ client = [c EXCEPT !.pc = "replica", !.newest = primary.latest]
    BY <1>4, Zenon DEF ReadPrimary
  <2>2. LogValid' /\ replica' = replica /\ primary' = primary /\ c' = client
    BY <1>1, <2>1, ServerKeepsLog, Zenon
  <2>3. IsClient' /\ c'.pc = "replica" /\ c'.floor = c.floor /\ c'.newest = primary.latest
    BY <1>1, <2>1, <2>2, SMT DEF IsClient, ClientFields
  <2>4. c.pc # "idle"
    BY <1>4, SMT DEF ReadPrimary
  <2>5. Checked' /\ ReadsOwnWrites'
    BY <1>1, <2>2, <2>3, <2>4, SMT DEF Checked, ReadsOwnWrites
  <2> QED BY <2>2, <2>3, <2>5, Zenon DEF FreshInv
<1>5. ASSUME ReadReplica PROVE FreshInv'
  <2>1. CASE ReplicaInSync
    <3>1. PICK client : Server(client) /\ client = [c EXCEPT !.pc = "begin"]
      BY <1>5, <2>1, Zenon DEF ReadReplica
    <3>2. LogValid' /\ replica' = replica /\ primary' = primary /\ c' = client
      BY <1>1, <3>1, ServerKeepsLog, Zenon
    <3>3. IsClient' /\ c'.pc = "begin" /\ c'.floor = c.floor /\ c'.newest = c.newest
      BY <1>1, <3>1, <3>2, SMT DEF IsClient, ClientFields
    <3>4. c.pc = "replica" /\ replica.latest >= c.newest
      BY <1>5, <2>1, Zenon DEF ReadReplica, ReplicaInSync
    <3>5. Checked' /\ ReadsOwnWrites'
      BY <1>1, <3>2, <3>3, <3>4, SMT DEF Checked, ReadsOwnWrites
    <3> QED BY <3>2, <3>3, <3>5, Zenon DEF FreshInv
  <2>2. CASE ~ReplicaInSync /\ c.attempt < Attempts
    <3>1. PICK client : Server(client) /\ client = [c EXCEPT !.pc = "primary", !.attempt = @ + 1]
      BY <1>5, <2>2, Zenon DEF ReadReplica
    <3>2. LogValid' /\ replica' = replica /\ primary' = primary /\ c' = client
      BY <1>1, <3>1, ServerKeepsLog, Zenon
    <3>3. IsClient' /\ c'.pc = "primary" /\ c'.floor = c.floor /\ c'.newest = c.newest
      BY <1>1, <3>1, <3>2, SMT DEF IsClient, ClientFields
    <3>4. c.pc # "idle"
      BY <1>5, SMT DEF ReadReplica
    <3>5. Checked' /\ ReadsOwnWrites'
      BY <1>1, <3>2, <3>3, <3>4, SMT DEF Checked, ReadsOwnWrites
    <3> QED BY <3>2, <3>3, <3>5, Zenon DEF FreshInv
  <2>3. CASE ~ReplicaInSync /\ ~(c.attempt < Attempts)
    BY <1>2, <1>5, <2>3, Zenon DEF ReadReplica
  <2> QED BY <2>1, <2>2, <2>3, Zenon
<1> QED BY <1>3, <1>4, <1>5, Zenon

LEMMA ServedKeepsFresh ==
  ASSUME FreshInv, NEW client, Server(client), DOMAIN client = ClientFields,
         client.floor \in Int, client.newest \in Int,
         \/ client.pc = "idle"
         \/ /\ {c.pc, client.pc} \cap {"idle", "primary", "replica"} = {}
            /\ client.floor = c.floor
  PROVE  FreshInv'
<1>1. LogValid' /\ replica' = replica /\ primary' = primary /\ c' = client
  BY ServerKeepsLog, Zenon DEF FreshInv
<1>2. Checked /\ ReadsOwnWrites
  BY Zenon DEF FreshInv
<1>3. IsClient'
  BY <1>1, Zenon DEF IsClient
<1>4. CASE client.pc = "idle"
  <2>1. Checked' /\ ReadsOwnWrites'
    BY <1>1, <1>4, SMT DEF Checked, ReadsOwnWrites
  <2> QED BY <1>1, <1>3, <2>1, Zenon DEF FreshInv
<1>5. CASE /\ {c.pc, client.pc} \cap {"idle", "primary", "replica"} = {}
           /\ client.floor = c.floor
  <2>1. /\ c.pc \notin {"idle", "primary", "replica"}
        /\ client.pc \notin {"idle", "primary", "replica"}
    BY <1>5, Zenon
  <2>2. Checked' /\ ReadsOwnWrites'
    BY <1>1, <1>2, <1>5, <2>1, SMT DEF Checked, ReadsOwnWrites
  <2> QED BY <1>1, <1>3, <2>2, Zenon DEF FreshInv
<1> QED BY <1>4, <1>5, Zenon

-----------------------------------------------------------------------------
Queries == {r.q : r \in Requests}

\* A client with a query it can have, and cursors that are cursors.
Sane(k) ==
  /\ DOMAIN k = ClientFields
  /\ k.q \in Queries /\ k.limit \in Nat /\ k.left \in Int
  /\ k.floor \in Int /\ k.newest \in Int
  /\ IsCursor(k.url) /\ IsCursor(k.header) /\ IsCursor(k.last)
  /\ IsCursor(k.first) /\ IsCursor(k.cursor)
  /\ k.rows \in Seq(Rows)
Ready(k) == k.pc \in {"lookup", "query"} => CursorReady(k.q, k.cursor)
Exact(k) ==
  k.pc \in {"join", "load"} /\ k.q.by # "pool" =>
    k.rows = FirstOf(PageRows(k.snap, k.q, k.cursor), k.q.order, k.limit)

\* The status has never seen a ledger removed that the replica still has.
StatusValid ==
  /\ status \in [latest : Nat, elder : Nat, exp : Nat] /\ tick \in Seq(Nat)
  /\ status.elder <= replica.elder
  /\ Len(tick) = 2 => tick[2] <= replica.elder
ServeInv == FreshInv /\ StatusValid /\ Sane(c) /\ Ready(c) /\ Exact(c)

LEMMA ServerKeeps ==
  ASSUME ServeInv, NEW client, Server(client), Sane(client), Ready(client), Exact(client),
         \/ client.pc = "idle"
         \/ /\ {c.pc, client.pc} \cap {"idle", "primary", "replica"} = {}
            /\ client.floor = c.floor
         \/ FreshInv'
  PROVE  ServeInv'
<1>1. FreshInv /\ StatusValid /\ LogValid
  BY Zenon DEF ServeInv, FreshInv
<1>2. /\ DOMAIN client = ClientFields /\ client.floor \in Int /\ client.newest \in Int
  BY Zenon DEF Sane
<1>3. FreshInv'
  BY <1>1, <1>2, ServedKeepsFresh, Zenon
<1>4. c' = client /\ replica' = replica /\ status' = status /\ tick' = tick
  BY <1>1, ServerKeepsLog, Zenon DEF Server
<1>5. StatusValid'
  BY <1>1, <1>4, Zenon DEF StatusValid
<1>6. Sane(c') /\ Ready(c') /\ Exact(c')
  BY <1>4, Zenon
<1>7. Sane(c)' /\ Ready(c)' /\ Exact(c)'
  BY <1>6, Zenon
<1> QED BY <1>3, <1>5, <1>7, Zenon DEF ServeInv

LEMMA EmptyCursor == IsCursor(<<>>) /\ <<>> \in Seq(Rows)
<1>1. <<>> \in Seq(Int) /\ <<>> \in Seq(Rows) /\ Len(<<>>) = 0
  BY EmptySeq, Zenon
<1>2. Len(<<>>) <= 2
  BY <1>1, SMT
<1> QED BY <1>1, <1>2, Zenon DEF IsCursor

LEMMA BetweenIsSane ==
  ASSUME NEW k, Sane(k)
  PROVE  /\ Sane(BetweenRequests(k)) /\ BetweenRequests(k).pc = "idle"
         /\ Ready(BetweenRequests(k)) /\ Exact(BetweenRequests(k))
<1>1. PICK b : b = BetweenRequests(k)
  BY Zenon
<1>2. /\ DOMAIN b = ClientFields /\ b.pc = "idle" /\ b.q = k.q /\ b.limit = k.limit
      /\ b.left = 0 /\ b.floor = 0 /\ b.newest = 0 /\ b.url = k.url /\ b.last = k.last
      /\ b.header = <<>> /\ b.first = <<>> /\ b.cursor = <<>> /\ b.rows = <<>>
  BY <1>1, SMT DEF BetweenRequests, Client, ClientFields
<1>3. 0 \in Int /\ "idle" \notin {"lookup", "query", "join", "load"}
  BY SMT
<1>4. Sane(b)
  BY <1>2, <1>3, EmptyCursor, Zenon DEF Sane
<1>5. Ready(b) /\ Exact(b)
  BY <1>2, <1>3, Zenon DEF Ready, Exact
<1> QED BY <1>1, <1>2, <1>4, <1>5, Zenon

LEMMA ReplyKeeps ==
  ASSUME ServeInv, Reply
  PROVE  ServeInv'
<1>1. Sane(c) /\ Server(BetweenRequests(c))
  BY Zenon DEF ServeInv, Reply
<1> QED BY <1>1, BetweenIsSane, ServerKeeps, Zenon

\* What a step leaves of a client's request, and of what it has got.
SameRequest(k) ==
  /\ DOMAIN k = ClientFields /\ k.q = c.q /\ k.limit = c.limit
  /\ k.url = c.url /\ k.last = c.last /\ k.floor = c.floor
SameProgress(k) ==
  /\ k.left = c.left /\ k.newest = c.newest /\ k.header = c.header
  /\ k.first = c.first /\ k.cursor = c.cursor /\ k.rows = c.rows

LEMMA SameIsSane ==
  ASSUME Sane(c), NEW k, SameRequest(k), SameProgress(k)
  PROVE  Sane(k)
BY Zenon DEF Sane, SameRequest, SameProgress

LEMMA CheckKeeps ==
  ASSUME ServeInv, Send \/ ReadPrimary \/ ReadReplica
  PROVE  ServeInv'
<1>1. FreshInv' /\ Sane(c)
  BY CheckKeepsFresh, Zenon DEF ServeInv
<1>2. ASSUME Send PROVE ServeInv'
  <2>1. PICK k : Server(k) /\
          k = [c EXCEPT !.pc = IF replicated THEN "primary" ELSE "begin",
                        !.floor = primary.latest, !.attempt = 1,
                        !.header = IF c.mode = "stream" THEN c.last ELSE <<>>,
                        !.start = IF c.seen = <<>> THEN <<>> ELSE @]
    BY <1>2, Zenon DEF Send
  <2>2. /\ DOMAIN k = ClientFields /\ k.q = c.q /\ k.limit = c.limit /\ k.left = c.left
        /\ k.newest = c.newest /\ k.url = c.url /\ k.last = c.last /\ k.first = c.first
        /\ k.cursor = c.cursor /\ k.rows = c.rows
        /\ k.floor = primary.latest /\ k.header \in {c.last, <<>>}
        /\ k.pc \in {"primary", "begin"}
    BY <1>1, <2>1, SMT DEF Sane, ClientFields
  <2>3. primary.latest \in Int
    BY DatabasesNow, SMT DEF ServeInv, FreshInv, DatabasesValid, Databases
  <2>4. Sane(k)
    BY <1>1, <2>2, <2>3, EmptyCursor, Zenon DEF Sane
  <2>5. Ready(k) /\ Exact(k)
    BY <2>2, SMT DEF Ready, Exact
  <2>6. Server(k)
    BY <2>1
  <2> QED BY <1>1, <2>4, <2>5, <2>6, ServerKeeps, Zenon
<1>3. ASSUME ReadPrimary PROVE ServeInv'
  <2>1. PICK k : Server(k) /\ k = [c EXCEPT !.pc = "replica", !.newest = primary.latest]
    BY <1>3, Zenon DEF ReadPrimary
  <2>2. SameRequest(k) /\ k.left = c.left /\ k.newest = primary.latest /\ k.first = c.first
        /\ k.cursor = c.cursor /\ k.rows = c.rows /\ k.header = c.header /\ k.pc = "replica"
    BY <1>1, <2>1, SMT DEF Sane, SameRequest, ClientFields
  <2>3. primary.latest \in Int
    BY DatabasesNow, SMT DEF ServeInv, FreshInv, DatabasesValid, Databases
  <2>4. Sane(k)
    BY <1>1, <2>2, <2>3, Zenon DEF Sane, SameRequest
  <2>5. Ready(k) /\ Exact(k)
    BY <2>2, SMT DEF Ready, Exact
  <2> QED BY <1>1, <2>1, <2>4, <2>5, ServerKeeps, Zenon
<1>4. ASSUME NEW k, Server(k), SameRequest(k), SameProgress(k), k.pc \in {"begin", "primary"}
      PROVE  ServeInv'
  <2>1. Sane(k)
    BY <1>1, <1>4, SameIsSane, Zenon
  <2>2. Ready(k) /\ Exact(k)
    BY <1>4, SMT DEF Ready, Exact
  <2> QED BY <1>1, <1>4, <2>1, <2>2, ServerKeeps, Zenon
<1>5. ASSUME ReadReplica PROVE ServeInv'
  <2>1. CASE ReplicaInSync
    <3>1. PICK k : Server(k) /\ k = [c EXCEPT !.pc = "begin"]
      BY <1>5, <2>1, Zenon DEF ReadReplica
    <3>2. SameRequest(k) /\ SameProgress(k) /\ k.pc \in {"begin", "primary"}
      BY <1>1, <3>1, SMT DEF Sane, ClientFields, SameRequest, SameProgress
    <3> QED BY <1>4, <3>1, <3>2, Zenon
  <2>2. CASE ~ReplicaInSync /\ c.attempt < Attempts
    <3>1. PICK k : Server(k) /\ k = [c EXCEPT !.pc = "primary", !.attempt = @ + 1]
      BY <1>5, <2>2, Zenon DEF ReadReplica
    <3>2. SameRequest(k) /\ SameProgress(k) /\ k.pc \in {"begin", "primary"}
      BY <1>1, <3>1, SMT DEF Sane, ClientFields, SameRequest, SameProgress
    <3> QED BY <1>4, <3>1, <3>2, Zenon
  <2>3. CASE ~ReplicaInSync /\ ~(c.attempt < Attempts)
    BY <1>5, <2>3, ReplyKeeps, Zenon DEF ReadReplica
  <2> QED BY <2>1, <2>2, <2>3, Zenon
<1> QED BY <1>2, <1>3, <1>5, Zenon

LEMMA GetPageQueryType ==
  ASSUME ServeInv
  PROVE  IsCursor(GetPageQuery)
<1>1. IsCursor(c.url) /\ IsCursor(c.header) /\ status.latest \in Nat
  BY SMT DEF ServeInv, Sane, StatusValid
<1>2. LedgerSpan \in Nat /\ TxSpan \in Nat
  BY HistoryAssumption
<1>3. AfterLedger(status.latest) \in Int
  BY <1>1, <1>2, SMT DEF AfterLedger, ToId
<1>4. IsCursor(<<AfterLedger(status.latest)>>)
  BY <1>3, SMT DEF IsCursor
<1> QED BY <1>1, <1>4, Zenon DEF GetPageQuery, getCursor

Serving == {"begin", "serve", "resolve", "adjust", "lookup", "query", "join", "load", "build", "wait"}

LEMMA ServingKeeps ==
  ASSUME ServeInv, NEW k, Server(k), Sane(k), Ready(k), Exact(k),
         c.pc \in Serving, k.pc \in Serving, k.floor = c.floor
  PROVE  ServeInv'
<1>1. {c.pc, k.pc} \cap {"idle", "primary", "replica"} = {}
  BY SMT DEF Serving
<1> QED BY <1>1, ServerKeeps, Zenon

LEMMA BeginKeeps == ServeInv /\ Begin => ServeInv'
<1> SUFFICES ASSUME ServeInv, Begin PROVE ServeInv'
  OBVIOUS
<1>1. Sane(c) /\ c.pc = "begin" /\ c.pc \in Serving
  BY SMT DEF ServeInv, Begin, Serving
<1>2. CASE Negative(GetPageQuery)
  BY <1>2, ReplyKeeps, Zenon DEF Begin
<1>3. CASE ~Negative(GetPageQuery) /\ c.mode = "page"
  <2>1. PICK k : Server(k) /\ k = [c EXCEPT !.pc = "resolve"]
    BY <1>3, Zenon DEF Begin
  <2>2. SameRequest(k) /\ SameProgress(k) /\ k.pc = "resolve"
    BY <1>1, <2>1, SMT DEF Sane, ClientFields, SameRequest, SameProgress
  <2>3. Ready(k) /\ Exact(k) /\ k.pc \in Serving
    BY <2>2, SMT DEF Ready, Exact, Serving
  <2> QED BY <1>1, <2>1, <2>2, <2>3, SameIsSane, ServingKeeps, Zenon DEF SameRequest
<1>4. CASE ~Negative(GetPageQuery) /\ c.mode # "page"
  <2>1. PICK k : Server(k) /\ k = [c EXCEPT !.pc = "serve", !.first = GetPageQuery]
    BY <1>4, Zenon DEF Begin
  <2>2. /\ SameRequest(k) /\ k.pc = "serve" /\ k.first = GetPageQuery
        /\ k.left = c.left /\ k.newest = c.newest /\ k.header = c.header
        /\ k.cursor = c.cursor /\ k.rows = c.rows
    BY <1>1, <2>1, SMT DEF Sane, ClientFields, SameRequest
  <2>3. Ready(k) /\ Exact(k) /\ k.pc \in Serving
    BY <2>2, SMT DEF Ready, Exact, Serving
  <2>4. Sane(k)
    BY <1>1, <2>2, GetPageQueryType, Zenon DEF Sane, SameRequest
  <2> QED BY <1>1, <2>1, <2>2, <2>3, <2>4, ServingKeeps, Zenon DEF SameRequest
<1> QED BY <1>2, <1>3, <1>4, Zenon

LEMMA ServeStreamKeeps == ServeInv /\ ServeStream => ServeInv'
<1> SUFFICES ASSUME ServeInv, ServeStream PROVE ServeInv'
  OBVIOUS
<1>1. Sane(c) /\ c.pc \in Serving
  BY SMT DEF ServeInv, ServeStream, Serving
<1>2. PICK k : Server(k) /\ k = [c EXCEPT !.pc = "resolve", !.seq = status.exp, !.left = c.limit]
  BY Zenon DEF ServeStream
<1>3. /\ SameRequest(k) /\ k.pc = "resolve" /\ k.left = c.limit
      /\ k.newest = c.newest /\ k.header = c.header
      /\ k.first = c.first /\ k.cursor = c.cursor /\ k.rows = c.rows
  BY <1>1, <1>2, SMT DEF Sane, ClientFields, SameRequest
<1>4. Ready(k) /\ Exact(k) /\ k.pc \in Serving
  BY <1>3, SMT DEF Ready, Exact, Serving
<1>5. c.limit \in Int
  BY <1>1, SMT DEF Sane
<1>6. Sane(k)
  BY <1>1, <1>3, <1>5, Zenon DEF Sane, SameRequest
<1> QED BY <1>1, <1>2, <1>3, <1>4, <1>6, ServingKeeps, Zenon DEF SameRequest

LEMMA ResolveKeeps == ServeInv /\ Resolve => ServeInv'
<1> SUFFICES ASSUME ServeInv, Resolve PROVE ServeInv'
  OBVIOUS
<1>1. Sane(c) /\ c.pc \in Serving
  BY SMT DEF ServeInv, Resolve, Serving
<1>2. CASE Negative(GetPageQuery)
  BY <1>2, ReplyKeeps, Zenon DEF Resolve
<1>3. CASE ~Negative(GetPageQuery)
  <2>1. PICK k : Server(k) /\ k = [c EXCEPT !.pc = "adjust", !.cursor = GetPageQuery]
    BY <1>3, Zenon DEF Resolve
  <2>2. /\ SameRequest(k) /\ k.pc = "adjust" /\ k.cursor = GetPageQuery
        /\ k.left = c.left /\ k.newest = c.newest /\ k.header = c.header
        /\ k.first = c.first /\ k.rows = c.rows
    BY <1>1, <2>1, SMT DEF Sane, ClientFields, SameRequest
  <2>3. Ready(k) /\ Exact(k) /\ k.pc \in Serving
    BY <2>2, SMT DEF Ready, Exact, Serving
  <2>4. Sane(k)
    BY <1>1, <2>2, GetPageQueryType, Zenon DEF Sane, SameRequest
  <2> QED BY <1>1, <2>1, <2>2, <2>3, <2>4, ServingKeeps, Zenon DEF SameRequest
<1> QED BY <1>2, <1>3, Zenon

LEMMA QueriesValid == \A q \in Queries : QueryValid(q)
BY HistoryAssumption, Zenon DEF Queries, RequestValid

\* What passes has a cursor an ascending query can start from.
LEMMA AdjustKeeps == ServeInv /\ Adjust => ServeInv'
<1> SUFFICES ASSUME ServeInv, Adjust PROVE ServeInv'
  OBVIOUS
<1>1. Sane(c) /\ c.pc \in Serving /\ c.q.order \in Directions /\ status.elder \in Nat
  BY QueriesValid, SMT DEF ServeInv, Adjust, Serving, Sane, QueryValid, Directions, StatusValid
<1>2. PICK a : a = validateAndAdjustCursor(status, c.cursor, c.q.order)
  BY Zenon
<1>3. CASE a.gone \/ ~(PairTable(c.q.table) \/ CursorInt64Parses(a.cursor))
  BY <1>2, <1>3, ReplyKeeps, Zenon DEF Adjust
<1>4. CASE ~(a.gone \/ ~(PairTable(c.q.table) \/ CursorInt64Parses(a.cursor)))
  <2>1. PICK k : Server(k) /\ k = [c EXCEPT !.pc = IF LooksUp(c.q) THEN "lookup" ELSE "query",
                                         !.cursor = a.cursor]
    BY <1>2, <1>4, Zenon DEF Adjust
  <2>2. /\ SameRequest(k) /\ k.pc \in {"lookup", "query"} /\ k.cursor = a.cursor
        /\ k.left = c.left /\ k.newest = c.newest /\ k.header = c.header
        /\ k.first = c.first /\ k.rows = c.rows
    BY <1>1, <2>1, SMT DEF Sane, ClientFields, SameRequest
  <2>3. IsCursor(a.cursor) /\ (c.q.order = "asc" => a.cursor # <<>>)
    <3>1. IsCursor(c.cursor)
      BY <1>1, Zenon DEF Sane
    <3>2. PICK e : e = AfterLedger(IF status.elder > 1 THEN status.elder - 1 ELSE 0)
      BY Zenon
    <3>3. LedgerSpan \in Nat /\ TxSpan \in Nat
      BY HistoryAssumption
    <3>4. e \in Int
      BY <1>1, <3>2, <3>3, SMT DEF AfterLedger, ToId
    <3>5. IsCursor(<<e>>) /\ <<e>> # <<>>
      BY <3>4, SMT DEF IsCursor
    <3>6. CASE c.q.order = "asc" /\ (c.cursor = <<>> \/ BeforeHistory(status, c.cursor, c.q.order))
      <4>1. a.cursor = <<e>>
        BY <1>2, <3>2, <3>6, SMT DEF validateAndAdjustCursor
      <4> QED BY <3>5, <4>1, Zenon
    <3>7. CASE ~(c.q.order = "asc" /\ (c.cursor = <<>> \/ BeforeHistory(status, c.cursor, c.q.order)))
      <4>1. a.cursor = c.cursor
        BY <1>2, <3>7, SMT DEF validateAndAdjustCursor
      <4> QED BY <3>1, <3>7, <4>1, Zenon
    <3> QED BY <3>6, <3>7, Zenon
  <2>4. Sane(k)
    BY <1>1, <2>2, <2>3, Zenon DEF Sane, SameRequest
  <2>5. CursorReady(k.q, k.cursor)
    BY <1>4, <2>2, <2>3, Zenon DEF CursorReady, SameRequest
  <2>6. Ready(k) /\ Exact(k) /\ k.pc \in Serving
    BY <2>2, <2>5, SMT DEF Ready, Exact, Serving
  <2> QED BY <1>1, <2>1, <2>2, <2>4, <2>6, ServingKeeps, Zenon DEF SameRequest
<1> QED BY <1>3, <1>4, Zenon

\* A page holds rows of history.
LEMMA SelectPageType ==
  ASSUME NEW db, DbValid(db), NEW q, QueryValid(q), NEW cur, CursorReady(q, cur),
         NEW elder \in Nat, elder <= db.elder, NEW limit \in Nat, NEW ops
  PROVE  SelectPage(db, q, elder, cur, limit, ops) \in Seq(Rows)
<1> DEFINE page == SelectPage(db, q, elder, cur, limit, ops)
<1>1. q.order \in Directions
  BY Zenon DEF QueryValid, Directions
<1>2. ASSUME NEW rows, OfOneTable(rows), page = FirstOf(rows, q.order, limit)
      PROVE  page \in Seq(Rows)
  <2>1. page \in Seq(rows) /\ rows \subseteq Rows
    BY <1>1, <1>2, FirstOfType, Zenon DEF OfOneTable
  <2> HIDE DEF page
  <2> QED BY <2>1, SeqMonotonic, Zenon
<1>3. CASE q.by # "pool"
  <2>1. page = FirstOf(PageRows(db, q, cur), q.order, limit)
    BY <1>3, SelectPageIsExact, SMT
  <2>2. OfOneTable(PageRows(db, q, cur))
    BY Zenon DEF OfOneTable, PageRows, Stored, Wanted
  <2> QED BY <1>2, <2>1, <2>2, Zenon
<1>4. CASE q.by = "pool"
  <2> DEFINE rows == AboveOldest(loadEffectRecords(Stored(db), q, ops), q, elder)
             at == parseEffectsCursor(cur, q.order)
             beyond == {r \in rows : IF q.order = "asc" THEN Less(at, Pos(r)) ELSE Less(Pos(r), at)}
  <2>1. q.table = "effects"
    BY <1>4, SMT DEF QueryValid, FiltersOf
  <2>2. page = GetEffects(Stored(db), q, elder, cur, limit, ops)
    BY <2>1, SMT DEF SelectPage
  <2>3. page = FirstOf(beyond, q.order, limit)
    BY <2>2, Zenon DEF GetEffects, selectEffectsPage
  <2>4. loadEffectRecords(Stored(db), q, ops) = EffectsForLiquidityPool(Stored(db), ops)
    BY <1>4, SMT DEF loadEffectRecords
  <2>5. \A r \in EffectsForLiquidityPool(Stored(db), ops) : r \in Rows /\ r.table = "effects"
    BY Zenon DEF EffectsForLiquidityPool, Stored
  <2>6. \A r \in rows : r \in Rows /\ r.table = "effects"
    BY <2>4, <2>5, Zenon DEF AboveOldest
  <2>7. OfOneTable(beyond)
    <3> HIDE DEF rows, at
    <3> QED BY <2>6, Zenon DEF OfOneTable
  <2> HIDE DEF beyond
  <2> QED BY <1>2, <2>3, <2>7, Zenon
<1> QED BY <1>3, <1>4, Zenon

LEMMA LookupKeeps == ServeInv /\ Lookup => ServeInv'
<1> SUFFICES ASSUME ServeInv, Lookup PROVE ServeInv'
  OBVIOUS
<1>1. Sane(c) /\ c.pc \in Serving /\ CursorReady(c.q, c.cursor)
  BY SMT DEF ServeInv, Lookup, Serving, Ready
<1>2. CASE ~Found(replica, c.q)
  BY <1>2, ReplyKeeps, Zenon DEF Lookup
<1>3. CASE Found(replica, c.q)
  <2>1. PICK ops : Server([c EXCEPT !.pc = "query", !.snap = replica, !.ops = ops])
    BY <1>3, Zenon DEF Lookup
  <2>2. PICK k : Server(k) /\ k = [c EXCEPT !.pc = "query", !.snap = replica, !.ops = ops]
    BY <2>1, Zenon
  <2>3. SameRequest(k) /\ SameProgress(k) /\ k.pc = "query"
    BY <1>1, <2>2, SMT DEF Sane, ClientFields, SameRequest, SameProgress
  <2>4. CursorReady(k.q, k.cursor)
    BY <1>1, <2>3, Zenon DEF SameRequest, SameProgress
  <2>5. Ready(k) /\ Exact(k) /\ k.pc \in Serving
    BY <2>3, <2>4, SMT DEF Ready, Exact, Serving
  <2> QED BY <1>1, <2>2, <2>3, <2>5, SameIsSane, ServingKeeps, Zenon DEF SameRequest
<1> QED BY <1>2, <1>3, Zenon

LEMMA QueryKeeps == ServeInv /\ Query => ServeInv'
<1> SUFFICES ASSUME ServeInv, Query PROVE ServeInv'
  OBVIOUS
<1>1. /\ Sane(c) /\ c.pc \in Serving /\ QueryValid(c.q) /\ c.limit \in Nat
      /\ CursorReady(c.q, c.cursor) /\ StatusValid /\ LogValid
  BY QueriesValid, SMT DEF ServeInv, Query, Serving, Sane, Ready, FreshInv
<1>2. DbValid(replica) /\ status.elder \in Nat /\ status.elder <= replica.elder
  BY <1>1, DatabasesNow, HistoryAssumption, SMT DEF DatabasesValid, Databases, DbValid, StatusValid
<1>3. PICK page : page = SelectPage(replica, c.q, status.elder, c.cursor, c.limit, c.ops)
  BY Zenon
<1>4. page \in Seq(Rows)
  BY <1>1, <1>2, <1>3, SelectPageType, Zenon
<1>5. c.q.by # "pool" => page = FirstOf(PageRows(replica, c.q, c.cursor), c.q.order, c.limit)
  BY <1>1, <1>2, <1>3, SelectPageIsExact, SMT
<1>6. PICK snap : snap = IF c.q.by = "pool" THEN Common(c.snap, replica) ELSE replica
  BY Zenon
<1>7. PICK k : Server(k) /\ k = [c EXCEPT !.pc = IF c.q.join THEN "join" ELSE "load",
                                         !.snap = snap, !.rows = page]
  BY <1>3, <1>6, Zenon DEF Query
<1>8. /\ SameRequest(k) /\ k.pc \in {"join", "load"} /\ k.cursor = c.cursor
      /\ k.left = c.left /\ k.newest = c.newest /\ k.header = c.header
      /\ k.first = c.first /\ k.rows = page /\ k.snap = snap
  BY <1>1, <1>7, SMT DEF Sane, ClientFields, SameRequest
<1>9. Sane(k)
  BY <1>1, <1>4, <1>8, Zenon DEF Sane, SameRequest
<1>10. Exact(k)
  BY <1>5, <1>6, <1>8, Zenon DEF Exact, SameRequest
<1>11. Ready(k) /\ k.pc \in Serving
  BY <1>8, SMT DEF Ready, Serving
<1> QED BY <1>1, <1>7, <1>8, <1>9, <1>10, <1>11, ServingKeeps, Zenon DEF SameRequest

LEMMA TransactionsByIDsKeeps == ServeInv /\ TransactionsByIDs => ServeInv'
<1> SUFFICES ASSUME ServeInv, TransactionsByIDs PROVE ServeInv'
  OBVIOUS
<1>1. Sane(c) /\ Exact(c) /\ c.pc = "join"
  BY Zenon DEF ServeInv, TransactionsByIDs
<1>2. CASE Reply
  BY <1>2, ReplyKeeps
<1>3. CASE Server([c EXCEPT !.pc = "load"])
  <2>1. PICK k : Server(k) /\ k = [c EXCEPT !.pc = "load"]
    BY <1>3, Zenon
  <2>2. SameRequest(k) /\ SameProgress(k) /\ k.pc = "load" /\ k.snap = c.snap
    BY <1>1, <2>1, SMT DEF Sane, ClientFields, SameRequest, SameProgress
  <2>3. Exact(k)
    BY <1>1, <2>2, Zenon DEF Exact, SameRequest, SameProgress
  <2>4. Ready(k) /\ c.pc \in Serving /\ k.pc \in Serving
    BY <1>1, <2>2, SMT DEF Ready, Serving
  <2> QED BY <1>1, <2>1, <2>2, <2>3, <2>4, SameIsSane, ServingKeeps, Zenon DEF SameRequest
<1> QED BY <1>2, <1>3, Zenon DEF TransactionsByIDs

LEMMA LoadLedgersKeeps == ServeInv /\ LoadLedgers => ServeInv'
<1> SUFFICES ASSUME ServeInv, LoadLedgers PROVE ServeInv'
  OBVIOUS
<1>1. Sane(c) /\ c.pc \in Serving
  BY SMT DEF ServeInv, LoadLedgers, Serving
<1>2. CASE Reply
  BY <1>2, ReplyKeeps
<1>3. CASE Server([c EXCEPT !.pc = "build", !.snap = NoSnapshot, !.ops = {}])
  <2>1. PICK k : Server(k) /\ k = [c EXCEPT !.pc = "build", !.snap = NoSnapshot, !.ops = {}]
    BY <1>3, Zenon
  <2>2. SameRequest(k) /\ SameProgress(k) /\ k.pc = "build"
    BY <1>1, <2>1, SMT DEF Sane, ClientFields, SameRequest, SameProgress
  <2>3. Ready(k) /\ Exact(k) /\ k.pc \in Serving
    BY <2>2, SMT DEF Ready, Exact, Serving
  <2> QED BY <1>1, <2>1, <2>2, <2>3, SameIsSane, ServingKeeps, Zenon DEF SameRequest
<1> QED BY <1>2, <1>3, Zenon DEF LoadLedgers

LEMMA NextLedgerKeeps == ServeInv /\ NextLedger => ServeInv'
<1> SUFFICES ASSUME ServeInv, NextLedger PROVE ServeInv'
  OBVIOUS
<1>1. Sane(c) /\ c.pc \in Serving
  BY SMT DEF ServeInv, NextLedger, Serving
<1>2. PICK k : Server(k) /\ k = [c EXCEPT !.pc = "resolve", !.seq = status.exp]
  BY Zenon DEF NextLedger
<1>3. SameRequest(k) /\ SameProgress(k) /\ k.pc = "resolve"
  BY <1>1, <1>2, SMT DEF Sane, ClientFields, SameRequest, SameProgress
<1>4. Ready(k) /\ Exact(k) /\ k.pc \in Serving
  BY <1>3, SMT DEF Ready, Exact, Serving
<1> QED BY <1>1, <1>2, <1>3, <1>4, SameIsSane, ServingKeeps, Zenon DEF SameRequest

\* The token of a row is a cursor.
LEMMA TokenType ==
  ASSUME NEW rows \in Seq(Rows), rows # <<>>
  PROVE  IsCursor(LastToken(rows))
<1>1. Len(rows) \in Nat \ {0}
  BY EmptySeq, Zenon
<1>2. Len(rows) \in 1 .. Len(rows)
  BY <1>1, SMT
<1>3. PICK r : r = rows[Len(rows)]
  BY Zenon
<1>4. r \in Rows
  BY <1>2, <1>3, ElementOfSeq, Zenon
<1>5. r.op \in Nat /\ r.order \in 0 .. MaxOrder - 1
  BY <1>4, HistoryAssumption, Zenon DEF RowValid
<1>6. r.op \in Int /\ r.order \in Int
  BY <1>5, HistoryAssumption, SMT
<1>7. IsCursor(<<r.op, r.order>>) /\ IsCursor(<<r.op>>)
  BY <1>6, SMT DEF IsCursor
<1> QED BY <1>3, <1>7, Zenon DEF LastToken, PagingToken

LEMMA RenderPageKeeps == ServeInv /\ RenderPage => ServeInv'
<1> SUFFICES ASSUME ServeInv, RenderPage PROVE ServeInv'
  OBVIOUS
<1>1. Sane(c) /\ c.pc = "build"
  BY SMT DEF ServeInv, RenderPage
<1>2. PICK next : next = IF c.rows = <<>> THEN GetPageQuery ELSE LastToken(c.rows)
  BY Zenon
<1>3. IsCursor(next)
  BY <1>1, <1>2, GetPageQueryType, TokenType, Zenon DEF Sane
<1>4. PICK k : /\ Server(BetweenRequests(k))
               /\ k = [c EXCEPT !.url = next, !.seen = @ \o c.rows,
                        !.start = IF @ # <<>> THEN @
                                  ELSE IF c.rows = <<>> THEN next ELSE c.cursor]
  BY <1>2, Zenon DEF RenderPage
<1>5. /\ DOMAIN k = ClientFields /\ k.q = c.q /\ k.limit = c.limit /\ k.url = next
      /\ k.last = c.last /\ k.floor = c.floor /\ SameProgress(k)
  BY <1>1, <1>4, SMT DEF Sane, ClientFields, SameProgress
<1>6. Sane(k)
  BY <1>1, <1>3, <1>5, Zenon DEF Sane, SameProgress
<1>7. Server(BetweenRequests(k))
  BY <1>4
<1> QED BY <1>6, <1>7, BetweenIsSane, ServerKeeps, Zenon

LEMMA SendEventsKeeps == ServeInv /\ SendEvents => ServeInv'
<1> SUFFICES ASSUME ServeInv, SendEvents PROVE ServeInv'
  OBVIOUS
<1>1. Sane(c) /\ c.pc = "build" /\ c.pc \in Serving
  BY SMT DEF ServeInv, SendEvents, Serving
<1>2. c.rows \in Seq(Rows) /\ Len(c.rows) \in Nat /\ c.left \in Int
  BY <1>1, LenProperties, Zenon DEF Sane
<1>3. PICK n : n = IF Len(c.rows) < c.left THEN Len(c.rows) ELSE c.left
  BY Zenon
<1>4. n \in Int /\ n <= Len(c.rows)
  BY <1>2, <1>3, SMT
<1> DEFINE Sent(i) ==
      [c EXCEPT
         !.pc = "wait", !.header = NextEventID, !.left = @ - i,
         !.rows = <<>>, !.cursor = <<>>,
         !.seen = @ \o SubSeq(c.rows, 1, i),
         !.last = IF i = 0 THEN @ ELSE LastToken(SubSeq(c.rows, 1, i)),
         !.start = IF @ # <<>> THEN @
                   ELSE IF c.rows = <<>> THEN c.first ELSE c.cursor]
<1>5. PICK i \in 0 .. n :
        Server(IF i = n /\ n < c.left THEN Sent(i) ELSE BetweenRequests(Sent(i)))
  BY <1>3, Zenon DEF SendEvents
<1>6. PICK k : k = Sent(i)
  BY Zenon
<1>7. /\ DOMAIN k = ClientFields /\ k.pc = "wait" /\ k.q = c.q /\ k.limit = c.limit /\ k.url = c.url
      /\ k.floor = c.floor /\ k.newest = c.newest /\ k.first = c.first
      /\ k.header = NextEventID /\ k.left = c.left - i /\ k.rows = <<>> /\ k.cursor = <<>>
      /\ k.last = IF i = 0 THEN c.last ELSE LastToken(SubSeq(c.rows, 1, i))
  BY <1>1, <1>6, SMT DEF Sane, ClientFields
<1>8. Server(IF i = n /\ n < c.left THEN k ELSE BetweenRequests(k))
  BY <1>5, <1>6, Zenon
<1> HIDE DEF Sent
<1>9. IsCursor(NextEventID)
  BY <1>1, TokenType, Zenon DEF NextEventID, Sane
<1>10. IsCursor(k.last)
  <2>1. CASE i = 0
    BY <1>1, <1>7, <2>1, Zenon DEF Sane
  <2>2. CASE i # 0
    <3>1. 1 \in 1 .. i /\ i \in Nat \ {0} /\ i <= Len(c.rows)
      BY <1>2, <1>4, <2>2, SMT
    <3>2. SubSeq(c.rows, 1, i) \in Seq(Rows) /\ SubSeq(c.rows, 1, i) # <<>>
      BY <1>2, <3>1, SMT
    <3> QED BY <1>7, <2>2, <3>2, TokenType, Zenon
  <2> QED BY <2>1, <2>2, Zenon
<1>11. c.left - i \in Int
  BY <1>2, <1>4, SMT
<1>12. Sane(k)
  BY <1>1, <1>7, <1>9, <1>10, <1>11, EmptyCursor, Zenon DEF Sane
<1>13. Ready(k) /\ Exact(k) /\ k.pc \in Serving
  BY <1>7, SMT DEF Ready, Exact, Serving
<1>14. CASE Server(k)
  BY <1>1, <1>7, <1>12, <1>13, <1>14, ServingKeeps, Zenon
<1>15. CASE Server(BetweenRequests(k))
  BY <1>12, <1>15, BetweenIsSane, ServerKeeps, Zenon
<1> QED BY <1>8, <1>14, <1>15, Zenon

\* The databases move forwards under a client.
LEMMA CommitsKeep ==
  ASSUME ServeInv, IngestLedger \/ ReapLedger \/ Replay
  PROVE  ServeInv'
<1>1. FreshInv /\ LogValid /\ StatusValid /\ Sane(c) /\ Ready(c) /\ Exact(c)
  BY Zenon DEF ServeInv, FreshInv
<1>2. LogValid' /\ Forwards
  BY <1>1, IngestLedgerForwards, ReapLedgerForwards, ReplayForwards, Zenon
<1>3. c' = c /\ status' = status /\ tick' = tick
  BY Zenon DEF IngestLedger, ReapLedger, Replay, CommitState
<1>4. FreshInv'
  BY <1>1, <1>2, <1>3, FreshForwards, Zenon
<1>5. replica.elder \in Int /\ replica'.elder \in Int /\ replica'.elder >= replica.elder
  BY <1>1, <1>2, DatabasesNow, DatabasesNext, SMT DEF DatabasesValid, Databases, Forwards
<1>6. StatusValid'
  <2>1. Len(tick) = 2 => tick[2] \in Int
    <3>1. tick \in Seq(Nat) /\ Len(tick) \in Nat
      BY <1>1, LenProperties, Zenon DEF StatusValid
    <3>2. Len(tick) = 2 => 2 \in 1 .. Len(tick)
      BY SMT
    <3>3. Len(tick) = 2 => tick[2] \in Nat
      BY <3>1, <3>2, ElementOfSeq, Zenon
    <3> QED BY <3>3, SMT
  <2> QED BY <1>1, <1>3, <1>5, <2>1, SMTT(60) DEF StatusValid
<1>7. Sane(c)' /\ Ready(c)' /\ Exact(c)'
  BY <1>1, <1>3, Zenon
<1> QED BY <1>4, <1>6, <1>7, Zenon DEF ServeInv

\* The status is read from the replica, whose oldest ledger can then only rise.
LEMMA TicksKeep ==
  ASSUME ServeInv, TickLatest \/ TickElder \/ SetHorizonStatus
  PROVE  ServeInv'
<1>1. FreshInv /\ LogValid /\ StatusValid /\ Sane(c) /\ Ready(c) /\ Exact(c)
  BY Zenon DEF ServeInv, FreshInv
<1>2. c' = c /\ log' = log /\ replicated' = replicated
  BY Zenon DEF TickLatest, TickElder, SetHorizonStatus
<1>3. replica' = replica /\ primary' = primary
  BY <1>2, Zenon DEF replica, primary
<1>4. FreshInv'
  BY <1>1, <1>2, <1>3, Zenon
     DEF FreshInv, LogValid, Replayable, IsClient, Checked, ReadsOwnWrites
<1>5. Sane(c)' /\ Ready(c)' /\ Exact(c)'
  BY <1>1, <1>2, Zenon
<1>6. replica.latest \in Nat /\ replica.elder \in Nat
  BY <1>1, DatabasesNow, HistoryAssumption, SMT DEF DatabasesValid, Databases
<1>7. StatusValid'
  <2>1. ASSUME TickLatest PROVE StatusValid'
    <3>1. tick' = <<replica.latest>> /\ status' = status
      BY <2>1, Zenon DEF TickLatest
    <3>2. tick' \in Seq(Nat) /\ Len(tick') # 2
      BY <1>6, <3>1, SMT
    <3> QED BY <1>1, <1>3, <3>1, <3>2, Zenon DEF StatusValid
  <2>2. ASSUME TickElder PROVE StatusValid'
    <3>1. tick' = Append(tick, replica.elder) /\ status' = status /\ Len(tick) = 1 /\ tick \in Seq(Nat)
      BY <1>1, <2>2, Zenon DEF TickElder, StatusValid
    <3>2. /\ Append(tick, replica.elder) \in Seq(Nat)
          /\ Append(tick, replica.elder)[Len(tick) + 1] = replica.elder
      BY <1>6, <3>1, AppendProperties, ZenonT(30)
    <3>3. tick' \in Seq(Nat) /\ tick'[2] = replica.elder
      BY <3>1, <3>2, SMT
    <3>4. tick'[2] <= replica.elder
      BY <1>6, <3>3, SMT
    <3> QED BY <1>1, <1>3, <3>1, <3>3, <3>4, Zenon DEF StatusValid
  <2>3. ASSUME SetHorizonStatus PROVE StatusValid'
    <3>1. /\ Len(tick) = 2 /\ tick' = <<>> /\ tick \in Seq(Nat) /\ tick[2] <= replica.elder
          /\ status' = [latest |-> tick[1], elder |-> tick[2], exp |-> replica.latest]
      BY <1>1, <2>3, Zenon DEF SetHorizonStatus, StatusValid
    <3>2. 1 \in 1 .. Len(tick) /\ 2 \in 1 .. Len(tick)
      BY <3>1, SMT
    <3>3. tick[1] \in Nat /\ tick[2] \in Nat
      BY <3>1, <3>2, ElementOfSeq, Zenon
    <3>4. status' \in [latest : Nat, elder : Nat, exp : Nat] /\ status'.elder = tick[2]
      BY <1>6, <3>1, <3>3, SMT
    <3>5. tick' \in Seq(Nat) /\ Len(tick') # 2
      BY <3>1, SMT
    <3> QED BY <1>3, <3>1, <3>4, <3>5, Zenon DEF StatusValid
  <2> QED BY <2>1, <2>2, <2>3, Zenon
<1> QED BY <1>4, <1>5, <1>7, Zenon DEF ServeInv

LEMMA ServeInit == Init => ServeInv
<1> SUFFICES ASSUME NEW r \in Requests, InitFor(r) PROVE ServeInv
  BY DEF Init
<1>1. FreshInv
  BY FreshInit, Zenon DEF Init
<1>2. /\ log = <<[elder |-> FirstLedger, latest |-> FirstLedger]>> /\ tick = <<>>
      /\ status = [latest |-> FirstLedger, elder |-> FirstLedger, exp |-> FirstLedger]
      /\ c = Client(r.mode, r.q, r.limit, r.url) /\ FirstLedger \in Nat
  BY HistoryAssumption, Zenon DEF InitFor
<1>3. StatusValid
  <2>1. replica.elder = FirstLedger
    BY <1>2, SMT DEF replica
  <2>2. tick \in Seq(Nat) /\ Len(tick) # 2
    BY <1>2, SMT
  <2>3. status \in [latest : Nat, elder : Nat, exp : Nat] /\ status.elder <= replica.elder
    BY <1>2, <2>1, SMT
  <2> QED BY <2>2, <2>3, Zenon DEF StatusValid
<1>4. /\ DOMAIN c = ClientFields /\ c.pc = "idle" /\ c.q = r.q /\ c.limit = r.limit
      /\ c.left = 0 /\ c.floor = 0 /\ c.newest = 0 /\ c.url = r.url /\ c.last = <<>>
      /\ c.header = <<>> /\ c.first = <<>> /\ c.cursor = <<>> /\ c.rows = <<>>
  BY <1>2, SMT DEF Client, ClientFields
<1>5. r.q \in Queries /\ r.limit \in Nat /\ IsCursor(r.url) /\ 0 \in Int
  <2>1. r.limit \in Nat \ {0} /\ IsCursor(r.url)
    BY HistoryAssumption, Zenon DEF RequestValid
  <2> QED BY <2>1, SMT DEF Queries
<1>6. Sane(c)
  BY <1>4, <1>5, EmptyCursor, Zenon DEF Sane
<1>7. Ready(c) /\ Exact(c)
  BY <1>4, SMT DEF Ready, Exact
<1> QED BY <1>1, <1>3, <1>6, <1>7, Zenon DEF ServeInv

LEMMA ServeStep == ServeInv /\ [Next]_vars => ServeInv'
<1> SUFFICES ASSUME ServeInv, [Next]_vars PROVE ServeInv'
  OBVIOUS
<1>1. CASE IngestLedger \/ ReapLedger \/ Replay
  BY <1>1, CommitsKeep
<1>2. CASE TickLatest \/ TickElder \/ SetHorizonStatus
  BY <1>2, TicksKeep
<1>3. CASE Send \/ ReadPrimary \/ ReadReplica
  BY <1>3, CheckKeeps
<1>4. CASE Begin
  BY <1>4, BeginKeeps
<1>5. CASE ServeStream
  BY <1>5, ServeStreamKeeps
<1>6. CASE Resolve
  BY <1>6, ResolveKeeps
<1>7. CASE Adjust
  BY <1>7, AdjustKeeps
<1>8. CASE Query
  BY <1>8, QueryKeeps
<1>15. CASE Lookup
  BY <1>15, LookupKeeps
<1>16. CASE TransactionsByIDs
  BY <1>16, TransactionsByIDsKeeps
<1>9. CASE LoadLedgers
  BY <1>9, LoadLedgersKeeps
<1>10. CASE RenderPage
  BY <1>10, RenderPageKeeps
<1>11. CASE NextLedger
  BY <1>11, NextLedgerKeeps
<1>12. CASE SendEvents
  BY <1>12, SendEventsKeeps
<1>13. CASE Disconnect
  BY <1>13, ReplyKeeps, Zenon DEF Disconnect
<1>14. CASE UNCHANGED vars
  <2>1. replicated' = replicated /\ log' = log /\ tick' = tick /\ status' = status /\ c' = c
    BY <1>14, Zenon DEF vars
  <2>2. FreshInv'
    BY <2>1, Zenon DEF ServeInv, FreshInv, LogValid, Replayable, IsClient, Checked,
                       ReadsOwnWrites, replica, primary
  <2>3. StatusValid'
    BY <2>1, Zenon DEF ServeInv, StatusValid, replica
  <2>4. Sane(c)' /\ Ready(c)' /\ Exact(c)'
    BY <2>1, Zenon DEF ServeInv
  <2> QED BY <2>2, <2>3, <2>4, Zenon DEF ServeInv
<1> QED BY <1>1, <1>2, <1>3, <1>4, <1>5, <1>6, <1>7, <1>8, <1>9, <1>10, <1>11,
           <1>12, <1>13, <1>14, <1>15, <1>16, Zenon DEF Next, ServeNext

\* The databases move forwards, the status lags behind them, and what a request in
\* flight has read is what it claims (HistoryApi's actions, one lemma each).
THEOREM ServeInvariant == Spec => []ServeInv
BY ServeInit, ServeStep, PTL DEF Spec

\* With a replica, every request that passed the check is answered from a database
\* at least as new as the primary was when the request came
\* (ReplicaSyncCheckMiddleware), however far the replica lags and whatever is
\* ingested and reaped between its two reads.
THEOREM ReplicaServesOwnWrites == Spec => []ReadsOwnWrites
<1>1. ServeInv => ReadsOwnWrites
  BY Zenon DEF ServeInv, FreshInv
<1> QED BY <1>1, ServeInvariant, PTL

\* For any history, page size and cursor, and a status however stale, a page or a
\* batch of stream events holds exactly the first rows beyond its cursor that the
\* request wants, from a database that is new enough.  Effects of a liquidity pool
\* are left out: their query in two statements can return too few.
THEOREM PagesServedTrue ==
  ASSUME \A r \in Requests : r.q.by # "pool"
  PROVE  Spec => []PagesAreTrue
<1>1. ServeInv => PagesAreTrue
  <2> SUFFICES ASSUME ServeInv PROVE PagesAreTrue
    OBVIOUS
  <2>1. c.q \in Queries /\ Exact(c) /\ ReadsOwnWrites
    BY Zenon DEF ServeInv, Sane, FreshInv
  <2>2. c.q.by # "pool"
    BY <2>1, SMT DEF Queries
  <2>3. PagesAreExact
    BY <2>1, <2>2, Zenon DEF Exact, PagesAreExact, ExactPage, PageRows
  <2>4. PoolPagesAreBegun
    BY <2>2, Zenon DEF PoolPagesAreBegun
  <2> QED BY <2>1, <2>3, <2>4, Zenon DEF PagesAreTrue
<1> QED BY <1>1, ServeInvariant, PTL
=============================================================================
