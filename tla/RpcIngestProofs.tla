-------------------------- MODULE RpcIngestProofs --------------------------
(***************************************************************************)
(* Live ingestion of stellar-rpc, for any retention and fee windows and    *)
(* any number of faults, restarts and readers.                             *)
(*                                                                         *)
(* Inductive is that the service works on the ledger after the newest one  *)
(* of the database (Pointed), that a ledger which was found is not after   *)
(* the newest one (FoundStored), and that the fee window is a ring of      *)
(* successive ledgers up to the newest one or the one being committed      *)
(* (FeesShape, FeesInv).                                                   *)
(*                                                                         *)
(* And the backfill, for any window, chunks and checkpoints: the stored    *)
(* ledgers are an interval, each loop goes on at an end of it, and its     *)
(* bounds stay within the window and the tip (BackfillInv).                *)
(***************************************************************************)
EXTENDS RpcIngest, RpcBackfill, FiniteSetTheorems, WellFoundedInduction, TLAPS

\* A bounded set of ledgers has an oldest and a newest one.
LEMMA SetMin ==
    ASSUME NEW S \in SUBSET Nat, S # {}
    PROVE  Min(S) \in S /\ \A y \in S : Min(S) <= y
<1>1. \E x \in S : \A y \in S : ~(<<y, x>> \in OpToRel(<, Nat))
    BY Zenon, NatLessThanWellFounded, WFMin
<1>2. PICK x \in S : \A y \in S : ~(<<y, x>> \in OpToRel(<, Nat))
    BY Zenon, <1>1
<1>3. \A y \in S : x <= y
    <2> TAKE y \in S
    <2>1. ~(y < x)
        BY Zenon, <1>2 DEF OpToRel
    <2> QED BY <2>1
<1> QED BY Zenon, <1>3 DEF Min

LEMMA SetMax ==
    ASSUME NEW n \in Nat, NEW S \in SUBSET (0 .. n), S # {}
    PROVE  Max(S) \in S /\ \A y \in S : Max(S) >= y
<1> DEFINE T == {n - x : x \in S}
<1>1. T \in SUBSET Nat /\ T # {}
    <2>1. \A x \in S : n - x \in Nat
        OBVIOUS
    <2> QED BY Zenon, <2>1
<1>2. PICK t \in T : \A u \in T : t <= u
    <2> HIDE DEF T
    <2> QED BY Zenon, <1>1, SetMin
<1>3. PICK x \in S : t = n - x
    OBVIOUS
<1>4. \A y \in S : n - y \in T
    OBVIOUS
<1>5. \A y \in S : x >= y
    <2> TAKE y \in S
    <2>1. n - x <= n - y
        BY SMTT(60), <1>2, <1>3, <1>4
    <2>2. x \in Nat /\ y \in Nat
        OBVIOUS
    <2> QED BY <2>1, <2>2
<1> QED BY <1>5 DEF Max

\* The ledger the service works on follows the newest one of the database, or is
\* the first one of an empty database.
Pointed ==
    /\ Latest <= net
    /\ ingestPc \in {"prepare", "ledger", "fees", "commit"} =>
          IF ledgers = {} THEN next \in 1 .. net ELSE next = Latest + 1
    /\ ingestPc \in {"fees", "commit"} => next <= net
    /\ ingestPc = "checkpoint" => ledgers # {} /\ next = Latest

\* A ledger that was found is still not after the newest one when it is read.
FoundStored ==
    \A r \in Readers : request[r].at = "range" /\ request[r].found => ledgers # {} /\ request[r].tx <= Latest

\* The fee window is a ring of successive ledgers that ends with last.
FeesShape ==
    /\ feeStart < Len(feeBuckets) \/ feeStart = 0
    /\ Len(feeBuckets) < FeeRetention => feeStart = 0
FeesEnd(last) ==
    \A k \in 1 .. Len(feeBuckets) :
        feeBuckets[k].seq = last + k - feeStart - (IF k > feeStart THEN Len(feeBuckets) ELSE 0)

\* How many ledgers there are, and how many of them the fee window has.
Size == IF ledgers = {} THEN 0 ELSE Latest - Oldest + 1
Covered(size) == IF size <= FeeRetention THEN size ELSE FeeRetention

FeesInv ==
    Serving /\ ~feesApart =>
        IF ingestPc = "commit"
        THEN Len(feeBuckets) = Covered(Size + 1) /\ FeesEnd(next)
        ELSE Len(feeBuckets) = Covered(Size) /\ FeesEnd(Latest)

IngestInv ==
    /\ IngestTypeOK /\ Gapless /\ CacheIsLatest /\ FoundIsNotAhead
    /\ Pointed /\ FoundStored /\ FeesShape /\ FeesInv

-----------------------------------------------------------------------------
\* An interval of ledgers: its ends and how many there are.
LEMMA IntervalEnds ==
    ASSUME NEW a \in Nat, NEW b \in Nat, a <= b
    PROVE  Min(a .. b) = a /\ Max(a .. b) = b /\ a .. b # {} /\ Cardinality(a .. b) = b - a + 1
<1>1. a .. b \in SUBSET Nat /\ a .. b \in SUBSET (0 .. b) /\ a \in a .. b /\ b \in a .. b
    OBVIOUS
<1>2. Min(a .. b) \in a .. b /\ Min(a .. b) <= a
    BY Zenon, <1>1, SetMin
<1>3. Max(a .. b) \in a .. b /\ Max(a .. b) >= b
    BY Zenon, <1>1, SetMax
<1>4. Cardinality(a .. b) = b - a + 1
    BY FS_Interval
<1>5. \A x \in a .. b : (x <= a => x = a) /\ (x >= b => x = b)
    OBVIOUS
<1> QED BY <1>1, <1>2, <1>3, <1>4, <1>5

LEMMA MinOfTwo ==
    ASSUME NEW a \in Nat, NEW b \in Nat
    PROVE  Min({a, b}) = IF a <= b THEN a ELSE b
<1>1. Min({a, b}) \in {a, b} /\ Min({a, b}) <= a /\ Min({a, b}) <= b
    BY SetMin
<1> QED BY <1>1

\* The ends of the ledgers in the database.
LEMMA Ends ==
    ASSUME IngestInv
    PROVE  /\ MaxLedger \in Nat /\ Latest \in 0 .. MaxLedger /\ Oldest \in 0 .. MaxLedger
           /\ ledgers = {} => Latest = 0 /\ Size = 0
           /\ ledgers # {} => /\ 1 <= Oldest /\ Oldest <= Latest /\ ledgers = Oldest .. Latest
                              /\ Latest \in ledgers /\ Size = Latest - Oldest + 1
           /\ Cardinality(ledgers) = Size /\ Size \in 0 .. MaxLedger
<1>0. MaxLedger \in Nat /\ ledgers \subseteq 1 .. MaxLedger /\ Gapless
    BY IngestAssumption DEF IngestConfig, IngestInv, IngestTypeOK
<1>1. CASE ledgers = {}
    BY <1>0, <1>1, FS_EmptySet DEF Latest, Oldest, Size
<1>2. CASE ledgers # {}
    <2>1. ledgers \in SUBSET Nat /\ ledgers \in SUBSET (0 .. MaxLedger)
        BY <1>0
    <2>2. Oldest \in ledgers /\ Latest \in ledgers
        BY Zenon, <1>0, <1>2, <2>1, SetMin, SetMax DEF Oldest, Latest
    <2>3. ledgers = Oldest .. Latest /\ Oldest \in 1 .. MaxLedger /\ Latest \in 1 .. MaxLedger
        BY <1>0, <1>2, <2>2 DEF Gapless
    <2>4. Oldest <= Latest
        BY <2>2, <2>3
    <2>5. Cardinality(Oldest .. Latest) = Latest - Oldest + 1
        BY <2>3, <2>4, IntervalEnds
    <2> QED BY SMTT(60), <1>0, <1>2, <2>2, <2>3, <2>4, <2>5 DEF Size
<1> QED BY <1>1, <1>2

Consts == /\ Retention \in Nat \ {0} /\ FeeRetention \in Nat \ {0} /\ FeeRetention <= Retention
          /\ MaxLedger \in Nat /\ MaxRetries \in Nat
LEMMA ConstsOK == Consts
BY IngestAssumption DEF IngestConfig, Consts

Fees == [seq : 1 .. MaxLedger, content : {"fees"}]
Pcs == {"down", "next", "prepare", "ledger", "fees", "commit", "checkpoint", "fatal"}
Answers == [at : {"idle", "range", "answered"}, tx : 0 .. MaxLedger, found : BOOLEAN, latest : 0 .. MaxLedger]

\* The parts of the type invariant.
ServiceTyped ==
    /\ net \in 0 .. MaxLedger /\ ledgers \subseteq 1 .. MaxLedger /\ cache \in 0 .. MaxLedger
    /\ ingestPc \in Pcs /\ next \in 0 .. MaxLedger + 1 /\ tries \in 0 .. MaxRetries
FeesTyped ==
    /\ feeBuckets \in Seq(Fees) /\ Len(feeBuckets) <= FeeRetention /\ feeStart \in 0 .. FeeRetention - 1
    /\ feesApart \in BOOLEAN
LEMMA TypeParts == IngestTypeOK <=> ServiceTyped /\ FeesTyped /\ request \in [Readers -> Answers]
BY SMTT(60) DEF IngestTypeOK, ServiceTyped, FeesTyped, Fees, Pcs, Answers

LEMMA InitIngest == IngestInit => IngestInv
<1> SUFFICES ASSUME IngestInit PROVE IngestInv
    OBVIOUS
<1>1. ServiceTyped
    BY ConstsOK DEF Consts, IngestInit, ServiceTyped, Pcs
<1>2. FeesTyped
    <2>1. <<>> \in Seq(Fees) /\ Len(<<>>) = 0
        OBVIOUS
    <2>2. 0 <= FeeRetention /\ 0 \in 0 .. FeeRetention - 1
        BY ConstsOK DEF Consts
    <2>3. feeBuckets = <<>> /\ feeStart = 0 /\ feesApart = FALSE
        BY DEF IngestInit
    <2> QED BY Zenon, <2>1, <2>2, <2>3 DEF FeesTyped
<1>3. request \in [Readers -> Answers] /\ \A r \in Readers : request[r].at = "idle"
    BY ConstsOK DEF Consts, IngestInit, Answers, NoRequest
<1>4. Gapless /\ CacheIsLatest /\ Pointed
    BY DEF IngestInit, Gapless, CacheIsLatest, Pointed, Latest
<1>5. FoundIsNotAhead /\ FoundStored
    BY <1>3 DEF FoundIsNotAhead, FoundStored
<1>6. FeesShape /\ FeesInv
    BY DEF IngestInit, FeesShape, FeesInv, Serving
<1> QED BY <1>1, <1>2, <1>3, <1>4, <1>5, <1>6, TypeParts DEF IngestInv

\* A step that leaves the database, the fee window and the requests alone.
LEMMA QuietStep ==
    ASSUME IngestInv, ServiceTyped', Pointed', feesApart' \in BOOLEAN,
           UNCHANGED <<ledgers, feeBuckets, feeStart, request>>, cache' \in {0, cache, Latest},
           Serving' /\ ~feesApart' =>
              /\ Serving /\ ~feesApart
              /\ ingestPc = "commit" \/ ingestPc' = "commit" => ingestPc' = ingestPc /\ next' = next
    PROVE  IngestInv'
<1>1. Latest' = Latest /\ Oldest' = Oldest /\ Size' = Size
    BY DEF Latest, Oldest, Size
<1>2. IngestTypeOK /\ ServiceTyped /\ FeesTyped /\ request \in [Readers -> Answers]
    BY TypeParts DEF IngestInv
<1>3. FeesTyped' /\ (request \in [Readers -> Answers])'
    BY <1>2 DEF FeesTyped, Fees, Answers
<1>4. IngestTypeOK'
    BY SMTT(60), <1>3 DEF IngestTypeOK, ServiceTyped, FeesTyped, Fees, Pcs, Answers
<1>5. Gapless' /\ CacheIsLatest' /\ FoundIsNotAhead' /\ FoundStored'
    BY <1>1 DEF IngestInv, Gapless, CacheIsLatest, FoundIsNotAhead, FoundStored
<1>6. FeesShape'
    BY DEF IngestInv, FeesShape
<1>7. FeesInv'
    <2> SUFFICES ASSUME Serving', ~feesApart'
                 PROVE  IF ingestPc' = "commit"
                        THEN Len(feeBuckets) = Covered(Size + 1) /\ FeesEnd(next)'
                        ELSE Len(feeBuckets) = Covered(Size) /\ FeesEnd(Latest)'
        BY <1>1 DEF FeesInv, Covered
    <2>1. (ingestPc' = "commit" => next' = next) /\ (ingestPc = "commit" <=> ingestPc' = "commit")
        OBVIOUS
    <2>2. IF ingestPc = "commit"
          THEN Len(feeBuckets) = Covered(Size + 1) /\ FeesEnd(next)
          ELSE Len(feeBuckets) = Covered(Size) /\ FeesEnd(Latest)
        BY DEF IngestInv, FeesInv
    <2> QED BY <1>1, <2>1, <2>2 DEF FeesEnd
<1> QED BY <1>4, <1>5, <1>6, <1>7 DEF IngestInv

\* The step of run() that failed is tried again, or ends the process.
LEMMA FailedInv ==
    ASSUME IngestInv, Serving, FailedRun, feesApart' = (feesApart \/ ingestPc = "commit"),
           UNCHANGED <<net, ledgers, cache, feeBuckets, feeStart, request>>
    PROVE  IngestInv'
<1>1. /\ ServiceTyped /\ FeesTyped /\ Latest <= net
    BY TypeParts DEF IngestInv, Pointed
<1>2. ingestPc' \in {"next", "fatal"} /\ next' = next /\ tries' \in 0 .. MaxRetries
    BY <1>1, ConstsOK DEF FailedRun, Retry, ServiceTyped, Consts
<1>3. ServiceTyped'
    BY <1>1, <1>2 DEF ServiceTyped, Pcs
<1>4. Pointed'
    BY <1>1, <1>2 DEF Pointed, Latest
<1>5. feesApart' \in BOOLEAN /\ (~feesApart' => ~feesApart /\ ingestPc # "commit")
    BY Zenon, <1>1 DEF FeesTyped
<1>6. ingestPc' # "commit"
    BY <1>2
<1> QED BY <1>3, <1>4, <1>5, <1>6, QuietStep

LEMMA CloseLedgerInv == IngestInv /\ CloseLedger => IngestInv'
<1> SUFFICES ASSUME IngestInv, CloseLedger PROVE IngestInv'
    OBVIOUS
<1>1. /\ net < MaxLedger /\ net' = net + 1
      /\ UNCHANGED <<ledgers, cache, feeBuckets, feeStart, feesApart, ingestPc, next, tries, request>>
    BY DEF CloseLedger, storage, fees, service
<1>2. ServiceTyped /\ FeesTyped /\ Pointed /\ Latest \in Nat /\ MaxLedger \in Nat
    BY TypeParts, Ends DEF IngestInv
<1>3. ServiceTyped'
    BY <1>1, <1>2 DEF ServiceTyped
<1>4. Latest' = Latest
    BY <1>1 DEF Latest
<1>5. net \in Nat /\ next \in Nat
    BY <1>2 DEF ServiceTyped
<1>6. Pointed'
    BY <1>1, <1>2, <1>4, <1>5 DEF Pointed
<1>7. feesApart' \in BOOLEAN
    BY <1>1, <1>2 DEF FeesTyped
<1> QED BY <1>1, <1>3, <1>6, <1>7, QuietStep DEF Serving

\* The steps of run() that only move the service on.
LEMMA MovesOn ==
    ASSUME IngestInv, NextFromDB \/ NextFromArchive \/ EmptyArchives \/ PrepareRange \/ InsertLedger \/ PostCommit
    PROVE  IngestInv'
<1>1. /\ UNCHANGED <<net, ledgers, feeBuckets, feeStart, feesApart, request>>
      /\ ingestPc # "commit" /\ ingestPc' # "commit" /\ Serving
    BY DEF NextFromDB, NextFromArchive, EmptyArchives, PrepareRange, InsertLedger, PostCommit, storage, fees, Serving
<1>2. /\ ServiceTyped /\ FeesTyped /\ Pointed /\ CacheIsLatest /\ MaxLedger \in Nat /\ MaxRetries \in Nat
    BY TypeParts, ConstsOK DEF IngestInv, Consts
<1>3. /\ Latest \in 0 .. MaxLedger /\ (ledgers = {} => Latest = 0) /\ (ledgers # {} => Latest >= 1)
    BY SMTT(60), Ends
<1>4. /\ net \in 0 .. MaxLedger /\ next \in Nat /\ cache \in Nat /\ (cache # 0 => cache = Latest) /\ Latest <= net
      /\ cache = 0 \/ ledgers # {}
    BY <1>2, <1>3 DEF ServiceTyped, CacheIsLatest, Pointed
<1>5. Latest' = Latest
    BY <1>1 DEF Latest
<1>6. cache' \in {0, cache, Latest} /\ cache' \in 0 .. MaxLedger
    BY <1>2, <1>3, <1>4
       DEF NextFromDB, NextFromArchive, EmptyArchives, PrepareRange, InsertLedger, PostCommit, storage, ServiceTyped
<1>7. tries' \in 0 .. MaxRetries
    BY <1>2 DEF NextFromDB, NextFromArchive, EmptyArchives, PrepareRange, InsertLedger, PostCommit, ServiceTyped
<1>8. /\ next' \in 0 .. MaxLedger + 1 /\ ingestPc' \in Pcs
      /\ ingestPc' \in {"prepare", "ledger", "fees", "commit"} =>
            IF ledgers = {} THEN next' \in 1 .. net ELSE next' = Latest + 1
      /\ ingestPc' \in {"fees", "commit"} => next' <= net
      /\ ingestPc' # "checkpoint"
    <2>1. CASE NextFromDB
        <3>1. ledgers # {} /\ next' = Latest + 1 /\ ingestPc' = "prepare"
            BY <1>4, <2>1 DEF NextFromDB
        <3> QED BY <1>2, <1>3, <3>1 DEF Pcs
    <2>2. CASE NextFromArchive
        BY <1>2, <1>4, <2>2 DEF NextFromArchive, Pcs
    <2>3. CASE EmptyArchives
        BY <1>2, <2>3 DEF EmptyArchives, Pcs, ServiceTyped
    <2>4. CASE PrepareRange
        BY <1>2, <2>4 DEF PrepareRange, Pcs, ServiceTyped, Pointed
    <2>5. CASE InsertLedger
        BY <1>2, <2>5 DEF InsertLedger, Pcs, ServiceTyped, Pointed
    <2>6. CASE PostCommit
        <3>1. ledgers # {} /\ next' = Latest + 1 /\ ingestPc' = "ledger"
            BY <1>2, <2>6 DEF PostCommit, Pointed
        <3> QED BY <1>2, <1>3, <3>1 DEF Pcs
    <2> QED BY <2>1, <2>2, <2>3, <2>4, <2>5, <2>6
<1>9. ServiceTyped'
    BY <1>1, <1>2, <1>6, <1>7, <1>8 DEF ServiceTyped
<1>10. Pointed'
    BY <1>1, <1>4, <1>5, <1>8 DEF Pointed
<1>11. feesApart' \in BOOLEAN
    BY <1>1, <1>2 DEF FeesTyped
<1> QED BY <1>1, <1>6, <1>9, <1>10, <1>11, QuietStep

\* The requests: what was found, and the answer that goes with it.
LEMMA ReaderInv ==
    ASSUME IngestInv, NEW r \in Readers, Reader(r)
    PROVE  IngestInv'
<1>1. UNCHANGED <<net, ledgers, cache, feeBuckets, feeStart, feesApart, ingestPc, next, tries>>
    BY DEF Reader, GetTransaction, ReadLedgerRange, ReadLedgerRangeFails, Answered, storage, fees, service
<1>2. /\ ServiceTyped /\ FeesTyped /\ request \in [Readers -> Answers] /\ CacheIsLatest
      /\ FoundIsNotAhead /\ FoundStored /\ MaxLedger \in Nat /\ ledgers \subseteq 1 .. MaxLedger
    BY TypeParts, ConstsOK DEF IngestInv, Consts, ServiceTyped
<1>3. Latest' = Latest /\ Oldest' = Oldest /\ Size' = Size
    BY <1>1 DEF Latest, Oldest, Size
<1>4. /\ Latest \in 0 .. MaxLedger /\ (ledgers # {} => Latest >= 1) /\ cache \in 0 .. MaxLedger
      /\ \A l \in ledgers : l <= Latest
    <2>1. ledgers # {} => ledgers = Oldest .. Latest
        BY Ends
    <2>2. \A l \in ledgers : l <= Latest
        <3>1. Oldest \in Nat /\ Latest \in Nat
            BY Ends
        <3> QED BY <2>1, <3>1
    <2> QED BY <1>2, <2>2, Ends DEF ServiceTyped
<1>5. /\ request' = [request EXCEPT ![r] = request'[r]] /\ request'[r] \in Answers
      /\ request'[r].at = "range" /\ request'[r].found => ledgers # {} /\ request'[r].tx <= Latest
      /\ request'[r].at = "answered" /\ request'[r].found => request'[r].tx <= request'[r].latest
    <2>1. CASE GetTransaction(r)
        <3>1. PICK l \in 1 .. MaxLedger :
                 request' = [request EXCEPT ![r] = [at |-> "range", tx |-> l, found |-> l \in ledgers, latest |-> 0]]
            BY Zenon, <2>1 DEF GetTransaction
        <3> DEFINE found == l \in ledgers
                   asked == [at |-> "range", tx |-> l, found |-> found, latest |-> 0]
        <3>2. found \in BOOLEAN /\ l \in 0 .. MaxLedger /\ 0 \in 0 .. MaxLedger /\ (found => l <= Latest /\ ledgers # {})
            BY <1>2, <1>4
        <3>3. request' = [request EXCEPT ![r] = asked]
            BY <3>1
        <3> HIDE DEF found
        <3>4. asked \in Answers
            BY <3>2 DEF Answers
        <3>5. request'[r] = asked
            BY <1>2, <3>3
        <3>6. asked.at = "range" /\ asked.tx = l /\ asked.found = found
            OBVIOUS
        <3> HIDE DEF asked
        <3> QED BY Zenon, <3>2, <3>3, <3>4, <3>5, <3>6
    <2>2. CASE ReadLedgerRange(r)
        <3> DEFINE told == IF cache # 0 THEN cache ELSE Latest
        <3>1. /\ request' = [request EXCEPT ![r].at = "answered", ![r].latest = told]
              /\ request[r].at = "range" /\ ledgers # {}
            BY <2>2 DEF ReadLedgerRange
        <3>2. told = Latest /\ told \in 0 .. MaxLedger
            BY <1>2, <1>4 DEF CacheIsLatest
        <3> HIDE DEF told
        <3>3. /\ request'[r] \in Answers /\ request'[r].at = "answered" /\ request'[r].latest = told
              /\ request'[r].tx = request[r].tx /\ request'[r].found = request[r].found
              /\ request' = [request EXCEPT ![r] = request'[r]]
            BY Zenon, <1>2, <3>1, <3>2 DEF Answers
        <3> QED BY <1>2, <3>1, <3>2, <3>3 DEF FoundStored
    <2>3. CASE ReadLedgerRangeFails(r) \/ Answered(r)
        <3>1. request' = [request EXCEPT ![r] = NoRequest]
            BY <2>3 DEF ReadLedgerRangeFails, Answered
        <3> QED BY <1>2, <3>1 DEF NoRequest, Answers
    <2> QED BY <2>1, <2>2, <2>3 DEF Reader
<1>6. (request \in [Readers -> Answers])'
    BY <1>2, <1>5 DEF Answers
<1>7. FoundIsNotAhead' /\ FoundStored'
    BY <1>1, <1>2, <1>3, <1>5 DEF FoundIsNotAhead, FoundStored
<1>8. ServiceTyped' /\ FeesTyped'
    BY <1>1, <1>2 DEF ServiceTyped, FeesTyped, Fees
<1>9. IngestTypeOK'
    BY SMTT(60), <1>6, <1>8 DEF IngestTypeOK, ServiceTyped, FeesTyped, Fees, Pcs, Answers
<1>10. Gapless' /\ CacheIsLatest' /\ Pointed' /\ FeesShape'
    BY <1>1, <1>3 DEF IngestInv, Gapless, CacheIsLatest, Pointed, FeesShape
<1>11. FeesInv'
    BY <1>1, <1>3 DEF IngestInv, FeesInv, Serving, Covered, FeesEnd
<1> QED BY <1>7, <1>9, <1>10, <1>11 DEF IngestInv

-----------------------------------------------------------------------------
\* A ledger goes behind the last bucket, or into the place of the oldest one.
LEMMA AppendFees ==
    ASSUME FeesTyped, FeesShape, NEW l \in 1 .. MaxLedger,
           W!AppendNotFull(FeeBucket(l)) \/ W!AppendFull(FeeBucket(l)), UNCHANGED feesApart
    PROVE  /\ FeesTyped' /\ FeesShape'
           /\ Len(feeBuckets') = Covered(Len(feeBuckets) + 1)
           /\ \A last \in Nat : FeesEnd(last) /\ (Len(feeBuckets) = 0 \/ l = last + 1) => FeesEnd(l)'
<1> DEFINE b == FeeBucket(l)
           n == Len(feeBuckets)
           s == feeStart
<1>1. /\ FeeRetention \in Nat \ {0} /\ MaxLedger \in Nat /\ feeBuckets \in Seq(Fees) /\ n \in Nat /\ n <= FeeRetention
      /\ s \in Nat /\ s < FeeRetention /\ (s < n \/ s = 0) /\ (n < FeeRetention => s = 0)
    BY ConstsOK DEF Consts, FeesTyped, FeesShape
<1>2. b \in Fees /\ b.seq = l /\ l \in Nat
    BY <1>1 DEF Fees, FeeBucket
<1>3. /\ \A k \in 1 .. n : feeBuckets[k] \in Fees
      /\ \A k \in 1 .. n : feeBuckets[k].seq \in Nat
    <2>1. \A k \in 1 .. n : feeBuckets[k] \in Fees
        BY <1>1
    <2>2. \A f \in Fees : f.seq \in Nat
        BY <1>1 DEF Fees
    <2> QED BY <2>1, <2>2
<1>4. CASE W!AppendNotFull(b)
    <2>1. n < FeeRetention /\ feeBuckets' = Append(feeBuckets, b) /\ feeStart' = s /\ s = 0
        BY <1>1, <1>4 DEF W!AppendNotFull, W!Length
    <2>2. /\ feeBuckets' \in Seq(Fees) /\ Len(feeBuckets') = n + 1 /\ feeBuckets'[n + 1] = b
          /\ \A k \in 1 .. n : feeBuckets'[k] = feeBuckets[k]
        BY <1>1, <1>2, <2>1
    <2>3. FeesTyped'
        <3>1. (feeBuckets \in Seq(Fees))'
            BY <2>2 DEF Fees
        <3> QED BY <1>1, <2>1, <2>2, <3>1 DEF FeesTyped
    <2>4. FeesShape' /\ Len(feeBuckets') = Covered(n + 1)
        BY <1>1, <2>1, <2>2 DEF FeesShape, Covered
    <2>5. ASSUME NEW last \in Nat, FeesEnd(last), n = 0 \/ l = last + 1,
                 NEW k \in 1 .. n + 1
          PROVE  feeBuckets'[k].seq = l + k - 0 - (IF k > 0 THEN n + 1 ELSE 0)
        <3>1. CASE k = n + 1
            <4>1. feeBuckets'[k].seq = l
                BY Zenon, <1>2, <2>2, <3>1
            <4>2. l + k - 0 - (IF k > 0 THEN n + 1 ELSE 0) = l
                BY <1>1, <1>2, <3>1
            <4> QED BY Zenon, <4>1, <4>2
        <3>2. CASE k # n + 1
            <4>1. k \in 1 .. n /\ l = last + 1
                BY <1>1, <2>5, <3>2
            <4>2. feeBuckets[k].seq = last + k - s - (IF k > s THEN n ELSE 0)
                BY <2>5, <4>1 DEF FeesEnd
            <4>3. l + k - 0 - (IF k > 0 THEN n + 1 ELSE 0) = last + k - s - (IF k > s THEN n ELSE 0)
                <5>1. n \in Nat /\ s = 0 /\ k \in Nat /\ k > 0 /\ l = last + 1
                    BY <1>1, <2>1, <4>1
                <5> HIDE DEF n, s
                <5> QED BY <5>1
            <4>4. feeBuckets'[k] = feeBuckets[k]
                BY <2>2, <4>1
            <4> QED BY Zenon, <4>2, <4>3, <4>4
        <3> QED BY <3>1, <3>2
    <2> HIDE DEF b
    <2> QED BY Zenon, <2>1, <2>2, <2>3, <2>4, <2>5 DEF FeesEnd
<1>5. CASE W!AppendFull(b)
    <2>1. /\ n = FeeRetention /\ feeBuckets' = [feeBuckets EXCEPT ![s + 1] = b] /\ feeStart' = (s + 1) % n /\ s < n
        BY <1>1, <1>5 DEF W!AppendFull, W!Length
    <2>2. feeStart' = IF s + 1 < n THEN s + 1 ELSE 0
        <3>1. (s + 1) % n = IF s + 1 < n THEN s + 1 ELSE 0
            BY SMTT(60), <1>1, <2>1
        <3> QED BY <2>1, <3>1
    <2>3. /\ feeBuckets' \in Seq(Fees) /\ Len(feeBuckets') = n /\ feeBuckets'[s + 1] = b
          /\ \A k \in 1 .. n : k # s + 1 => feeBuckets'[k] = feeBuckets[k]
        BY <1>1, <1>2, <2>1
    <2>4. FeesTyped'
        <3>1. (feeBuckets \in Seq(Fees))'
            BY <2>3 DEF Fees
        <3> QED BY <1>1, <2>1, <2>2, <2>3, <3>1 DEF FeesTyped
    <2>5. FeesShape' /\ Len(feeBuckets') = Covered(n + 1)
        BY <1>1, <2>1, <2>2, <2>3 DEF FeesShape, Covered
    <2>6. ASSUME NEW last \in Nat, FeesEnd(last), n = 0 \/ l = last + 1,
                 NEW k \in 1 .. n
          PROVE  feeBuckets'[k].seq = l + k - feeStart' - (IF k > feeStart' THEN n ELSE 0)
        <3>1. CASE k = s + 1
            <4>1. feeBuckets'[k].seq = l
                BY <1>2, <2>3, <3>1
            <4> QED BY <1>1, <1>2, <2>1, <2>2, <3>1, <4>1
        <3>2. CASE k # s + 1
            <4>1. feeBuckets'[k].seq = last + k - s - (IF k > s THEN n ELSE 0)
                BY <2>3, <2>6, <3>2 DEF FeesEnd
            <4>2. l = last + 1
                BY <1>1, <2>1, <2>6
            <4> QED BY SMTT(60), <1>1, <2>1, <2>2, <3>2, <4>1, <4>2
        <3> QED BY <3>1, <3>2
    <2> HIDE DEF b
    <2> QED BY <2>3, <2>4, <2>5, <2>6 DEF FeesEnd
<1> QED BY <1>4, <1>5

LEMMA IngestFeesInv == IngestInv /\ IngestFees => IngestInv'
<1> SUFFICES ASSUME IngestInv, IngestFees PROVE IngestInv'
    OBVIOUS
<1>1. /\ ingestPc = "fees" /\ ingestPc' = "commit"
      /\ UNCHANGED <<net, ledgers, cache, feesApart, next, tries, request>>
      /\ W!AppendNotFull(FeeBucket(next)) \/ W!AppendFull(FeeBucket(next))
    BY DEF IngestFees, storage
<1>2. /\ ServiceTyped /\ FeesTyped /\ FeesShape /\ FeesInv /\ Pointed /\ request \in [Readers -> Answers]
      /\ MaxLedger \in Nat /\ FeeRetention \in Nat \ {0}
    BY TypeParts, ConstsOK DEF IngestInv, Consts
<1>3. Latest \in Nat /\ Size \in Nat /\ (Size = 0 <=> ledgers = {})
    BY Ends
<1>4. next \in 1 .. MaxLedger /\ next <= net /\ (IF ledgers = {} THEN next \in 1 .. net ELSE next = Latest + 1)
    <2>1. next <= net /\ (IF ledgers = {} THEN next \in 1 .. net ELSE next = Latest + 1) /\ net \in 0 .. MaxLedger
        BY <1>1, <1>2 DEF Pointed, ServiceTyped
    <2> QED BY <1>2, <1>3, <2>1
<1>5. FeesTyped' /\ FeesShape' /\ Len(feeBuckets') = Covered(Len(feeBuckets) + 1)
    BY <1>1, <1>2, <1>4, AppendFees
<1>6. Latest' = Latest /\ Oldest' = Oldest /\ Size' = Size
    BY <1>1 DEF Latest, Oldest, Size
<1>7. FeesInv'
    <2> SUFFICES ASSUME ~feesApart
                 PROVE  Len(feeBuckets') = Covered(Size + 1) /\ FeesEnd(next)'
        BY <1>1, <1>6 DEF FeesInv, Covered
    <2>1. Len(feeBuckets) = Covered(Size) /\ FeesEnd(Latest)
        BY <1>1, <1>2 DEF FeesInv, Serving
    <2>2. Len(feeBuckets') = Covered(Size + 1)
        BY <1>2, <1>3, <1>5, <2>1 DEF Covered
    <2>3. Len(feeBuckets) = 0 \/ next = Latest + 1
        BY <1>2, <1>3, <1>4, <2>1 DEF Covered
    <2>4. FeesEnd(next)'
        BY SMTT(60), <1>1, <1>2, <1>3, <1>4, <2>1, <2>3, AppendFees DEF FeesEnd
    <2> QED BY <2>2, <2>4
<1>8. ServiceTyped' /\ (request \in [Readers -> Answers])'
    BY <1>1, <1>2 DEF ServiceTyped, Pcs, Answers
<1>9. IngestTypeOK'
    BY SMTT(60), <1>5, <1>8 DEF IngestTypeOK, ServiceTyped, FeesTyped, Fees, Pcs, Answers
<1>10. Gapless' /\ CacheIsLatest' /\ FoundIsNotAhead' /\ FoundStored'
    BY <1>1, <1>6 DEF IngestInv, Gapless, CacheIsLatest, FoundIsNotAhead, FoundStored
<1>11. Pointed'
    BY <1>1, <1>2, <1>4, <1>6 DEF Pointed
<1> QED BY <1>5, <1>7, <1>9, <1>10, <1>11 DEF IngestInv

-----------------------------------------------------------------------------
\* The window that is read from the database on a start holds its newest ledgers,
\* also when one ledger more than it has place for is streamed through it.
LEMMA InitialFeesRight ==
    ASSUME IngestInv, feeBuckets' = InitialFees, feeStart' = InitialStart, feesApart' \in BOOLEAN
    PROVE  /\ FeesTyped' /\ FeesShape' /\ Len(feeBuckets') = Covered(Size)
           /\ \A k \in 1 .. Len(feeBuckets') :
                 feeBuckets'[k].seq = Latest + k - feeStart' - (IF k > feeStart' THEN Len(feeBuckets') ELSE 0)
<1> DEFINE first == IF Latest > FeeRetention THEN Latest - FeeRetention ELSE 1
           seqs == {l \in ledgers : l >= first}
           recent == {l \in ledgers : l >= Latest - FeeRetention}
<1>1. /\ FeeRetention \in Nat \ {0} /\ MaxLedger \in Nat /\ Latest \in 0 .. MaxLedger /\ Oldest \in Nat /\ Size \in Nat
      /\ ledgers = {} => Latest = 0 /\ Size = 0
      /\ ledgers # {} => 1 <= Oldest /\ Oldest <= Latest /\ ledgers = Oldest .. Latest /\ Size = Latest - Oldest + 1
    BY ConstsOK, Ends DEF Consts
<1>2. \A l \in 1 .. MaxLedger : FeeBucket(l) \in Fees /\ FeeBucket(l).seq = l
    BY DEF FeeBucket, Fees
<1>3. ASSUME NEW m \in Nat, m <= FeeRetention, feeBuckets' \in [1 .. m -> Fees],
             NEW s \in 0 .. FeeRetention - 1, feeStart' = s, s < m \/ s = 0, m < FeeRetention => s = 0
      PROVE  FeesTyped' /\ FeesShape' /\ Len(feeBuckets') = m
    <2>1. feeBuckets' \in Seq(Fees) /\ Len(feeBuckets') = m
        BY <1>3
    <2>2. (feeBuckets \in Seq(Fees))'
        BY <2>1 DEF Fees
    <2> QED BY <1>3, <2>1, <2>2 DEF FeesTyped, FeesShape
<1>4. CASE ledgers = {}
    <2>1. seqs = {} /\ Cardinality(seqs) = 0
        BY <1>4, FS_EmptySet
    <2>2. feeBuckets' = [i \in 1 .. 0 |-> FeeBucket(Min(seqs) + i - 1)]
        <3>1. feeBuckets' = [i \in 1 .. Cardinality(seqs) |-> FeeBucket(Min(seqs) + i - 1)]
            BY <1>1, <2>1 DEF InitialFees
        <3> QED BY Zenon, <2>1, <3>1
    <2>3. feeBuckets' \in [1 .. 0 -> Fees]
        BY <2>2
    <2>4. feeStart' = 0
        BY <1>1, <1>4 DEF InitialStart
    <2>5. FeesTyped' /\ FeesShape' /\ Len(feeBuckets') = 0
        BY <1>1, <1>3, <2>3, <2>4
    <2> QED BY <1>1, <1>4, <2>5 DEF Covered
<1>5. CASE ledgers # {} /\ Size <= FeeRetention
    <2>1. seqs = Oldest .. Latest /\ recent = Oldest .. Latest
        BY <1>1, <1>5
    <2>2. Cardinality(seqs) = Size /\ Min(seqs) = Oldest /\ Cardinality(recent) = Size
        <3>1. Min(Oldest .. Latest) = Oldest /\ Cardinality(Oldest .. Latest) = Latest - Oldest + 1
            BY <1>1, <1>5, IntervalEnds
        <3> HIDE DEF seqs, recent
        <3> QED BY <1>1, <1>5, <2>1, <3>1
    <2>3. feeBuckets' = [i \in 1 .. Size |-> FeeBucket(Oldest + i - 1)]
        <3>1. feeBuckets' = [i \in 1 .. Cardinality(seqs) |-> FeeBucket(Min(seqs) + i - 1)]
            BY <1>5, <2>2 DEF InitialFees
        <3> HIDE DEF seqs
        <3> QED BY <2>2, <3>1
    <2>4. feeStart' = 0
        <3>1. ~(Cardinality(recent) > FeeRetention)
            BY <1>1, <1>5, <2>2
        <3> QED BY <3>1 DEF InitialStart
    <2>5. \A i \in 1 .. Size : Oldest + i - 1 \in 1 .. MaxLedger /\ Oldest + i - 1 = Latest + i - Size
        BY <1>1, <1>5
    <2>6. feeBuckets' \in [1 .. Size -> Fees] /\ \A i \in 1 .. Size : feeBuckets'[i].seq = Latest + i - Size
        BY <1>2, <2>3, <2>5
    <2>7. FeesTyped' /\ FeesShape' /\ Len(feeBuckets') = Size
        BY SMTT(60), <1>1, <1>3, <1>5, <2>4, <2>6
    <2>8. \A k \in 1 .. Size : Latest + k - Size = Latest + k - 0 - (IF k > 0 THEN Size ELSE 0)
        BY <1>1
    <2> QED BY <1>5, <2>4, <2>6, <2>7, <2>8 DEF Covered
<1>6. CASE Size > FeeRetention
    <2>1. ledgers # {} /\ Latest > FeeRetention /\ first = Latest - FeeRetention /\ first >= Oldest
        BY <1>1, <1>6
    <2>2. seqs = first .. Latest /\ recent = first .. Latest /\ first \in Nat
        BY <1>1, <2>1
    <2>3. Cardinality(seqs) = FeeRetention + 1 /\ Min(seqs) = first /\ Cardinality(recent) = FeeRetention + 1
        <3> HIDE DEF seqs, recent
        <3> QED BY <1>1, <2>1, <2>2, IntervalEnds
    <2>4. feeBuckets' = [i \in 1 .. FeeRetention |-> FeeBucket(first + (IF i = 1 THEN FeeRetention ELSE i - 1))]
        <3>1. feeBuckets' = [i \in 1 .. FeeRetention |-> FeeBucket(Min(seqs) + (IF i = 1 THEN Cardinality(seqs) - 1 ELSE i - 1))]
            BY <1>1, <2>3 DEF InitialFees
        <3> HIDE DEF seqs, first
        <3> QED BY <1>1, <2>3, <3>1
    <2>5. feeStart' = IF FeeRetention = 1 THEN 0 ELSE 1
        <3>1. Cardinality(recent) > FeeRetention /\ Latest > FeeRetention
            BY <1>1, <2>1, <2>3
        <3>2. feeStart' = 1 % FeeRetention
            BY <3>1 DEF InitialStart
        <3>3. 1 % FeeRetention = IF FeeRetention = 1 THEN 0 ELSE 1
            BY <1>1
        <3> QED BY <3>2, <3>3
    <2> HIDE DEF seqs, recent
    <2>6. \A i \in 1 .. FeeRetention : first + (IF i = 1 THEN FeeRetention ELSE i - 1) \in 1 .. MaxLedger
        BY <1>1, <2>1
    <2> HIDE DEF first
    <2>7. /\ feeBuckets' \in [1 .. FeeRetention -> Fees]
          /\ \A i \in 1 .. FeeRetention : feeBuckets'[i].seq = first + (IF i = 1 THEN FeeRetention ELSE i - 1)
        BY <1>2, <2>4, <2>6
    <2>8. FeesTyped' /\ FeesShape' /\ Len(feeBuckets') = FeeRetention
        BY <1>1, <1>3, <2>5, <2>7
    <2>9. ASSUME NEW k \in 1 .. FeeRetention, NEW s \in 0 .. 1, s = IF FeeRetention = 1 THEN 0 ELSE 1
          PROVE  first + (IF k = 1 THEN FeeRetention ELSE k - 1) = Latest + k - s - (IF k > s THEN FeeRetention ELSE 0)
        BY <1>1, <2>1, <2>9
    <2>10. feeStart' \in 0 .. 1
        BY <2>5
    <2>11. Covered(Size) = FeeRetention
        BY <1>1, <1>6 DEF Covered
    <2>12. ASSUME NEW k \in 1 .. FeeRetention
           PROVE  feeBuckets'[k].seq = Latest + k - feeStart' - (IF k > feeStart' THEN FeeRetention ELSE 0)
        BY <2>5, <2>7, <2>9, <2>10
    <2> QED BY <2>8, <2>11, <2>12
<1> QED BY <1>1, <1>4, <1>5, <1>6

\* New newest ledgers in the database, and all of an interval.
LEMMA StoresInterval ==
    ASSUME IngestInv, NEW h \in 1 .. MaxLedger, NEW a \in 1 .. h, h >= Latest, ledgers' = a .. h, UNCHANGED request
    PROVE  /\ Latest' = h /\ Oldest' = a /\ Size' = h - a + 1 /\ ledgers' # {} /\ ledgers' \subseteq 1 .. MaxLedger
           /\ Gapless' /\ FoundIsNotAhead' /\ FoundStored'
<1>1. Latest \in Nat /\ MaxLedger \in Nat /\ request \in [Readers -> Answers]
    BY Ends, TypeParts DEF IngestInv
<1>2. Min(a .. h) = a /\ Max(a .. h) = h /\ a .. h # {} /\ a .. h \subseteq 1 .. MaxLedger
    <2>1. a \in Nat /\ h \in Nat /\ a <= h /\ a .. h \subseteq 1 .. MaxLedger
        BY <1>1
    <2>2. Min(a .. h) = a /\ Max(a .. h) = h /\ a .. h # {}
        BY <2>1, IntervalEnds
    <2> QED BY <2>1, <2>2
<1>3. Latest' = h /\ Oldest' = a /\ Size' = h - a + 1 /\ ledgers' # {}
    BY <1>2 DEF Latest, Oldest, Size
<1>4. Gapless' /\ FoundIsNotAhead'
    BY <1>3 DEF Gapless, IngestInv, FoundIsNotAhead
<1>5. FoundStored'
    <2>1. \A r \in Readers : request[r].tx \in Nat
        <3>1. \A q \in Answers : q.tx \in Nat
            BY <1>1 DEF Answers
        <3> QED BY <1>1, <3>1
    <2> QED BY <1>1, <1>3, <2>1 DEF IngestInv, FoundStored
<1> QED BY <1>2, <1>3, <1>4, <1>5

\* What the trims leave of an interval of ledgers.
LEMMA Trimmed ==
    ASSUME NEW h \in Nat, NEW first \in 1 .. h
    PROVE  \E a \in first .. h :
              /\ TrimLedgers(first .. h, h) = a .. h
              /\ a = first \/ a = h + 1 - Retention
<1>0. Retention \in Nat \ {0}
    BY ConstsOK DEF Consts
<1>1. CASE h + 1 <= Retention \/ first >= h + 1 - Retention
    <2>1. TrimLedgers(first .. h, h) = first .. h
        BY SMTT(60), <1>0, <1>1 DEF TrimLedgers
    <2> QED BY <2>1
<1>2. CASE ~(h + 1 <= Retention) /\ first < h + 1 - Retention
    <2>1. TrimLedgers(first .. h, h) = (h + 1 - Retention) .. h /\ h + 1 - Retention \in first .. h
        BY <1>0, <1>2 DEF TrimLedgers
    <2> QED BY <2>1
<1> QED BY <1>0, <1>1, <1>2

\* The commit of a ledger: the interval it leaves, of which only the oldest are lost.
LEMMA CommitStores ==
    ASSUME IngestInv, CommitLedger
    PROVE  /\ next \in 1 .. MaxLedger /\ next >= Latest /\ next <= net
           /\ \E a \in 1 .. next : /\ ledgers' = a .. next
                                   /\ \/ Size + 1 = next - a + 1 /\ ledgers \subseteq ledgers'
                                      \/ Size + 1 > next - a + 1 /\ next - a + 1 = Retention
<1>1. /\ ingestPc = "commit" /\ ledgers' = TrimLedgers(ledgers \union {next}, next)
    BY DEF CommitLedger
<1>2. /\ MaxLedger \in Nat /\ Retention \in Nat \ {0} /\ net \in 0 .. MaxLedger
      /\ Latest \in Nat /\ Oldest \in Nat /\ Size \in Nat
      /\ ledgers = {} => Latest = 0 /\ Size = 0
      /\ ledgers # {} => 1 <= Oldest /\ Oldest <= Latest /\ ledgers = Oldest .. Latest /\ Size = Latest - Oldest + 1
    BY SMTT(60), ConstsOK, Ends, TypeParts DEF Consts, IngestInv, ServiceTyped
<1>3. next <= net /\ (IF ledgers = {} THEN next \in 1 .. net ELSE next = Latest + 1)
    BY <1>1 DEF IngestInv, Pointed
<1>4. next \in 1 .. MaxLedger /\ next >= Latest
    BY <1>2, <1>3
<1> DEFINE first == IF ledgers = {} THEN next ELSE Oldest
<1>5. first \in 1 .. next /\ ledgers \union {next} = first .. next /\ Size + 1 = next - first + 1
    BY <1>2, <1>3, <1>4
<1> HIDE DEF first
<1>6. PICK a \in first .. next : /\ TrimLedgers(first .. next, next) = a .. next
                                 /\ a = first \/ a = next + 1 - Retention
    <2>1. next \in Nat
        BY <1>2, <1>4
    <2> QED BY Zenon, <1>5, <2>1, Trimmed
<1>7. a \in 1 .. next /\ ledgers' = a .. next
    <2>1. next \in Nat /\ first \in Nat /\ first >= 1 /\ a \in first .. next
        BY <1>2, <1>4, <1>5, <1>6
    <2>2. a \in 1 .. next
        BY <2>1
    <2> QED BY Zenon, <1>1, <1>5, <1>6, <2>2
<1>8. \/ Size + 1 = next - a + 1 /\ ledgers \subseteq ledgers'
      \/ Size + 1 > next - a + 1 /\ next - a + 1 = Retention
    <2>1. CASE a = first
        BY <1>5, <1>7, <2>1
    <2>2. CASE a # first
        <3>1. a = next + 1 - Retention /\ a > first /\ a \in Nat /\ first \in Nat /\ next \in Nat
            BY <1>4, <1>5, <1>6, <2>2
        <3> QED BY <1>2, <1>5, <3>1
    <2> QED BY <2>1, <2>2
<1> QED BY <1>3, <1>4, <1>7, <1>8

LEMMA CommitLedgerInv == IngestInv /\ CommitLedger => IngestInv'
<1> SUFFICES ASSUME IngestInv, CommitLedger PROVE IngestInv'
    OBVIOUS
<1>1. /\ ingestPc = "commit" /\ ingestPc' = "checkpoint" /\ cache' = IF next > cache THEN next ELSE cache
      /\ UNCHANGED <<net, feeBuckets, feeStart, feesApart, next, tries, request>>
    BY DEF CommitLedger, fees
<1>2. /\ ServiceTyped /\ FeesTyped /\ FeesShape /\ FeesInv /\ CacheIsLatest /\ request \in [Readers -> Answers]
      /\ Retention \in Nat \ {0} /\ FeeRetention \in Nat \ {0} /\ FeeRetention <= Retention
      /\ Latest \in Nat /\ Size \in Nat /\ cache \in Nat
    BY SMTT(60), TypeParts, ConstsOK, Ends DEF IngestInv, Consts, ServiceTyped
<1>3. next \in 1 .. MaxLedger /\ next >= Latest /\ next <= net
    BY CommitStores
<1>4. PICK a \in 1 .. next :
         /\ ledgers' = a .. next
         /\ \/ Size + 1 = next - a + 1
            \/ Size + 1 > next - a + 1 /\ next - a + 1 = Retention
    BY CommitStores
<1>5. /\ Latest' = next /\ Size' = next - a + 1 /\ ledgers' # {} /\ ledgers' \subseteq 1 .. MaxLedger
      /\ Gapless' /\ FoundIsNotAhead' /\ FoundStored'
    BY <1>1, <1>3, <1>4, StoresInterval
<1>6. cache' = next
    BY <1>1, <1>2, <1>3 DEF CacheIsLatest
<1>7. ServiceTyped' /\ FeesTyped' /\ (request \in [Readers -> Answers])'
    BY <1>1, <1>2, <1>3, <1>5, <1>6 DEF ServiceTyped, FeesTyped, Fees, Answers, Pcs
<1>8. IngestTypeOK'
    BY SMTT(60), <1>7 DEF IngestTypeOK, ServiceTyped, FeesTyped, Fees, Pcs, Answers
<1>9. CacheIsLatest' /\ Pointed' /\ FeesShape'
    BY <1>1, <1>2, <1>3, <1>5, <1>6 DEF CacheIsLatest, Pointed, FeesShape
<1>10. Covered(next - a + 1) = Covered(Size + 1)
    BY <1>2, <1>3, <1>4 DEF Covered
<1>11. FeesInv'
    <2> SUFFICES ASSUME ~feesApart
                 PROVE  Len(feeBuckets) = Covered(next - a + 1) /\ FeesEnd(Latest)'
        BY <1>1, <1>5 DEF FeesInv, Covered
    <2>1. Len(feeBuckets) = Covered(Size + 1) /\ FeesEnd(next)
        BY <1>1, <1>2 DEF FeesInv, Serving
    <2> QED BY <1>1, <1>5, <1>10, <2>1 DEF FeesEnd
<1> QED BY <1>5, <1>8, <1>9, <1>11 DEF IngestInv

\* A start without a backfill.
LEMMA InitializeInv == IngestInv /\ MustInitializeStorage => IngestInv'
<1> SUFFICES ASSUME IngestInv, MustInitializeStorage PROVE IngestInv'
    OBVIOUS
<1>1. /\ feeBuckets' = InitialFees /\ feeStart' = InitialStart /\ feesApart' = FALSE /\ cache' = Latest
      /\ ingestPc' = "next" /\ tries' = 0 /\ UNCHANGED <<net, ledgers, next, request>>
    BY DEF MustInitializeStorage
<1>2. /\ ServiceTyped /\ request \in [Readers -> Answers] /\ Latest \in 0 .. MaxLedger /\ MaxRetries \in Nat
      /\ Latest <= net
    BY TypeParts, ConstsOK, Ends DEF IngestInv, Consts, Pointed
<1>3. Latest' = Latest /\ Oldest' = Oldest /\ Size' = Size
    BY <1>1 DEF Latest, Oldest, Size
<1>4. /\ FeesTyped' /\ FeesShape' /\ Len(feeBuckets') = Covered(Size)
      /\ \A k \in 1 .. Len(feeBuckets') :
            feeBuckets'[k].seq = Latest + k - feeStart' - (IF k > feeStart' THEN Len(feeBuckets') ELSE 0)
    BY Zenon, <1>1, InitialFeesRight
<1>5. ServiceTyped' /\ (request \in [Readers -> Answers])'
    BY <1>1, <1>2 DEF ServiceTyped, Pcs, Answers
<1>6. IngestTypeOK'
    BY SMTT(60), <1>4, <1>5 DEF IngestTypeOK, ServiceTyped, FeesTyped, Fees, Pcs, Answers
<1>7. Gapless' /\ CacheIsLatest' /\ FoundIsNotAhead' /\ FoundStored' /\ Pointed'
    BY <1>1, <1>2, <1>3 DEF IngestInv, Gapless, CacheIsLatest, FoundIsNotAhead, FoundStored, Pointed
<1>8. FeesInv'
    BY <1>1, <1>3, <1>4 DEF FeesInv, FeesEnd, Covered
<1> QED BY <1>4, <1>6, <1>7, <1>8 DEF IngestInv

\* A start that backfills: at most the ledgers to be retained, up to a newer head.
LEMMA BackfillStores ==
    ASSUME IngestInv, MustNewWithBackfill
    PROVE  \/ ledgers' = ledgers /\ ledgers = {}
           \/ \E h \in 1 .. MaxLedger : \E a \in 1 .. h :
                 /\ h >= Latest /\ h <= net /\ ledgers' = a .. h
                 /\ ledgers \subseteq ledgers' \/ h - a + 1 = Retention
<1>1. PICK head \in Latest .. net : ledgers' = IF head = 0 THEN {} ELSE Max({1, head + 1 - Retention}) .. head
    BY Zenon DEF MustNewWithBackfill
<1>2. /\ MaxLedger \in Nat /\ Retention \in Nat \ {0} /\ net \in 0 .. MaxLedger /\ Latest \in Nat /\ Oldest \in Nat
      /\ ledgers # {} => 1 <= Oldest /\ Oldest <= Latest /\ ledgers = Oldest .. Latest
    BY SMTT(60), ConstsOK, Ends, TypeParts DEF Consts, IngestInv, ServiceTyped
<1>3. CASE head = 0
    BY <1>1, <1>2, <1>3
<1>4. CASE head # 0
    <2> DEFINE a == IF head + 1 - Retention > 1 THEN head + 1 - Retention ELSE 1
    <2>1. head \in 1 .. MaxLedger /\ a \in 1 .. head /\ head >= Latest /\ head <= net
        BY <1>1, <1>2, <1>4
    <2>2. Max({1, head + 1 - Retention}) = a
        <3>1. a \in {1, head + 1 - Retention} /\ \A y \in {1, head + 1 - Retention} : a >= y
            BY <1>2, <2>1
        <3>2. \A x \in {1, head + 1 - Retention} : (\A y \in {1, head + 1 - Retention} : x >= y) => x = a
            BY <1>2, <2>1
        <3> HIDE DEF a
        <3> QED BY <3>1, <3>2 DEF Max
    <2>3. ledgers' = a .. head
        BY <1>1, <1>4, <2>2
    <2>4. ledgers \subseteq a .. head \/ head - a + 1 = Retention
        BY <1>1, <1>2, <1>4, <2>1
    <2> HIDE DEF a
    <2> QED BY <2>1, <2>3, <2>4
<1> QED BY <1>3, <1>4

LEMMA StartWithBackfillInv == IngestInv /\ MustNewWithBackfill => IngestInv'
<1> SUFFICES ASSUME IngestInv, MustNewWithBackfill PROVE IngestInv'
    OBVIOUS
<1>1. /\ cache' = 0 /\ feeBuckets' = <<>> /\ feeStart' = 0 /\ feesApart' = TRUE
      /\ ingestPc' = "next" /\ tries' = 0 /\ UNCHANGED <<net, next, request>>
    BY DEF MustNewWithBackfill
<1>2. ServiceTyped /\ request \in [Readers -> Answers] /\ MaxRetries \in Nat /\ FeeRetention \in Nat \ {0}
    BY TypeParts, ConstsOK DEF IngestInv, Consts
<1>3. ledgers' \subseteq 1 .. MaxLedger /\ Gapless' /\ FoundIsNotAhead' /\ FoundStored' /\ Latest' <= net
    <2>1. CASE ledgers' = ledgers
        BY SMTT(60), <1>1, <1>2, <2>1 DEF IngestInv, ServiceTyped, Gapless, FoundIsNotAhead, FoundStored, Latest, Oldest, Pointed
    <2>2. ASSUME NEW h \in 1 .. MaxLedger, NEW a \in 1 .. h, h >= Latest, h <= net, ledgers' = a .. h
          PROVE  ledgers' \subseteq 1 .. MaxLedger /\ Gapless' /\ FoundIsNotAhead' /\ FoundStored' /\ Latest' <= net
        BY <1>1, <2>2, StoresInterval
    <2> QED BY <2>1, <2>2, BackfillStores
<1>4. FeesTyped' /\ FeesShape'
    <2>1. <<>> \in Seq(Fees) /\ Len(<<>>) = 0
        OBVIOUS
    <2>2. (feeBuckets \in Seq(Fees))' /\ Len(feeBuckets') = 0
        BY <1>1, <2>1 DEF Fees
    <2>3. 0 <= FeeRetention /\ 0 \in 0 .. FeeRetention - 1
        BY <1>2
    <2> QED BY <1>1, <2>2, <2>3 DEF FeesTyped, FeesShape
<1>5. ServiceTyped' /\ (request \in [Readers -> Answers])'
    BY <1>1, <1>2, <1>3, ConstsOK DEF ServiceTyped, Pcs, Answers, Consts
<1>6. IngestTypeOK'
    BY SMTT(60), <1>4, <1>5 DEF IngestTypeOK, ServiceTyped, FeesTyped, Fees, Pcs, Answers
<1>7. CacheIsLatest' /\ Pointed' /\ FeesInv'
    BY <1>1, <1>3 DEF CacheIsLatest, Pointed, FeesInv
<1> QED BY <1>3, <1>4, <1>6, <1>7 DEF IngestInv

LEMMA CrashInv == IngestInv /\ Crash => IngestInv'
<1> SUFFICES ASSUME IngestInv, Crash PROVE IngestInv'
    OBVIOUS
<1>1. /\ ingestPc' = "down" /\ tries' = 0 /\ next' = 0 /\ cache' = 0 /\ feeBuckets' = <<>> /\ feeStart' = 0
      /\ feesApart' = FALSE /\ request' = [r \in Readers |-> NoRequest] /\ UNCHANGED <<net, ledgers>>
    BY DEF Crash
<1>2. ServiceTyped /\ MaxRetries \in Nat /\ MaxLedger \in Nat /\ FeeRetention \in Nat \ {0} /\ Latest <= net
    BY TypeParts, ConstsOK DEF IngestInv, Consts, Pointed
<1>3. (request \in [Readers -> Answers])' /\ \A r \in Readers : request'[r].at = "idle"
    BY <1>1, <1>2 DEF Answers, NoRequest
<1>4. FeesTyped' /\ FeesShape'
    <2>1. <<>> \in Seq(Fees) /\ Len(<<>>) = 0
        OBVIOUS
    <2>2. (feeBuckets \in Seq(Fees))' /\ Len(feeBuckets') = 0
        BY <1>1, <2>1 DEF Fees
    <2>3. 0 <= FeeRetention /\ 0 \in 0 .. FeeRetention - 1
        BY <1>2
    <2> QED BY Zenon, <1>1, <2>2, <2>3 DEF FeesTyped, FeesShape
<1>5. ServiceTyped'
    BY <1>1, <1>2 DEF ServiceTyped, Pcs
<1>6. IngestTypeOK'
    BY SMTT(60), <1>3, <1>4, <1>5 DEF IngestTypeOK, ServiceTyped, FeesTyped, Fees, Pcs, Answers
<1>7. Gapless' /\ CacheIsLatest' /\ Pointed' /\ FeesInv'
    BY <1>1, <1>2 DEF IngestInv, Gapless, CacheIsLatest, Pointed, FeesInv, Serving, Latest, Oldest
<1>8. FoundIsNotAhead' /\ FoundStored'
    BY <1>3 DEF FoundIsNotAhead, FoundStored
<1> QED BY <1>4, <1>6, <1>7, <1>8 DEF IngestInv

LEMMA NextIngest == IngestInv /\ [IngestNext]_ingestVars => IngestInv'
<1> SUFFICES ASSUME IngestInv, [IngestNext]_ingestVars PROVE IngestInv'
    OBVIOUS
<1>1. CASE CloseLedger
    BY <1>1, CloseLedgerInv
<1>2. CASE Startup
    BY <1>2, InitializeInv, StartWithBackfillInv DEF Startup
<1>3. CASE NextFromDB \/ NextFromArchive \/ EmptyArchives \/ PrepareRange \/ InsertLedger \/ PostCommit
    BY <1>3, MovesOn
<1>4. CASE IngestFees
    BY <1>4, IngestFeesInv
<1>5. CASE CommitLedger
    BY <1>5, CommitLedgerInv
<1>6. feesApart \in BOOLEAN
    BY TypeParts DEF IngestInv, FeesTyped
<1>7. CASE IngestFeesFails
    <2>1. feesApart' = (feesApart \/ ingestPc = "commit")
        BY <1>6, <1>7 DEF IngestFeesFails, fees
    <2> QED BY Zenon, <1>7, <2>1, FailedInv DEF IngestFeesFails, fees, storage, Serving
<1>8. CASE Fault
    <2>1. Serving
        BY <1>8, IngestAssumption DEF Fault, IngestConfig, Serving
    <2> QED BY <1>8, <2>1, FailedInv DEF Fault, storage
<1>9. CASE Crash
    BY <1>9, CrashInv
<1>10. ASSUME NEW r \in Readers, Reader(r) PROVE IngestInv'
    BY <1>10, ReaderInv
<1>11. CASE UNCHANGED ingestVars
    <2>1. UNCHANGED <<net, ledgers, cache, feeBuckets, feeStart, feesApart, ingestPc, next, tries, request>>
        BY <1>11 DEF ingestVars, storage, fees, service
    <2>2. ServiceTyped' /\ Pointed'
        BY <2>1, TypeParts DEF IngestInv, ServiceTyped, Pointed, Latest
    <2> QED BY <1>6, <2>1, <2>2, QuietStep DEF Serving
<1> QED BY <1>1, <1>2, <1>3, <1>4, <1>5, <1>7, <1>8, <1>9, <1>10, <1>11 DEF IngestNext, Service

-----------------------------------------------------------------------------
\* The last bucket of the ring.
LEMMA NewestFees ==
    ASSUME FeesTyped, FeesShape, NEW last \in Nat, FeesEnd(last), Len(feeBuckets) > 0
    PROVE  W!GetLedgerRange.last = last
<1> DEFINE n == Len(feeBuckets)
           s == feeStart
<1>1. n \in Nat \ {0} /\ s \in Nat /\ s < n
    BY ConstsOK DEF Consts, FeesTyped, FeesShape
<1>2. W!GetLedgerRange.last = feeBuckets[((s + (n - 1)) % n) + 1].seq
    BY <1>1 DEF W!GetLedgerRange, W!Get, W!Length
<1>3. \A k \in 1 .. n : feeBuckets[k].seq = last + k - s - (IF k > s THEN n ELSE 0)
    BY DEF FeesEnd
<1> HIDE DEF n, s
<1>4. CASE s = 0
    <2>1. (s + (n - 1)) % n = n - 1
        BY <1>1, <1>4
    <2>2. n \in 1 .. n /\ (n - 1) + 1 = n
        BY <1>1
    <2>3. feeBuckets[n].seq = last + n - s - (IF n > s THEN n ELSE 0)
        BY <1>3, <2>2
    <2>4. last + n - s - (IF n > s THEN n ELSE 0) = last
        BY <1>1, <1>4
    <2> QED BY Zenon, <1>2, <2>1, <2>2, <2>3, <2>4
<1>5. CASE s # 0
    <2>1. (s + (n - 1)) % n = s - 1
        BY <1>1, <1>5
    <2>2. s \in 1 .. n /\ (s - 1) + 1 = s
        BY <1>1, <1>5
    <2>3. feeBuckets[s].seq = last + s - s - (IF s > s THEN n ELSE 0)
        BY <1>3, <2>2
    <2>4. last + s - s - (IF s > s THEN n ELSE 0) = last
        BY <1>1
    <2> QED BY Zenon, <1>2, <2>1, <2>2, <2>3, <2>4
<1> QED BY <1>4, <1>5

LEMMA InvAgrees == IngestInv => Agrees
<1> SUFFICES ASSUME IngestInv PROVE FeesCoverLedgers
    BY DEF IngestInv, Agrees
<1>1. /\ FeesTyped /\ FeesShape /\ FeeRetention \in Nat \ {0} /\ Latest \in Nat /\ Size \in Nat /\ next \in Nat
      /\ MaxLedger \in Nat
    BY TypeParts, ConstsOK, Ends DEF IngestInv, Consts, ServiceTyped
<1>2. ASSUME NEW size \in Nat PROVE Min({FeeRetention, size}) = Covered(size)
    BY <1>1, MinOfTwo DEF Covered
<1> SUFFICES ASSUME Serving, ~feesApart
             PROVE  LET last == IF ingestPc = "commit" THEN next ELSE Latest
                        all  == IF ingestPc = "commit" THEN ledgers \union {next} ELSE ledgers
                    IN  /\ Len(feeBuckets) = Min({FeeRetention, Cardinality(all)})
                        /\ Len(feeBuckets) > 0 => W!GetLedgerRange.last = last
    BY DEF FeesCoverLedgers
<1>3. CASE ingestPc = "commit"
    <2>1. Len(feeBuckets) = Covered(Size + 1) /\ FeesEnd(next)
        BY <1>3 DEF IngestInv, FeesInv
    <2>2. Cardinality(ledgers \union {next}) = Size + 1
        <3>1. IF ledgers = {} THEN next \in 1 .. net ELSE next = Latest + 1
            BY <1>3 DEF IngestInv, Pointed
        <3>2. IsFiniteSet(ledgers) /\ Cardinality(ledgers) = Size
            <4>1. ledgers \subseteq 1 .. MaxLedger
                BY TypeParts DEF IngestInv, ServiceTyped
            <4>2. IsFiniteSet(1 .. MaxLedger)
                BY <1>1, FS_Interval
            <4>3. IsFiniteSet(ledgers)
                BY Zenon, <4>1, <4>2, FS_Subset
            <4> QED BY <4>3, Ends
        <3>3. next \notin ledgers
            <4>1. ledgers # {} => ledgers = Oldest .. Latest /\ Oldest \in Nat
                BY Ends
            <4> QED BY <1>1, <3>1, <4>1
        <3> QED BY <3>2, <3>3, FS_AddElement
    <2>3. Len(feeBuckets) = Min({FeeRetention, Cardinality(ledgers \union {next})})
        <3>1. Size + 1 \in Nat
            BY <1>1
        <3>2. Min({FeeRetention, Size + 1}) = Covered(Size + 1)
            BY <1>2, <3>1
        <3> QED BY Zenon, <2>1, <2>2, <3>2
    <2>4. Len(feeBuckets) > 0 => W!GetLedgerRange.last = next
        BY <1>1, <2>1, NewestFees
    <2> QED BY <1>3, <2>3, <2>4
<1>4. CASE ingestPc # "commit"
    <2>1. Len(feeBuckets) = Covered(Size) /\ FeesEnd(Latest)
        BY <1>4 DEF IngestInv, FeesInv
    <2>2. Len(feeBuckets) = Min({FeeRetention, Cardinality(ledgers)})
        BY <1>1, <1>2, <2>1, Ends
    <2>3. Len(feeBuckets) > 0 => W!GetLedgerRange.last = Latest
        BY <1>1, <2>1, NewestFees
    <2> QED BY <1>4, <2>2, <2>3
<1> QED BY <1>3, <1>4

LEMMA StepTrims == IngestInv /\ [IngestNext]_ingestVars => [TrimsOnlyOld]_ledgers
<1> SUFFICES ASSUME IngestInv, [IngestNext]_ingestVars, ledgers' # ledgers PROVE TrimsOnlyOld
    OBVIOUS
<1>0. Latest \in Nat /\ MaxLedger \in Nat
    BY Ends
<1>1. ASSUME NEW h \in 1 .. MaxLedger, NEW a \in 1 .. h, h >= Latest, ledgers' = a .. h,
             ledgers \subseteq ledgers' \/ h - a + 1 = Retention
      PROVE  TrimsOnlyOld
    <2>1. a \in Nat /\ h \in Nat /\ a <= h
        BY <1>0
    <2>2. Max(a .. h) = h /\ a .. h # {} /\ Cardinality(a .. h) = h - a + 1
        BY Zenon, <2>1, IntervalEnds
    <2>3. Latest' = h /\ Cardinality(ledgers') = h - a + 1
        BY <1>1, <2>2 DEF Latest
    <2>4. ledgers \ ledgers' # {} => Cardinality(ledgers') = Retention
        BY <1>1, <2>3
    <2> QED BY <1>1, <2>3, <2>4 DEF TrimsOnlyOld
<1>2. CASE CommitLedger
    BY <1>1, <1>2, CommitStores
<1>3. CASE MustNewWithBackfill
    BY <1>1, <1>3, BackfillStores
<1>4. \/ CommitLedger \/ MustNewWithBackfill \/ UNCHANGED ledgers
    BY Zenon DEF IngestNext, Startup, Service, Reader, CloseLedger, MustInitializeStorage, NextFromDB, NextFromArchive,
           EmptyArchives, PrepareRange, InsertLedger, IngestFees, IngestFeesFails, PostCommit, Fault, Crash,
           GetTransaction, ReadLedgerRange, ReadLedgerRangeFails, Answered, ingestVars, storage
<1> QED BY <1>2, <1>3, <1>4

\* For any windows, readers, faults and restarts: the database of stellar-rpc holds the
\* latest ledgers without a gap and gives one up only when as many newer ones are there
\* as are to be retained; the cache in front of it names the newest; an answer never
\* reports a latest ledger before that of the transaction it found; and the fee window
\* covers the newest ledgers, unless a backfill or a failed commit set it apart.
THEOREM CachesAlwaysAgree == IngestSpec => CachesAgree
<1>1. IngestInit => IngestInv
    BY InitIngest
<1>2. IngestInv /\ [IngestNext]_ingestVars => IngestInv'
    BY NextIngest
<1>3. IngestInv => Agrees
    BY InvAgrees
<1>4. IngestInv /\ [IngestNext]_ingestVars => [TrimsOnlyOld]_ledgers
    BY StepTrims
<1> QED BY <1>1, <1>2, <1>3, <1>4, PTL DEF IngestSpec, CachesAgree

-----------------------------------------------------------------------------
\* The backfill.  The left edge of the retention window, or of the datastore.
Larger(a, b) == IF a >= b THEN a ELSE b
Edge == Larger(tip - nBackfill + 1, DsFirst)

\* There is nothing to fill up to the checkpoint that frontfill looked at, which is
\* still the last one.
NothingToFill ==
    iteration > 0 /\ PrevCheckpoint(tip) = frontfill.last /\ frontfill.first = frontfill.last + 1

\* The bounds, whatever is stored: no chunk is further back than the window or after
\* the tip.
BoundsValid ==
    /\ fillAt \in {"back", "front", "fill", "verify"} => nBackfill >= 1 /\ nBackfill <= tip
    /\ fillAt = "back" => lBound >= 1 /\ lBound <= Edge /\ chunk < lBound + Window /\ iteration = 0
    /\ fillAt = "front" => frontfill.first >= 1
    /\ fillAt = "fill" => /\ frontfill.last <= tip /\ frontfill.first < frontfill.last /\ chunk >= 1
                          /\ iteration <= 1

\* Nothing is stored yet.
NothingStored ==
    /\ db = {} /\ fillAt # "back"
    /\ fillAt = "bounds" => dbRange = NoRange
    /\ fillAt = "front" => (iteration = 0 /\ frontfill.first <= Edge) \/ NothingToFill
    /\ fillAt = "fill" => chunk = frontfill.first /\ chunk <= Edge

\* The ledgers from lo to hi are stored: backfill goes on just before them, frontfill
\* just after them.
Stored(lo, hi) ==
    /\ lo <= hi /\ db = lo .. hi
    /\ fillAt = "bounds" => dbRange = [first |-> lo, last |-> hi]
    /\ fillAt = "back" => chunk + 1 = lo /\ frontfill.first = hi + 1
    /\ fillAt \in {"front", "fill", "verify"} => lo <= Edge
    /\ fillAt = "front" => \/ frontfill.first = hi + 1 /\ (iteration > 0 => frontfill.last <= hi + 1)
                           \/ NothingToFill /\ frontfill.last <= hi + 1
    /\ fillAt = "fill" => IF chunk <= frontfill.last THEN chunk = hi + 1 ELSE hi = frontfill.last
    /\ fillAt = "verify" => frontfill.last <= hi + 1

BackfillInv ==
    /\ BackfillTypeOK /\ Succeeds /\ BoundsValid
    /\ NothingStored \/ \E lo \in 1 .. tip, hi \in 1 .. MaxTip : Stored(lo, hi)

-----------------------------------------------------------------------------
\* The constants, and the numbers a state is made of.
LEMMA BackfillConstants ==
    /\ Window \in Nat \ {0} /\ Frequency \in Nat \ {0} /\ ChunkSize \in Nat \ {0} /\ RefreshEvery \in Nat \ {0}
    /\ Lag \in Nat /\ MaxTip \in Nat /\ MaxRestarts \in Nat /\ DsFirst \in 1 .. MaxTip
BY BackfillAssumption DEF BackfillConfig

\* In a state of the type.
LEMMA BackfillNumbers ==
    ASSUME BackfillTypeOK
    PROVE  /\ tip \in Nat /\ tip <= MaxTip /\ tip >= Frequency /\ tip >= 1
           /\ nBackfill \in Nat /\ nBackfill <= Window
           /\ lBound \in Nat /\ lBound <= MaxTip /\ chunk \in Nat /\ chunk <= MaxTip + ChunkSize
           /\ chunks \in Nat /\ iteration \in Nat /\ iteration <= 2
           /\ frontfill.first \in Nat /\ frontfill.first <= MaxTip + 1
           /\ frontfill.last \in Nat /\ frontfill.last <= MaxTip
<1>1. /\ tip \in Frequency .. MaxTip /\ nBackfill \in 0 .. Window /\ lBound \in 0 .. MaxTip
      /\ chunk \in 0 .. MaxTip + ChunkSize /\ chunks \in Nat /\ iteration \in 0 .. 2
    BY Zenon DEF BackfillTypeOK
<1>2. frontfill \in [first : 0 .. MaxTip + 1, last : 0 .. MaxTip]
    BY Zenon DEF BackfillTypeOK
<1>3. frontfill.first \in 0 .. MaxTip + 1 /\ frontfill.last \in 0 .. MaxTip
    BY <1>2
<1> QED BY <1>1, <1>3, BackfillConstants

\* Least and greatest elements of pairs.
LEMMA OfPair ==
    ASSUME NEW a \in Int, NEW b \in Int
    PROVE  Max({a, b}) = Larger(a, b) /\ Min({a, b}) = (IF a <= b THEN a ELSE b)
<1>1. \A m \in {a, b} : (\A y \in {a, b} : m >= y) => m = Larger(a, b)
    BY DEF Larger
<1>2. Larger(a, b) \in {a, b} /\ \A y \in {a, b} : Larger(a, b) >= y
    BY DEF Larger
<1>3. Max({a, b}) = Larger(a, b)
    BY Zenon, <1>1, <1>2 DEF Max
<1>4. \A m \in {a, b} : (\A y \in {a, b} : m <= y) => m = (IF a <= b THEN a ELSE b)
    OBVIOUS
<1>5. (IF a <= b THEN a ELSE b) \in {a, b} /\ \A y \in {a, b} : (IF a <= b THEN a ELSE b) <= y
    OBVIOUS
<1>6. Min({a, b}) = (IF a <= b THEN a ELSE b)
    BY Zenon, <1>4, <1>5 DEF Min
<1> QED BY Zenon, <1>3, <1>6

\* The same for intervals.
LEMMA OfInterval ==
    ASSUME NEW lo \in Int, NEW hi \in Int, lo <= hi
    PROVE  Min(lo .. hi) = lo /\ Max(lo .. hi) = hi /\ lo .. hi # {} /\ DbGapless(lo .. hi)
<1>1. \A m \in lo .. hi : (\A y \in lo .. hi : m >= y) => m = hi
    OBVIOUS
<1>2. hi \in lo .. hi /\ lo \in lo .. hi /\ \A y \in lo .. hi : hi >= y /\ lo <= y
    OBVIOUS
<1>3. Max(lo .. hi) = hi
    BY Zenon, <1>1, <1>2 DEF Max
<1>4. \A m \in lo .. hi : (\A y \in lo .. hi : m <= y) => m = lo
    OBVIOUS
<1>5. Min(lo .. hi) = lo
    BY Zenon, <1>2, <1>4 DEF Min
<1>6. Cardinality(lo .. hi) = hi - lo + 1
    BY FS_Interval
<1> QED BY SMTT(60), <1>2, <1>3, <1>5, <1>6 DEF DbGapless

\* A multiple of b that is at most a.
LEMMA QuotientBound ==
    ASSUME NEW a \in Nat, NEW b \in Nat \ {0}, a >= b
    PROVE  (a \div b) * b \in 1 .. a
<1> DEFINE q == a \div b
<1>1. q \in Int /\ a = b * q + (a % b) /\ a % b \in 0 .. b - 1
    BY SMTT(60)
<1> HIDE DEF q
<1>2. b * q <= a /\ b * q > a - b
    BY <1>1
<1>3. b * q = q * b /\ q * b \in Int
    BY <1>1
<1>4. q * b <= a /\ q * b > a - b
    BY <1>2, <1>3
<1> QED BY <1>3, <1>4 DEF q

\* The last checkpoint is not after the tip.
LEMMA CheckpointBound ==
    ASSUME BackfillTypeOK PROVE PrevCheckpoint(tip) \in 0 .. tip
<1>1. tip \in Nat /\ Frequency \in Nat \ {0} /\ tip >= Frequency
    BY BackfillNumbers, BackfillConstants
<1>2. ((tip + 1) \div Frequency) * Frequency \in 1 .. tip + 1
    BY <1>1, QuotientBound
<1>3. PrevCheckpoint(tip) = ((tip + 1) \div Frequency) * Frequency - 1
    BY <1>1 DEF PrevCheckpoint
<1> QED BY <1>1, <1>2, <1>3

\* Trimming an interval that ends where the chunk ends, or after it.
LEMMA TrimInterval ==
    ASSUME NEW lo \in Nat \ {0}, NEW hi \in Nat, NEW latest \in lo .. hi
    PROVE  TrimOlder(lo .. hi, latest) = Larger(lo, latest + 1 - Window) .. hi
<1>1. Window \in Nat \ {0}
    BY BackfillConstants
<1>2. CASE latest + 1 <= Window
    <2>1. TrimOlder(lo .. hi, latest) = lo .. hi
        BY Zenon, <1>2 DEF TrimOlder
    <2>2. Larger(lo, latest + 1 - Window) = lo
        BY <1>1, <1>2 DEF Larger
    <2> QED BY Zenon, <2>1, <2>2
<1>3. CASE ~(latest + 1 <= Window)
    <2>1. TrimOlder(lo .. hi, latest) = {l \in lo .. hi : l >= latest + 1 - Window}
        BY Zenon, <1>3 DEF TrimOlder
    <2>2. Larger(lo, latest + 1 - Window) \in Int
        BY <1>1 DEF Larger
    <2>3. ASSUME NEW l \in Int
          PROVE  l >= lo /\ l >= latest + 1 - Window <=> l >= Larger(lo, latest + 1 - Window)
        BY <1>1 DEF Larger
    <2>4. \A l : l \in {k \in lo .. hi : k >= latest + 1 - Window} <=> l \in Larger(lo, latest + 1 - Window) .. hi
        BY <2>2, <2>3
    <2> QED BY Zenon, <2>1, <2>4
<1> QED BY Zenon, <1>2, <1>3
-----------------------------------------------------------------------------
\* The invariant gives what the property asks for.
LEMMA BackfillInvImplies == BackfillInv => BackfillResumes
<1> SUFFICES ASSUME BackfillInv PROVE BackfillResumes
    OBVIOUS
<1>1. BackfillTypeOK /\ Succeeds
    BY Zenon DEF BackfillInv
<1>2. tip - nBackfill + 1 \in Int /\ DsFirst \in Int /\ frontfill.last \in Int
    BY <1>1, BackfillNumbers, BackfillConstants
<1>3. Max({tip - nBackfill + 1, DsFirst}) = Edge
    BY Zenon, <1>2, OfPair DEF Edge
<1>4. CASE NothingStored
    <2>1. db = {}
        BY Zenon, <1>4 DEF NothingStored
    <2> QED BY Zenon, <1>1, <2>1 DEF BackfillResumes, DbNoGap, DbGapless, ReachesBack, NearCheckpoint
<1>5. ASSUME NEW lo \in 1 .. tip, NEW hi \in 1 .. MaxTip, Stored(lo, hi) PROVE BackfillResumes
    <2>1. lo \in Int /\ hi \in Int /\ lo <= hi /\ db = lo .. hi
        BY <1>5 DEF Stored
    <2>2. Min(db) = lo /\ Max(db) = hi /\ DbGapless(db)
        BY Zenon, <2>1, OfInterval
    <2>3. ReachesBack
        BY Zenon, <1>3, <1>5, <2>2 DEF ReachesBack, Stored
    <2>4. frontfill.last <= hi + 1 => hi >= frontfill.last - 1
        BY <1>2, <2>1
    <2>5. NearCheckpoint
        BY <1>5, <2>2, <2>4 DEF NearCheckpoint, Stored
    <2> QED BY Zenon, <1>1, <2>2, <2>3, <2>5 DEF BackfillResumes, DbNoGap
<1> QED BY Zenon, <1>4, <1>5 DEF BackfillInv

\* It holds at first.
LEMMA BackfillInitInv == BackfillInit => BackfillInv
<1> SUFFICES ASSUME BackfillInit PROVE BackfillInv
    OBVIOUS
<1>1. tip \in Frequency .. MaxTip /\ db = {} /\ fillAt = "down"
    BY Zenon DEF BackfillInit
<1>2. NoRange \in [first : 0 .. MaxTip + 1, last : 0 .. MaxTip]
    BY BackfillConstants DEF NoRange
<1>3. BackfillTypeOK
    BY <1>2, BackfillConstants DEF BackfillInit, BackfillTypeOK
<1> QED BY <1>1, <1>3 DEF BackfillInv, Succeeds, BoundsValid, NothingStored

\* NewBackfillMeta reads the ends of what is stored.
LEMMA NewBackfillMetaInv ==
    ASSUME BackfillInv, NewBackfillMeta PROVE BackfillInv'
<1>1. /\ fillAt = "down" /\ dbRange' = RangeOf(db) /\ fillAt' = IF DbGapless(db) THEN "bounds" ELSE "fatal"
      /\ UNCHANGED <<tip, db, backfill, frontfill, nBackfill, lBound, chunk, chunks, iteration, restarts>>
    BY Zenon DEF NewBackfillMeta, bounds, loop
<1>2. BackfillTypeOK
    BY Zenon DEF BackfillInv
<1>3. CASE NothingStored
    <2>1. db = {} /\ RangeOf(db) = NoRange /\ DbGapless(db)
        BY Zenon, <1>3 DEF NothingStored, RangeOf, DbGapless
    <2>2. NoRange \in [first : 0 .. MaxTip + 1, last : 0 .. MaxTip]
        BY BackfillConstants DEF NoRange
    <2>3. fillAt' = "bounds" /\ dbRange' = NoRange /\ db' = {}
        BY Zenon, <1>1, <2>1
    <2>4. BackfillTypeOK'
        BY <1>1, <1>2, <2>2, <2>3 DEF BackfillTypeOK
    <2> QED BY <2>3, <2>4 DEF BackfillInv, Succeeds, BoundsValid, NothingStored
<1>4. ASSUME NEW lo \in 1 .. tip, NEW hi \in 1 .. MaxTip, Stored(lo, hi) PROVE BackfillInv'
    <2>1. lo \in Int /\ hi \in Int /\ lo <= hi /\ db = lo .. hi
        BY <1>4 DEF Stored
    <2>2. Min(db) = lo /\ Max(db) = hi /\ DbGapless(db) /\ db # {}
        BY Zenon, <2>1, OfInterval
    <2>3. fillAt' = "bounds" /\ dbRange' = [first |-> lo, last |-> hi] /\ db' = db
        BY Zenon, <1>1, <2>2 DEF RangeOf
    <2>4. [first |-> lo, last |-> hi] \in [first : 0 .. MaxTip + 1, last : 0 .. MaxTip]
        BY <1>2, BackfillNumbers, BackfillConstants
    <2>5. BackfillTypeOK'
        BY <1>1, <1>2, <2>3, <2>4 DEF BackfillTypeOK
    <2>6. Stored(lo, hi)'
        BY <2>1, <2>3 DEF Stored
    <2>7. Succeeds' /\ BoundsValid'
        BY <2>3 DEF Succeeds, BoundsValid
    <2> QED BY Zenon, <1>1, <2>5, <2>6, <2>7 DEF BackfillInv
<1> QED BY Zenon, <1>3, <1>4 DEF BackfillInv
\* A process that is down, or has gone on to live ingestion, relies on the stored ledgers only.
LEMMA StopsInv ==
    ASSUME BackfillInv, UNCHANGED <<tip, db>>, fillAt' \in {"down", "live"}, BackfillTypeOK'
    PROVE  BackfillInv'
<1>1. Succeeds' /\ BoundsValid'
    BY DEF Succeeds, BoundsValid
<1>2. CASE NothingStored
    <2>1. NothingStored'
        BY <1>2 DEF NothingStored
    <2> QED BY Zenon, <1>1, <2>1 DEF BackfillInv
<1>3. ASSUME NEW lo \in 1 .. tip, NEW hi \in 1 .. MaxTip, Stored(lo, hi) PROVE BackfillInv'
    <2>1. Stored(lo, hi)'
        BY <1>3 DEF Stored
    <2> QED BY Zenon, <1>1, <2>1 DEF BackfillInv
<1> QED BY Zenon, <1>2, <1>3 DEF BackfillInv

\* The process starts without a backfill.
LEMMA StartWithoutBackfillInv ==
    ASSUME BackfillInv, StartWithoutBackfill PROVE BackfillInv'
<1>1. /\ fillAt' = "live"
      /\ UNCHANGED <<tip, db, dbRange, backfill, frontfill, nBackfill, lBound, chunk, chunks, iteration, restarts>>
    BY Zenon DEF StartWithoutBackfill, bounds, loop
<1>2. BackfillTypeOK'
    BY <1>1 DEF BackfillInv, BackfillTypeOK
<1> QED BY <1>1, <1>2, StopsInv

\* The process ends anywhere.
LEMMA RestartBackfillInv ==
    ASSUME BackfillInv, Restart PROVE BackfillInv'
<1>1. /\ fillAt' = "down" /\ restarts < MaxRestarts /\ restarts' = restarts + 1
      /\ dbRange' = NoRange /\ backfill' = NoRange /\ frontfill' = NoRange /\ nBackfill' = 0
      /\ lBound' = 0 /\ chunk' = 0 /\ chunks' = 0 /\ iteration' = 0 /\ UNCHANGED <<tip, db>>
    BY Zenon DEF Restart
<1>2. NoRange \in [first : 0 .. MaxTip + 1, last : 0 .. MaxTip]
    BY BackfillConstants DEF NoRange
<1>3. restarts' \in 0 .. MaxRestarts
    <2>1. restarts \in 0 .. MaxRestarts
        BY Zenon DEF BackfillInv, BackfillTypeOK
    <2> QED BY <1>1, <2>1, BackfillConstants
<1>4. tip \in Frequency .. MaxTip /\ db \subseteq 1 .. MaxTip
    BY Zenon DEF BackfillInv, BackfillTypeOK
<1>5. 0 \in 0 .. Window /\ 0 \in 0 .. MaxTip /\ 0 \in 0 .. MaxTip + ChunkSize
    BY BackfillConstants
<1>6. BackfillTypeOK'
    BY <1>1, <1>2, <1>3, <1>4, <1>5 DEF BackfillTypeOK
<1> QED BY <1>1, <1>6, StopsInv

\* The last check passes.
LEMMA VerifyDbGaplessInv ==
    ASSUME BackfillInv, VerifyDbGapless PROVE BackfillInv'
<1>1. /\ fillAt' = IF DbGapless(db) THEN "live" ELSE "fatal"
      /\ UNCHANGED <<tip, db, dbRange, backfill, frontfill, nBackfill, lBound, chunk, chunks, iteration, restarts>>
    BY Zenon DEF VerifyDbGapless, bounds, loop
<1>2. DbGapless(db)
    BY Zenon, BackfillInvImplies DEF BackfillResumes, DbNoGap
<1>3. fillAt' = "live"
    BY Zenon, <1>1, <1>2
<1>4. BackfillTypeOK'
    BY <1>1, <1>3 DEF BackfillInv, BackfillTypeOK
<1> QED BY <1>1, <1>3, <1>4, StopsInv

\* setBounds begins at the left edge.
LEMMA StartIsEdge ==
    ASSUME BackfillTypeOK, NEW n, n = Min({Window, tip})
    PROVE  /\ n \in 1 .. Window /\ n <= tip
           /\ FillStartMin(n) = Larger(tip - n + 1, DsFirst) /\ FillStartMin(n) \in 1 .. MaxTip
           /\ FillStartMin(n) > tip - Window
<1>1. tip \in Nat /\ tip <= MaxTip /\ tip >= 1 /\ Window \in Nat \ {0} /\ MaxTip \in Nat /\ DsFirst \in 1 .. MaxTip
    BY BackfillNumbers, BackfillConstants
<1>2. n = IF Window <= tip THEN Window ELSE tip
    BY SMTT(60), <1>1, OfPair
<1>3. n \in 1 .. Window /\ n <= tip
    BY <1>1, <1>2
<1>4. Max({tip - n + 1, DsFirst}) = Larger(tip - n + 1, DsFirst)
    BY <1>1, <1>3, OfPair
<1>5. ~(tip >= n + 1) => Larger(tip - n + 1, DsFirst) = DsFirst
    BY <1>1, <1>3 DEF Larger
<1>6. FillStartMin(n) = Larger(tip - n + 1, DsFirst)
    BY Zenon, <1>4, <1>5 DEF FillStartMin
<1>7. Larger(tip - n + 1, DsFirst) \in 1 .. MaxTip /\ Larger(tip - n + 1, DsFirst) > tip - Window
    BY <1>1, <1>3 DEF Larger
<1> QED BY <1>3, <1>6, <1>7

\* setBounds, by what is stored.
LEMMA SetBoundsInv ==
    ASSUME BackfillInv, SetBounds PROVE BackfillInv'
<1> DEFINE n == Min({Window, tip})
           start == FillStartMin(n)
<1>1. /\ fillAt = "bounds" /\ nBackfill' = n
      /\ lBound' = backfill'.first /\ chunk' = backfill'.last /\ chunks' = 0 /\ iteration' = 0
      /\ UNCHANGED <<tip, db, dbRange, restarts>>
    BY Zenon DEF SetBounds
<1>2. \/ /\ dbRange = NoRange
         /\ frontfill' = [first |-> start, last |-> 0] /\ backfill' = NoRange /\ fillAt' = "front"
      \/ /\ dbRange # NoRange /\ dbRange.first <= start
         /\ frontfill' = [first |-> dbRange.last + 1, last |-> 0] /\ backfill' = NoRange /\ fillAt' = "front"
      \/ /\ dbRange.first > start /\ tip >= dbRange.first
         /\ backfill' = [first |-> start, last |-> dbRange.first - 1]
         /\ frontfill' = [first |-> dbRange.last + 1, last |-> 0] /\ fillAt' = "back"
      \/ dbRange.first > start /\ tip < dbRange.first
    BY Zenon, <1>1 DEF SetBounds
<1>3. BackfillTypeOK
    BY Zenon DEF BackfillInv
<1>4. /\ n \in 1 .. Window /\ n <= tip /\ start = Larger(tip - n + 1, DsFirst)
      /\ start \in 1 .. MaxTip /\ start > tip - Window
    BY Zenon, <1>3, StartIsEdge
<1> HIDE DEF n, start
<1>5. Edge' = start
    BY Zenon, <1>1, <1>4 DEF Edge
<1>6. /\ tip \in Nat /\ tip <= MaxTip /\ MaxTip \in Nat /\ Window \in Nat \ {0} /\ ChunkSize \in Nat \ {0}
      /\ n \in Nat /\ n >= 1 /\ start \in Nat /\ start >= 1 /\ start <= MaxTip
    BY <1>3, <1>4, BackfillNumbers, BackfillConstants
<1>7. ASSUME backfill' \in [first : 0 .. MaxTip, last : 0 .. MaxTip],
             frontfill' \in [first : 0 .. MaxTip + 1, last : 0 .. MaxTip], fillAt' \in {"front", "back"}
      PROVE  BackfillTypeOK'
    <2>1. /\ tip \in Frequency .. MaxTip /\ db \subseteq 1 .. MaxTip /\ restarts \in 0 .. MaxRestarts
          /\ dbRange \in [first : 0 .. MaxTip + 1, last : 0 .. MaxTip]
        BY Zenon, <1>3 DEF BackfillTypeOK
    <2>2. backfill' \in [first : 0 .. MaxTip + 1, last : 0 .. MaxTip]
        BY <1>6, <1>7
    <2>3. lBound' \in 0 .. MaxTip /\ chunk' \in 0 .. MaxTip + ChunkSize
        BY <1>1, <1>6, <1>7
    <2>4. n \in 0 .. Window
        BY <1>4, <1>6
    <2> QED BY <1>1, <1>7, <2>1, <2>2, <2>3, <2>4 DEF BackfillTypeOK
<1>8. NoRange \in [first : 0 .. MaxTip, last : 0 .. MaxTip] /\ NoRange.first = 0
    BY <1>6 DEF NoRange
<1>9. CASE NothingStored
    <2>1. db = {} /\ dbRange = NoRange
        BY Zenon, <1>1, <1>9 DEF NothingStored
    <2>2. ~(dbRange.first > start)
        BY <1>6, <1>8, <2>1
    <2>3. frontfill' = [first |-> start, last |-> 0] /\ backfill' = NoRange /\ fillAt' = "front"
        BY Zenon, <1>2, <2>1, <2>2
    <2>4. frontfill' \in [first : 0 .. MaxTip + 1, last : 0 .. MaxTip] /\ frontfill'.first = start
        BY <1>6, <2>3
    <2>5. BackfillTypeOK'
        BY <1>7, <1>8, <2>3, <2>4
    <2>6. Succeeds' /\ BoundsValid' /\ NothingStored'
        BY <1>1, <1>4, <1>5, <1>6, <2>1, <2>3, <2>4 DEF Succeeds, BoundsValid, NothingStored
    <2> QED BY Zenon, <2>5, <2>6 DEF BackfillInv
<1>10. ASSUME NEW lo \in 1 .. tip, NEW hi \in 1 .. MaxTip, Stored(lo, hi) PROVE BackfillInv'
    <2>1. lo <= hi /\ db = lo .. hi /\ dbRange = [first |-> lo, last |-> hi]
        BY Zenon, <1>1, <1>10 DEF Stored
    <2>2. dbRange.first = lo /\ dbRange.last = hi /\ dbRange # NoRange
        BY <1>8, <2>1
    <2>3. lo \in Nat /\ lo >= 1 /\ hi \in Nat /\ hi <= MaxTip /\ lo <= tip
        BY <1>6
    <2>4. CASE lo <= start /\ frontfill' = [first |-> hi + 1, last |-> 0] /\ backfill' = NoRange /\ fillAt' = "front"
        <3>1. frontfill' \in [first : 0 .. MaxTip + 1, last : 0 .. MaxTip] /\ frontfill'.first = hi + 1
            BY <1>6, <2>3, <2>4
        <3>2. BackfillTypeOK'
            BY <1>7, <1>8, <2>4, <3>1
        <3>3. Succeeds' /\ BoundsValid'
            BY <1>1, <1>4, <1>6, <2>3, <2>4, <3>1 DEF Succeeds, BoundsValid
        <3>4. Stored(lo, hi)'
            BY <1>1, <1>5, <2>1, <2>4, <3>1 DEF Stored
        <3> QED BY Zenon, <1>1, <3>2, <3>3, <3>4 DEF BackfillInv
    <2>5. CASE /\ lo > start /\ backfill' = [first |-> start, last |-> lo - 1]
               /\ frontfill' = [first |-> hi + 1, last |-> 0] /\ fillAt' = "back"
        <3>1. frontfill' \in [first : 0 .. MaxTip + 1, last : 0 .. MaxTip] /\ frontfill'.first = hi + 1
            BY <1>6, <2>3, <2>5
        <3>2. backfill' \in [first : 0 .. MaxTip, last : 0 .. MaxTip] /\ lBound' = start /\ chunk' = lo - 1
            BY <1>1, <1>6, <2>3, <2>5
        <3>3. BackfillTypeOK'
            BY <1>7, <2>5, <3>1, <3>2
        <3>4. start <= start /\ lo - 1 < start + Window /\ lo - 1 + 1 = lo
            BY <1>4, <1>6, <2>3
        <3>5. Succeeds' /\ BoundsValid'
            BY <1>1, <1>4, <1>5, <1>6, <2>5, <3>2, <3>4 DEF Succeeds, BoundsValid
        <3>6. Stored(lo, hi)'
            BY <1>1, <2>1, <2>5, <3>1, <3>2, <3>4 DEF Stored
        <3> QED BY Zenon, <1>1, <3>3, <3>5, <3>6 DEF BackfillInv
    <2>6. ~(tip < lo)
        BY <1>6, <2>3
    <2> QED BY Zenon, <1>2, <2>2, <2>4, <2>5, <2>6
<1> QED BY Zenon, <1>9, <1>10 DEF BackfillInv
\* The left edge does not move back.
LEMMA EdgeBound ==
    ASSUME BackfillTypeOK, nBackfill >= 1
    PROVE  Edge \in 1 .. MaxTip /\ Edge >= tip - Window + 1
<1>1. /\ tip \in Nat /\ tip <= MaxTip /\ nBackfill \in Nat /\ nBackfill <= Window /\ Window \in Nat
      /\ MaxTip \in Nat /\ DsFirst \in 1 .. MaxTip
    BY BackfillNumbers, BackfillConstants
<1> QED BY <1>1 DEF Edge, Larger

\* backfillChunks: the chunk is not trimmed, and joins the stored ledgers.
LEMMA BackfillChunkInv ==
    ASSUME BackfillInv, BackfillChunk PROVE BackfillInv'
<1>0. PICK left : left = LeftChunkBound
    OBVIOUS
<1>1. /\ fillAt = "back" /\ chunk >= lBound /\ db' = TrimOlder(db \union (left .. chunk), chunk)
      /\ UNCHANGED <<tip, dbRange, backfill, frontfill, nBackfill, iteration, restarts>>
    BY Zenon, <1>0 DEF BackfillChunk, IngestRange, bounds
<1>2. \/ left <= lBound /\ fillAt' = "front" /\ UNCHANGED <<lBound, chunk, chunks>>
      \/ ~(left <= lBound) /\ fillAt' = "back" /\ chunk' = left - 1 /\ lBound' = RefreshedBound /\ chunks' = chunks + 1
    BY Zenon, <1>0, <1>1 DEF BackfillChunk
<1>3. BackfillTypeOK /\ BoundsValid
    BY Zenon DEF BackfillInv
<1>4. /\ nBackfill >= 1 /\ nBackfill <= tip
      /\ lBound >= 1 /\ lBound <= Edge /\ chunk < lBound + Window /\ iteration = 0
    BY <1>1, <1>3 DEF BoundsValid
<1>5. /\ tip \in Nat /\ tip <= MaxTip /\ MaxTip \in Nat /\ Window \in Nat \ {0} /\ ChunkSize \in Nat \ {0}
      /\ lBound \in Nat /\ chunk \in Nat /\ chunks \in Nat /\ lBound <= MaxTip /\ chunk <= MaxTip + ChunkSize
      /\ nBackfill \in Nat /\ DsFirst \in Int
    BY <1>3, BackfillNumbers, BackfillConstants
<1>6. Edge \in 1 .. MaxTip
    BY Zenon, <1>3, <1>4, EdgeBound
<1>7. PICK lo \in 1 .. tip, hi \in 1 .. MaxTip : Stored(lo, hi)
    BY Zenon, <1>1 DEF BackfillInv, NothingStored
<1>8. lo <= hi /\ db = lo .. hi /\ chunk + 1 = lo /\ frontfill.first = hi + 1
    BY <1>1, <1>7 DEF Stored
<1>9. lo \in Nat /\ hi \in Nat /\ lo <= tip
    BY <1>5
<1>10. left \in lBound .. chunk
    <2>1. Max({lBound, chunk - ChunkSize + 1}) = Larger(lBound, chunk - ChunkSize + 1)
        BY <1>5, OfPair
    <2>2. left = IF chunk >= lBound + ChunkSize - 1 THEN Larger(lBound, chunk - ChunkSize + 1) ELSE lBound
        BY Zenon, <1>0, <2>1 DEF LeftChunkBound
    <2> QED BY <1>1, <1>5, <2>2 DEF Larger
<1>11. left \in Nat \ {0} /\ left <= hi /\ left <= tip /\ chunk \in left .. hi /\ left >= chunk + 1 - Window
    BY <1>4, <1>5, <1>8, <1>9, <1>10
<1>12. db' = left .. hi
    <2>1. db \union (left .. chunk) = left .. hi
        BY <1>5, <1>8, <1>9, <1>11
    <2>2. TrimOlder(left .. hi, chunk) = Larger(left, chunk + 1 - Window) .. hi
        BY Zenon, <1>9, <1>11, TrimInterval
    <2>3. Larger(left, chunk + 1 - Window) = left
        BY Zenon, <1>11 DEF Larger
    <2> QED BY Zenon, <1>1, <2>1, <2>2, <2>3
<1>13. db' \subseteq 1 .. MaxTip
    BY <1>5, <1>9, <1>11, <1>12
<1>14. Edge' = Edge /\ left \in 1 .. tip'
    BY <1>1, <1>5, <1>11 DEF Edge
<1>15. CASE left <= lBound /\ fillAt' = "front" /\ UNCHANGED <<lBound, chunk, chunks>>
    <2>1. BackfillTypeOK'
        BY SMTT(60), <1>1, <1>3, <1>13, <1>15 DEF BackfillTypeOK
    <2>2. Succeeds' /\ BoundsValid'
        BY <1>1, <1>4, <1>8, <1>9, <1>15 DEF Succeeds, BoundsValid
    <2>3. left <= Edge
        BY <1>4, <1>5, <1>6, <1>11, <1>15
    <2>4. Stored(left, hi)'
        BY <1>1, <1>4, <1>8, <1>11, <1>12, <1>14, <1>15, <2>3 DEF Stored
    <2> QED BY Zenon, <1>14, <2>1, <2>2, <2>4 DEF BackfillInv
<1>16. CASE ~(left <= lBound) /\ fillAt' = "back" /\ chunk' = left - 1 /\ lBound' = RefreshedBound /\ chunks' = chunks + 1
    <2>1. Max({tip - nBackfill + 1, DsFirst}) = Edge
        BY <1>5, OfPair DEF Edge
    <2>2. RefreshedBound \in {Edge, lBound}
        BY Zenon, <2>1 DEF RefreshedBound
    <2>3. lBound' \in Nat /\ lBound' >= lBound /\ lBound' <= Edge
        BY <1>4, <1>5, <1>6, <1>16, <2>2
    <2>4. chunk' \in 0 .. MaxTip + ChunkSize /\ chunk' < lBound' + Window /\ chunk' + 1 = left /\ lBound' \in 0 .. MaxTip
          /\ lBound' >= 1
        BY <1>4, <1>5, <1>6, <1>10, <1>11, <1>16, <2>3
    <2>5. chunks' \in Nat
        BY <1>5, <1>16
    <2>6. BackfillTypeOK'
        BY SMTT(60), <1>1, <1>3, <1>13, <1>16, <2>4, <2>5 DEF BackfillTypeOK
    <2>7. Succeeds' /\ BoundsValid'
        BY <1>1, <1>4, <1>14, <1>16, <2>3, <2>4 DEF Succeeds, BoundsValid
    <2>8. Stored(left, hi)'
        BY <1>1, <1>8, <1>11, <1>12, <1>16, <2>4 DEF Stored
    <2> QED BY Zenon, <1>14, <2>6, <2>7, <2>8 DEF BackfillInv
<1> QED BY Zenon, <1>2, <1>15, <1>16

\* The left bound has overtaken the loop.
LEMMA BackfillOvertakenInv ==
    ASSUME BackfillInv, BackfillOvertaken PROVE BackfillInv'
<1>1. /\ fillAt = "back" /\ chunk < lBound /\ fillAt' = "front"
      /\ UNCHANGED <<tip, db, dbRange, backfill, frontfill, nBackfill, lBound, chunk, chunks, iteration, restarts>>
    BY Zenon DEF BackfillOvertaken, bounds, loop
<1>2. BackfillTypeOK /\ BoundsValid
    BY Zenon DEF BackfillInv
<1>3. nBackfill >= 1 /\ nBackfill <= tip /\ lBound <= Edge /\ iteration = 0
    BY <1>1, <1>2 DEF BoundsValid
<1>4. PICK lo \in 1 .. tip, hi \in 1 .. MaxTip : Stored(lo, hi)
    BY Zenon, <1>1 DEF BackfillInv, NothingStored
<1>5. lo <= hi /\ db = lo .. hi /\ chunk + 1 = lo /\ frontfill.first = hi + 1
    BY <1>1, <1>4 DEF Stored
<1>6. lo <= Edge /\ frontfill.first >= 1
    <2>1. Edge \in 1 .. MaxTip
        BY Zenon, <1>2, <1>3, EdgeBound
    <2>2. lBound \in Int /\ chunk \in Int /\ tip \in Int /\ MaxTip \in Int
        BY <1>2, BackfillNumbers, BackfillConstants
    <2> QED BY <1>1, <1>3, <1>5, <2>1, <2>2
<1>7. Edge' = Edge
    BY Zenon, <1>1 DEF Edge
<1>8. BackfillTypeOK'
    BY <1>1, <1>2 DEF BackfillTypeOK
<1>9. Succeeds' /\ BoundsValid'
    BY <1>1, <1>3, <1>6 DEF Succeeds, BoundsValid
<1>10. Stored(lo, hi)'
    BY <1>1, <1>3, <1>5, <1>6, <1>7 DEF Stored
<1> QED BY Zenon, <1>1, <1>8, <1>9, <1>10 DEF BackfillInv
\* runFrontfill looks at the tip.
LEMMA StartIterationInv ==
    ASSUME BackfillInv, StartIteration PROVE BackfillInv'
<1>0. PICK last : last = PrevCheckpoint(tip)
    OBVIOUS
<1>1. /\ fillAt = "front" /\ iteration < NumIterations
      /\ UNCHANGED <<tip, db, dbRange, backfill, nBackfill, lBound, chunks, restarts>>
    BY Zenon DEF StartIteration
<1>2. \/ /\ frontfill.first < last /\ frontfill' = [frontfill EXCEPT !.last = last]
         /\ chunk' = frontfill.first /\ fillAt' = "fill" /\ iteration' = iteration
      \/ /\ ~(frontfill.first < last) /\ frontfill' = [first |-> last + 1, last |-> last]
         /\ iteration' = iteration + 1 /\ UNCHANGED <<chunk, fillAt>>
    BY Zenon, <1>0 DEF StartIteration, NeedsFill
<1>3. BackfillTypeOK /\ BoundsValid
    BY Zenon DEF BackfillInv
<1>4. nBackfill >= 1 /\ nBackfill <= tip /\ frontfill.first >= 1
    BY <1>1, <1>3 DEF BoundsValid
<1>5. /\ tip \in Nat /\ tip <= MaxTip /\ MaxTip \in Nat /\ ChunkSize \in Nat \ {0}
      /\ frontfill.first \in Nat /\ frontfill.first <= MaxTip + 1 /\ frontfill.last \in Nat /\ iteration \in Nat
    BY <1>3, BackfillNumbers, BackfillConstants
<1>6. last \in 0 .. tip
    BY Zenon, <1>0, <1>3, CheckpointBound
<1>7. last \in Nat /\ last <= tip /\ last \in 0 .. MaxTip /\ last + 1 \in 0 .. MaxTip + 1
    BY <1>5, <1>6
<1>8. iteration + 1 \in 0 .. 2 /\ iteration <= 1
    BY <1>1, <1>5 DEF NumIterations
<1>9. Edge' = Edge
    BY Zenon, <1>1 DEF Edge
<1>10. frontfill \in [first : 0 .. MaxTip + 1, last : 0 .. MaxTip]
    BY Zenon, <1>3 DEF BackfillTypeOK
<1>11. CASE /\ frontfill.first < last /\ frontfill' = [frontfill EXCEPT !.last = last]
            /\ chunk' = frontfill.first /\ fillAt' = "fill" /\ iteration' = iteration
    <2>1. /\ frontfill' \in [first : 0 .. MaxTip + 1, last : 0 .. MaxTip]
          /\ frontfill'.first = frontfill.first /\ frontfill'.last = last
        BY <1>7, <1>10, <1>11
    <2>2. chunk' \in 0 .. MaxTip + ChunkSize
        BY <1>5, <1>7, <1>11
    <2>3. BackfillTypeOK'
        BY <1>1, <1>3, <1>11, <2>1, <2>2 DEF BackfillTypeOK
    <2>4. Succeeds' /\ BoundsValid'
        BY <1>1, <1>4, <1>7, <1>8, <1>11, <2>1 DEF Succeeds, BoundsValid
    <2>5. ~NothingToFill
        <3> SUFFICES ASSUME NothingToFill PROVE FALSE
            OBVIOUS
        <3>1. last = frontfill.last /\ frontfill.first = frontfill.last + 1
            BY Zenon, <1>0 DEF NothingToFill
        <3> QED BY <1>5, <1>11, <3>1
    <2>6. CASE NothingStored
        <3>1. db = {} /\ frontfill.first <= Edge
            BY Zenon, <1>1, <1>6, <2>5, <2>6 DEF NothingStored
        <3>2. NothingStored'
            BY <1>1, <1>9, <1>11, <2>1, <3>1 DEF NothingStored
        <3> QED BY Zenon, <2>3, <2>4, <3>2 DEF BackfillInv
    <2>7. ASSUME NEW lo \in 1 .. tip, NEW hi \in 1 .. MaxTip, Stored(lo, hi) PROVE BackfillInv'
        <3>1. lo <= hi /\ db = lo .. hi /\ lo <= Edge /\ frontfill.first = hi + 1
            BY <1>1, <2>5, <2>7 DEF Stored
        <3>2. chunk' <= frontfill'.last /\ chunk' = hi + 1
            BY SMTT(60), <1>5, <1>7, <1>11, <2>1, <3>1
        <3>3. Stored(lo, hi)'
            BY <1>1, <1>9, <1>11, <3>1, <3>2 DEF Stored
        <3> QED BY Zenon, <1>1, <2>3, <2>4, <3>3 DEF BackfillInv
    <2> QED BY Zenon, <2>6, <2>7 DEF BackfillInv
<1>12. CASE /\ ~(frontfill.first < last) /\ frontfill' = [first |-> last + 1, last |-> last]
            /\ iteration' = iteration + 1 /\ UNCHANGED <<chunk, fillAt>>
    <2>1. /\ frontfill' \in [first : 0 .. MaxTip + 1, last : 0 .. MaxTip]
          /\ frontfill'.first = last + 1 /\ frontfill'.last = last
        BY <1>7, <1>12
    <2>2. BackfillTypeOK'
        BY <1>1, <1>3, <1>8, <1>12, <2>1 DEF BackfillTypeOK
    <2>3. Succeeds' /\ BoundsValid'
        BY <1>1, <1>4, <1>7, <1>12, <2>1 DEF Succeeds, BoundsValid
    <2>4. NothingToFill'
        <3>1. iteration' > 0
            BY <1>5, <1>12
        <3>2. PrevCheckpoint(tip)' = last
            BY Zenon, <1>0, <1>1
        <3> QED BY Zenon, <2>1, <3>1, <3>2 DEF NothingToFill
    <2>5. CASE NothingStored
        <3>1. NothingStored'
            BY Zenon, <1>1, <1>12, <2>4, <2>5 DEF NothingStored
        <3> QED BY Zenon, <2>2, <2>3, <3>1 DEF BackfillInv
    <2>6. ASSUME NEW lo \in 1 .. tip, NEW hi \in 1 .. MaxTip, Stored(lo, hi) PROVE BackfillInv'
        <3>1. lo <= hi /\ db = lo .. hi /\ lo <= Edge
              /\ (frontfill.first = hi + 1 \/ (NothingToFill /\ frontfill.last <= hi + 1))
            BY <1>1, <2>6 DEF Stored
        <3>2. NothingToFill => last = frontfill.last
            BY Zenon, <1>0 DEF NothingToFill
        <3>3. frontfill'.last <= hi + 1
            BY <1>5, <1>7, <1>12, <2>1, <3>1, <3>2
        <3>4. Stored(lo, hi)'
            BY <1>1, <1>9, <1>12, <2>4, <3>1, <3>3 DEF Stored
        <3> QED BY Zenon, <1>1, <2>2, <2>3, <3>4 DEF BackfillInv
    <2> QED BY Zenon, <2>5, <2>6 DEF BackfillInv
<1> QED BY Zenon, <1>2, <1>11, <1>12

\* The passes are done.
LEMMA FrontfillDoneInv ==
    ASSUME BackfillInv, FrontfillDone PROVE BackfillInv'
<1>1. /\ fillAt = "front" /\ iteration = NumIterations /\ fillAt' = "verify"
      /\ UNCHANGED <<tip, db, dbRange, backfill, frontfill, nBackfill, lBound, chunk, chunks, iteration, restarts>>
    BY Zenon DEF FrontfillDone, bounds, loop
<1>2. BackfillTypeOK /\ BoundsValid
    BY Zenon DEF BackfillInv
<1>3. iteration > 0
    BY <1>1 DEF NumIterations
<1>4. BackfillTypeOK'
    BY <1>1, <1>2 DEF BackfillTypeOK
<1>5. Succeeds' /\ BoundsValid'
    BY <1>1, <1>2 DEF Succeeds, BoundsValid
<1>6. Edge' = Edge
    BY Zenon, <1>1 DEF Edge
<1>7. CASE NothingStored
    <2>1. NothingStored'
        BY <1>1, <1>7 DEF NothingStored
    <2> QED BY Zenon, <1>4, <1>5, <2>1 DEF BackfillInv
<1>8. ASSUME NEW lo \in 1 .. tip, NEW hi \in 1 .. MaxTip, Stored(lo, hi) PROVE BackfillInv'
    <2>1. lo <= hi /\ db = lo .. hi /\ lo <= Edge /\ frontfill.last <= hi + 1
        BY <1>1, <1>3, <1>8 DEF Stored
    <2>2. Stored(lo, hi)'
        BY <1>1, <1>6, <2>1 DEF Stored
    <2> QED BY Zenon, <1>1, <1>4, <1>5, <2>2 DEF BackfillInv
<1> QED BY Zenon, <1>7, <1>8 DEF BackfillInv

\* A pass of frontfill ends with the checkpoint stored.
LEMMA IterationFilledInv ==
    ASSUME BackfillInv, IterationFilled PROVE BackfillInv'
<1>1. /\ fillAt = "fill" /\ chunk > frontfill.last /\ frontfill' = [frontfill EXCEPT !.first = frontfill.last + 1]
      /\ iteration' = iteration + 1 /\ fillAt' = "front"
      /\ UNCHANGED <<tip, db, dbRange, backfill, nBackfill, lBound, chunk, chunks, restarts>>
    BY Zenon DEF IterationFilled
<1>2. BackfillTypeOK /\ BoundsValid
    BY Zenon DEF BackfillInv
<1>3. /\ nBackfill >= 1 /\ nBackfill <= tip /\ frontfill.last <= tip /\ frontfill.first < frontfill.last
      /\ iteration <= 1
    BY <1>1, <1>2 DEF BoundsValid
<1>4. /\ frontfill.first \in Nat /\ frontfill.last \in Nat /\ frontfill.last <= MaxTip /\ chunk \in Nat
      /\ MaxTip \in Nat /\ iteration \in Nat
    BY <1>2, BackfillNumbers, BackfillConstants
<1>5. frontfill \in [first : 0 .. MaxTip + 1, last : 0 .. MaxTip]
    BY Zenon, <1>2 DEF BackfillTypeOK
<1>6. /\ frontfill' \in [first : 0 .. MaxTip + 1, last : 0 .. MaxTip]
      /\ frontfill'.first = frontfill.last + 1 /\ frontfill'.last = frontfill.last
    BY <1>1, <1>4, <1>5
<1>7. iteration' \in 0 .. 2 /\ iteration' > 0
    BY <1>1, <1>3, <1>4
<1>8. BackfillTypeOK'
    BY <1>1, <1>2, <1>6, <1>7 DEF BackfillTypeOK
<1>9. frontfill'.first >= 1 /\ frontfill.last <= frontfill.last + 1
    BY <1>4, <1>6
<1>10. Succeeds' /\ BoundsValid'
    BY <1>1, <1>3, <1>9 DEF Succeeds, BoundsValid
<1>11. ~NothingStored
    <2> SUFFICES ASSUME NothingStored PROVE FALSE
        OBVIOUS
    <2>1. chunk = frontfill.first
        BY <1>1 DEF NothingStored
    <2> QED BY <1>1, <1>3, <1>4, <2>1
<1>12. PICK lo \in 1 .. tip, hi \in 1 .. MaxTip : Stored(lo, hi)
    BY Zenon, <1>11 DEF BackfillInv
<1>13. ~(chunk <= frontfill.last)
    BY <1>1, <1>4
<1>14. lo <= hi /\ db = lo .. hi /\ lo <= Edge /\ hi = frontfill.last
    BY <1>1, <1>12, <1>13 DEF Stored
<1>15. Edge' = Edge
    BY Zenon, <1>1 DEF Edge
<1>16. Stored(lo, hi)'
    BY <1>1, <1>6, <1>9, <1>14, <1>15 DEF Stored
<1> QED BY Zenon, <1>1, <1>8, <1>10, <1>16 DEF BackfillInv

\* Ledgers that are stored after the newest one.
LEMMA AppendLedgers ==
    ASSUME NEW lo \in Nat \ {0}, NEW hi \in Nat, NEW last \in Nat, lo <= hi + 1, hi < last
    PROVE  /\ TrimOlder((lo .. hi) \union (hi + 1 .. last), last) = Larger(lo, last + 1 - Window) .. last
           /\ Larger(lo, last + 1 - Window) \in lo .. last
<1>1. (lo .. hi) \union (hi + 1 .. last) = lo .. last
    OBVIOUS
<1>2. last \in lo .. last
    OBVIOUS
<1>3. TrimOlder(lo .. last, last) = Larger(lo, last + 1 - Window) .. last
    BY Zenon, <1>2, TrimInterval
<1>4. Larger(lo, last + 1 - Window) \in lo .. last
    BY <1>2, BackfillConstants DEF Larger
<1> QED BY Zenon, <1>1, <1>3, <1>4

\* frontfillChunks.
LEMMA FrontfillChunkInv ==
    ASSUME BackfillInv, FrontfillChunk PROVE BackfillInv'
<1>0. PICK right : right = RightChunkBound
    OBVIOUS
<1>1. /\ fillAt = "fill" /\ chunk <= frontfill.last /\ db' = TrimOlder(db \union (chunk .. right), right)
      /\ chunk' = chunk + ChunkSize /\ fillAt' = "fill"
      /\ UNCHANGED <<tip, dbRange, backfill, frontfill, nBackfill, lBound, chunks, iteration, restarts>>
    BY Zenon, <1>0 DEF FrontfillChunk, IngestRange, NextChunk, bounds
<1>2. BackfillTypeOK /\ BoundsValid
    BY Zenon DEF BackfillInv
<1>3. /\ nBackfill >= 1 /\ nBackfill <= tip /\ frontfill.last <= tip /\ frontfill.first < frontfill.last
      /\ chunk >= 1 /\ iteration <= 1
    BY <1>1, <1>2 DEF BoundsValid
<1>4. /\ tip \in Nat /\ tip <= MaxTip /\ frontfill.last \in Nat /\ frontfill.last <= MaxTip /\ chunk \in Nat
      /\ MaxTip \in Nat /\ ChunkSize \in Nat \ {0} /\ Window \in Nat \ {0}
    BY <1>2, BackfillNumbers, BackfillConstants
<1>5. right = IF frontfill.last <= chunk + ChunkSize - 1 THEN frontfill.last ELSE chunk + ChunkSize - 1
    <2>1. frontfill.last \in Int /\ chunk + ChunkSize - 1 \in Int
        BY <1>4
    <2> QED BY Zenon, <1>0, <2>1, OfPair DEF RightChunkBound
<1>6. /\ right \in Nat /\ right >= chunk /\ right <= frontfill.last /\ chunk' \in 0 .. MaxTip + ChunkSize /\ chunk' >= 1
      /\ IF chunk' <= frontfill.last THEN chunk' = right + 1 ELSE right = frontfill.last
    BY <1>1, <1>3, <1>4, <1>5
<1>7. Edge \in 1 .. MaxTip /\ Edge >= tip - Window + 1 /\ Edge' = Edge
    <2>1. Edge' = Edge
        BY Zenon, <1>1 DEF Edge
    <2> QED BY Zenon, <1>2, <1>3, <2>1, EdgeBound
<1>8. PICK lo \in Nat \ {0} : lo <= chunk /\ db = lo .. chunk - 1 /\ lo <= Edge /\ lo <= tip
    <2>1. CASE NothingStored
        <3>1. db = {} /\ chunk <= Edge
            BY <1>1, <2>1 DEF NothingStored
        <3>2. chunk .. chunk - 1 = {} /\ chunk <= tip /\ chunk <= chunk /\ chunk \in Nat \ {0}
            BY <1>1, <1>3, <1>4
        <3> QED BY Zenon, <3>1, <3>2
    <2>2. ASSUME NEW lo \in 1 .. tip, NEW hi \in 1 .. MaxTip, Stored(lo, hi)
          PROVE  lo \in Nat \ {0} /\ lo <= chunk /\ db = lo .. chunk - 1 /\ lo <= Edge /\ lo <= tip
        <3>1. lo <= hi /\ db = lo .. hi /\ lo <= Edge /\ chunk = hi + 1
            BY <1>1, <2>2 DEF Stored
        <3>2. hi = chunk - 1 /\ lo \in Nat \ {0} /\ lo <= chunk /\ lo <= tip
            BY <1>4, <3>1
        <3> QED BY Zenon, <3>1, <3>2
    <2> QED BY Zenon, <2>1, <2>2 DEF BackfillInv
<1>9. PICK low : low = Larger(lo, right + 1 - Window)
    OBVIOUS
<1>10. db' = low .. right /\ low \in lo .. right
    <2>1. chunk - 1 \in Nat /\ chunk - 1 + 1 = chunk /\ lo <= chunk - 1 + 1 /\ chunk - 1 < right
        BY <1>3, <1>4, <1>6, <1>8
    <2>2. /\ TrimOlder((lo .. chunk - 1) \union (chunk - 1 + 1 .. right), right) = Larger(lo, right + 1 - Window) .. right
          /\ Larger(lo, right + 1 - Window) \in lo .. right
        BY Zenon, <1>6, <1>8, <2>1, AppendLedgers
    <2> QED BY Zenon, <1>1, <1>8, <1>9, <2>1, <2>2
<1>11. low \in 1 .. tip /\ low <= Edge /\ low <= right /\ right \in 1 .. MaxTip
    <2>1. right + 1 - Window <= Edge /\ right + 1 - Window <= tip
        BY <1>3, <1>4, <1>6, <1>7
    <2>2. low <= Edge /\ low <= tip
        BY Zenon, <1>8, <1>9, <2>1 DEF Larger
    <2> QED BY SMTT(60), <1>3, <1>4, <1>6, <1>8, <1>10, <2>2
<1>12. db' \subseteq 1 .. MaxTip
    BY <1>4, <1>10, <1>11
<1>13. BackfillTypeOK'
    BY <1>1, <1>2, <1>6, <1>12 DEF BackfillTypeOK
<1>14. Succeeds' /\ BoundsValid'
    BY <1>1, <1>3, <1>6 DEF Succeeds, BoundsValid
<1>15. Stored(low, right)'
    BY <1>1, <1>6, <1>7, <1>10, <1>11 DEF Stored
<1> QED BY Zenon, <1>1, <1>11, <1>13, <1>14, <1>15 DEF BackfillInv
\* No chunk collides.
LEMMA ChunkCollidesInv ==
    ASSUME BackfillInv, ChunkCollides PROVE FALSE
<1>1. BackfillTypeOK /\ BoundsValid
    BY Zenon DEF BackfillInv
<1>2. /\ chunk \in Nat /\ lBound \in Nat /\ ChunkSize \in Nat \ {0} /\ frontfill.last \in Nat /\ tip \in Nat
      /\ MaxTip \in Nat
    BY <1>1, BackfillNumbers, BackfillConstants
<1>3. CASE fillAt = "back" /\ LeftChunkBound .. chunk \intersect db # {}
    <2>1. PICK lo \in 1 .. tip, hi \in 1 .. MaxTip : Stored(lo, hi)
        BY Zenon, <1>3 DEF BackfillInv, NothingStored
    <2>2. db = lo .. hi /\ chunk + 1 = lo
        BY <1>3, <2>1 DEF Stored
    <2>3. PICK l \in db : l \in LeftChunkBound .. chunk
        BY Zenon, <1>3
    <2>4. l \in Int /\ l <= chunk /\ l >= lo
        BY <2>2, <2>3
    <2> QED BY <1>2, <2>2, <2>4
<1>4. CASE fillAt = "fill" /\ chunk <= frontfill.last /\ chunk .. RightChunkBound \intersect db # {}
    <2>1. db # {}
        BY Zenon, <1>4
    <2>2. PICK lo \in 1 .. tip, hi \in 1 .. MaxTip : Stored(lo, hi)
        BY Zenon, <2>1 DEF BackfillInv, NothingStored
    <2>3. db = lo .. hi /\ chunk = hi + 1
        BY <1>4, <2>2 DEF Stored
    <2>4. PICK l \in db : l \in chunk .. RightChunkBound
        BY Zenon, <1>4
    <2>5. l \in Int /\ l >= chunk /\ l <= hi
        BY <2>3, <2>4
    <2> QED BY <1>2, <2>3, <2>5
<1> QED BY Zenon, <1>3, <1>4 DEF ChunkCollides

\* Live ingestion stays near the datastore.
LEMMA LiveLedgerInv ==
    ASSUME BackfillInv, Lag < Window, LiveLedger PROVE BackfillInv'
<1>1. /\ fillAt = "live" /\ db # {} /\ Max(db) + 1 <= Min({tip + Lag, MaxTip})
      /\ db' = TrimOlder(db \union (Max(db) + 1 .. Max(db) + 1), Max(db) + 1)
      /\ UNCHANGED <<tip, fillAt, dbRange, backfill, frontfill, nBackfill, lBound, chunk, chunks, iteration, restarts>>
    BY Zenon DEF LiveLedger, IngestRange, bounds, loop
<1>2. BackfillTypeOK
    BY Zenon DEF BackfillInv
<1>3. tip \in Nat /\ tip >= 1 /\ MaxTip \in Nat /\ Lag \in Nat /\ Window \in Nat \ {0}
    BY <1>2, BackfillNumbers, BackfillConstants
<1>4. PICK lo \in 1 .. tip, hi \in 1 .. MaxTip : Stored(lo, hi)
    BY Zenon, <1>1 DEF BackfillInv, NothingStored
<1>5. lo \in Nat \ {0} /\ hi \in Nat /\ lo <= hi /\ db = lo .. hi /\ lo <= tip
    BY <1>3, <1>4 DEF Stored
<1>6. Max(db) = hi
    BY <1>5, OfInterval
<1>7. hi + 1 <= tip + Lag /\ hi + 1 <= MaxTip
    <2>1. tip + Lag \in Int /\ MaxTip \in Int
        BY <1>3
    <2>2. Min({tip + Lag, MaxTip}) = IF tip + Lag <= MaxTip THEN tip + Lag ELSE MaxTip
        BY Zenon, <2>1, OfPair
    <2> QED BY <1>1, <1>3, <1>5, <1>6, <2>2
<1>8. PICK low : low = Larger(lo, hi + 1 + 1 - Window)
    OBVIOUS
<1>9. db' = low .. hi + 1 /\ low \in lo .. hi + 1
    <2>1. hi + 1 \in Nat /\ lo <= hi + 1 /\ hi < hi + 1
        BY <1>5
    <2>2. /\ TrimOlder((lo .. hi) \union (hi + 1 .. hi + 1), hi + 1) = Larger(lo, hi + 1 + 1 - Window) .. hi + 1
          /\ Larger(lo, hi + 1 + 1 - Window) \in lo .. hi + 1
        BY Zenon, <1>5, <2>1, AppendLedgers
    <2> QED BY Zenon, <1>1, <1>5, <1>6, <1>8, <2>2
<1>10. low \in 1 .. tip /\ hi + 1 \in 1 .. MaxTip /\ low <= hi + 1
    <2>1. hi + 1 + 1 - Window <= tip
        BY <1>3, <1>5, <1>7
    <2>2. low <= tip
        BY Zenon, <1>5, <1>8, <2>1 DEF Larger
    <2> QED BY <1>3, <1>5, <1>7, <1>9, <2>2
<1>11. db' \subseteq 1 .. MaxTip
    BY <1>3, <1>9, <1>10
<1>12. BackfillTypeOK'
    BY <1>1, <1>2, <1>11 DEF BackfillTypeOK
<1>13. Succeeds' /\ BoundsValid' /\ Stored(low, hi + 1)'
    BY <1>1, <1>9, <1>10 DEF Succeeds, BoundsValid, Stored
<1> QED BY Zenon, <1>1, <1>10, <1>12, <1>13 DEF BackfillInv

\* An empty database gets its first ledger.
LEMMA LiveFirstInv ==
    ASSUME BackfillInv, LiveFirst PROVE BackfillInv'
<1>1. PICK root \in DsFirst .. tip : db' = {root}
    BY Zenon DEF LiveFirst
<1>2. /\ fillAt = "live"
      /\ UNCHANGED <<tip, fillAt, dbRange, backfill, frontfill, nBackfill, lBound, chunk, chunks, iteration, restarts>>
    BY Zenon DEF LiveFirst, bounds, loop
<1>3. BackfillTypeOK
    BY Zenon DEF BackfillInv
<1>4. root \in 1 .. tip /\ root \in 1 .. MaxTip /\ {root} = root .. root /\ root <= root
    BY <1>3, BackfillNumbers, BackfillConstants
<1>5. BackfillTypeOK'
    BY <1>1, <1>2, <1>3, <1>4 DEF BackfillTypeOK
<1>6. Succeeds' /\ BoundsValid' /\ Stored(root, root)'
    BY <1>1, <1>2, <1>4 DEF Succeeds, BoundsValid, Stored
<1> QED BY Zenon, <1>2, <1>4, <1>5, <1>6 DEF BackfillInv

\* The datastore grows: the left edge follows, and no checkpoint appears where frontfill
\* has found nothing to do.
LEMMA PublishInv ==
    ASSUME BackfillInv, Quiet, Publish PROVE BackfillInv'
<1>1. /\ tip < MaxTip /\ tip' = tip + 1
      /\ fillAt = "front" /\ iteration > 0 => PrevCheckpoint(tip') = frontfill.last
      /\ UNCHANGED <<db, fillAt, dbRange, backfill, frontfill, nBackfill, lBound, chunk, chunks, iteration, restarts>>
    BY Zenon DEF Publish, bounds, loop
<1>2. BackfillTypeOK /\ BoundsValid
    BY Zenon DEF BackfillInv
<1>3. /\ tip \in Nat /\ tip >= Frequency /\ MaxTip \in Nat /\ Frequency \in Nat \ {0} /\ nBackfill \in Nat
      /\ DsFirst \in Int /\ lBound \in Int /\ frontfill.last \in Int /\ chunk \in Int /\ frontfill.first \in Int
    BY <1>2, BackfillNumbers, BackfillConstants
<1>4. tip' \in Frequency .. MaxTip
    BY <1>1, <1>3
<1>5. BackfillTypeOK'
    BY <1>1, <1>2, <1>4 DEF BackfillTypeOK
<1>6. Edge \in Int /\ Edge' \in Int /\ Edge <= Edge'
    BY <1>1, <1>3 DEF Edge, Larger
<1>7. \A m \in Int : m <= Edge => m <= Edge'
    BY <1>6
<1>8. \A m \in Int : m <= tip => m <= tip'
    BY <1>1, <1>3
<1>9. Succeeds' /\ BoundsValid'
    <2>1. nBackfill \in Int
        BY <1>3
    <2> QED BY Zenon, <1>1, <1>2, <1>3, <1>7, <1>8, <2>1 DEF BackfillInv, Succeeds, BoundsValid
<1>10. fillAt = "front" /\ NothingToFill => NothingToFill'
    BY Zenon, <1>1 DEF NothingToFill
<1>11. CASE NothingStored
    <2>1. NothingStored'
        BY Zenon, <1>1, <1>3, <1>7, <1>10, <1>11 DEF NothingStored
    <2> QED BY Zenon, <1>5, <1>9, <2>1 DEF BackfillInv
<1>12. ASSUME NEW lo \in 1 .. tip, NEW hi \in 1 .. MaxTip, Stored(lo, hi) PROVE BackfillInv'
    <2>1. lo \in Int /\ lo \in 1 .. tip'
        BY <1>1, <1>3
    <2>2. Stored(lo, hi)'
        BY Zenon, <1>1, <1>7, <1>10, <1>12, <2>1 DEF Stored
    <2> QED BY Zenon, <1>5, <1>9, <2>1, <2>2 DEF BackfillInv
<1> QED BY Zenon, <1>11, <1>12 DEF BackfillInv

\* Wherever filling is interrupted and however often, whatever the sizes of the window,
\* of chunks and of checkpoints, the stored ledgers have no gap, no chunk collides, and a
\* finished fill reaches the left edge and the last checkpoint: as long as no checkpoint
\* is published while frontfill has nothing to do (see rpc_backfill_gap), and live
\* ingestion was less than a window ahead of the datastore (otherwise setBounds refuses).
THEOREM BackfillAlwaysResumes ==
    ASSUME Quiet, Lag < Window PROVE BackfillSpec => []BackfillResumes
<1>1. BackfillInit => BackfillInv
    BY BackfillInitInv
<1>2. BackfillInv /\ [BackfillNext]_backfillVars => BackfillInv'
    <2> SUFFICES ASSUME BackfillInv, [BackfillNext]_backfillVars PROVE BackfillInv'
        OBVIOUS
    <2>1. CASE UNCHANGED backfillVars
        <3>1. UNCHANGED <<tip, db, fillAt, dbRange, backfill, frontfill, nBackfill, lBound, chunk, chunks,
                          iteration, restarts>>
            BY Zenon, <2>1 DEF backfillVars, bounds, loop
        <3>2. UNCHANGED <<BackfillTypeOK, Succeeds, Edge, NothingToFill>>
            BY Zenon, <3>1 DEF BackfillTypeOK, Succeeds, Edge, NothingToFill
        <3>3. BoundsValid' <=> BoundsValid
            BY Zenon, <3>1, <3>2 DEF BoundsValid
        <3>4. NothingStored' <=> NothingStored
            BY Zenon, <3>1, <3>2 DEF NothingStored
        <3>5. ASSUME NEW lo, NEW hi, Stored(lo, hi) PROVE Stored(lo, hi)'
            BY <3>1, <3>2, <3>5 DEF Stored
        <3>6. tip' = tip /\ BackfillTypeOK' /\ Succeeds'
            BY Zenon, <3>1, <3>2 DEF BackfillInv
        <3>7. NothingStored' \/ \E lo \in 1 .. tip', hi \in 1 .. MaxTip : Stored(lo, hi)'
            BY Zenon, <3>4, <3>5, <3>6 DEF BackfillInv
        <3> QED BY Zenon, <3>3, <3>6, <3>7 DEF BackfillInv
    <2>2. CASE Run
        BY Zenon, <2>2, NewBackfillMetaInv, StartWithoutBackfillInv, SetBoundsInv, BackfillChunkInv,
           BackfillOvertakenInv, StartIterationInv, FrontfillDoneInv, FrontfillChunkInv, IterationFilledInv,
           ChunkCollidesInv, VerifyDbGaplessInv DEF Run
    <2> QED BY Zenon, <2>1, <2>2, LiveLedgerInv, LiveFirstInv, PublishInv, RestartBackfillInv DEF BackfillNext
<1>3. BackfillInv => BackfillResumes
    BY BackfillInvImplies
<1> QED BY <1>1, <1>2, <1>3, PTL DEF BackfillSpec
=============================================================================
