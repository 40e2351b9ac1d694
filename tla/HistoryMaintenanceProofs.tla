---------------------- MODULE HistoryMaintenanceProofs ----------------------
(***************************************************************************)
(* Parallel reingestion and the reaper of history, for any workers,        *)
(* ranges, processes, tables and bounds.                                   *)
(***************************************************************************)
EXTENDS ParallelReingest, HistoryReaper, FiniteSetTheorems, WellFoundedInduction, TLAPS

(***************************************************************************)
(* Parallel reingestion.  The cursor `from` separates the ledgers that are *)
(* still to be handed out from the others; what lies below it is done, is  *)
(* in the job of some worker, or is one of the ledgers that are dropped.   *)
(***************************************************************************)
\* from lies in the current range or right behind it, at the start of a job.
CursorValid ==
    /\ from \in Ranges[index].from .. Ranges[index].to + 1
    /\ from <= Ranges[index].to => (from - Ranges[index].from) % batchSize = 0

\* A worker has a job from the time it is given one until it has done it.
JobsValid ==
    \A w \in Worker :
        /\ job[w] # NoRange =>
            /\ lowestLedger <= job[w].from /\ job[w].from <= job[w].to /\ job[w].to < from
            /\ job[w].from < MaxUint32
            /\ LedgersOf(job[w]) \subseteq AllLedgers
        /\ workerAt[w] \in {"new", "idle"} => job[w] = NoRange
        /\ workerAt[w] \in {"working", "failed", "recorded"} => job[w] # NoRange
        /\ workerAt[w] \in {"recorded", "exited"} /\ job[w] # NoRange => lowestErr <= job[w].from

Covered ==
    /\ \A l \in AllLedgers : l < from => l \in done \/ Dropped(l) \/ \E w \in Worker : l \in LedgersOf(job[w])
    /\ \A l \in done : lowestLedger <= l /\ l < from

\* The queue ends early only because of an error.
EndsValid ==
    /\ lowestErr # MaxUint32 => lowestErr < from
    /\ main \in {"create", "enqueue"} /\ stop => lowestErr # MaxUint32
    /\ main = "wait" => lowestErr # MaxUint32 \/ (~HasJob /\ index = Len(Ranges))
    /\ main # "returned" => parallelResult = "none"
    /\ parallelResult \notin {"none", "createError"} => \A w \in Worker : workerAt[w] = "exited"

ParallelInv == Restartable /\ CursorValid /\ JobsValid /\ Covered /\ EndsValid

-----------------------------------------------------------------------------
LEMMA RangeType ==
    ASSUME NEW i \in DOMAIN Ranges
    PROVE  /\ Ranges[i].from \in 1..MaxUint32 /\ Ranges[i].to \in 1..MaxUint32
           /\ Ranges[i].from <= Ranges[i].to
           /\ i \in Nat \ {0} /\ i <= Len(Ranges) /\ Len(Ranges) \in Nat
           /\ MaxUint32 \in Nat
<1>1. Ranges \in Seq([from : 1..MaxUint32, to : 1..MaxUint32])
    BY ParallelAssumption DEF RangesValid
<1>2. DOMAIN Ranges = 1..Len(Ranges) /\ Len(Ranges) \in Nat
    BY <1>1
<1>3. Ranges[i] \in [from : 1..MaxUint32, to : 1..MaxUint32]
    <2> DEFINE AnyRange == [from : 1..MaxUint32, to : 1..MaxUint32]
    <2>1. Ranges \in Seq(AnyRange)
        BY <1>1
    <2> HIDE DEF AnyRange
    <2>2. Ranges[i] \in AnyRange
        BY <2>1
    <2> QED BY <2>2 DEF AnyRange
<1>4. Ranges[i].from <= Ranges[i].to
    BY ParallelAssumption DEF RangesValid
<1>5. MaxUint32 \in Nat
    BY ParallelAssumption DEF SystemsValid
<1> QED BY <1>2, <1>3, <1>4, <1>5

\* validateRanges compares neighbours; so every range is below all later ones.
LEMMA RangesAscend ==
    ASSUME NEW i \in DOMAIN Ranges, NEW j \in DOMAIN Ranges, i < j
    PROVE  Ranges[i].to < Ranges[j].from
<1> SUFFICES ASSUME ~(Ranges[i].to < Ranges[j].from) PROVE FALSE
    OBVIOUS
<1> DEFINE Bad == {k \in DOMAIN Ranges : i < k /\ ~(Ranges[i].to < Ranges[k].from)}
<1>1. Bad \subseteq Nat /\ Bad # {}
    BY RangeType
<1>2. PICK k \in Bad : \A n \in Bad : ~(<<n, k>> \in OpToRel(<, Nat))
    <2> HIDE DEF Bad
    <2> QED BY Zenon, <1>1, NatLessThanWellFounded, WFMin
<1>3. k - 1 \notin Bad
    <2>1. SUFFICES ASSUME k - 1 \in Bad PROVE FALSE
        OBVIOUS
    <2>2. k - 1 \in Nat /\ k \in Nat /\ k - 1 < k
        BY <1>1, <2>1
    <2> QED BY Zenon, <1>2, <2>1, <2>2 DEF OpToRel
<1>4. k \in DOMAIN Ranges /\ i < k /\ ~(Ranges[i].to < Ranges[k].from)
    OBVIOUS
<1>5. k - 1 \in DOMAIN Ranges /\ Ranges[k - 1].to < Ranges[k].from
    <2>1. k \in 2..Len(Ranges) /\ k - 1 \in 1..Len(Ranges)
        BY SMTT(60), <1>4, RangeType
    <2>2. DOMAIN Ranges = 1..Len(Ranges)
        BY ParallelAssumption DEF RangesValid
    <2>3. \A n \in DOMAIN Ranges : n > 1 => Ranges[n - 1].to < Ranges[n].from
        BY ParallelAssumption DEF RangesValid
    <2> QED BY <1>4, <2>1, <2>2, <2>3
<1>6. CASE k - 1 = i
    BY <1>4, <1>5, <1>6
<1>7. CASE k - 1 # i
    <2>1. i < k - 1
        BY SMTT(60), <1>4, <1>7, RangeType
    <2>2. Ranges[i].to < Ranges[k - 1].from
        BY <2>1, <1>3, <1>5
    <2> QED BY SMTT(60), <1>4, <1>5, <2>2, RangeType
<1> QED BY <1>6, <1>7

LEMMA MaxOfTwo ==
    ASSUME NEW a \in Int, NEW b \in Int
    PROVE  /\ Max({a, b}) = IF a >= b THEN a ELSE b
           /\ Min({a, b}) = IF a <= b THEN a ELSE b
BY DEF Max, Min

\* A job has at least one ledger.
LEMMA BatchSizePositive == batchSize \in Nat \ {0}
<1>1. Cardinality(Worker) \in Nat \ {0}
    BY ParallelAssumption, FS_CardinalityType, FS_EmptySet DEF SystemsValid
<1>2. totalRangeSize \in Nat
    <2>1. AllLedgers \subseteq 1..MaxUint32
        BY RangeType DEF AllLedgers, LedgersOf
    <2>2. IsFiniteSet(1..MaxUint32)
        BY FS_Interval, ParallelAssumption DEF SystemsValid
    <2> QED BY Zenon, <2>1, <2>2, FS_Subset, FS_CardinalityType DEF totalRangeSize
<1> DEFINE share   == totalRangeSize \div Cardinality(Worker)
           atLeast == IF MinBatchSize > 0 THEN Max({share, MinBatchSize}) ELSE share
           size    == IF MaxBatchSize > 0 THEN Min({atLeast, MaxBatchSize}) ELSE atLeast
<1>3. share \in Nat
    BY <1>1, <1>2
<1> HIDE DEF share
<1>4. atLeast \in Nat
    BY <1>3, MaxOfTwo, ParallelAssumption DEF SystemsValid
<1> HIDE DEF atLeast
<1>5. size \in Nat
    <2>1. MaxBatchSize \in Nat
        BY ParallelAssumption DEF SystemsValid
    <2>2. Min({atLeast, MaxBatchSize}) \in {atLeast, MaxBatchSize}
        BY <1>4, <2>1, MaxOfTwo
    <2> QED BY <1>4, <2>1, <2>2
<1> HIDE DEF size
<1>6. batchSize = IF size > Interval THEN (size \div Interval) * Interval ELSE Interval
    BY DEF batchSize, calculateParallelLedgerBatchSize, share, atLeast, size
<1>7. Interval \in Nat \ {0}
    BY ParallelAssumption DEF SystemsValid
<1>8. ASSUME size > Interval PROVE (size \div Interval) * Interval \in Nat \ {0}
    <2>1. size \div Interval \in Nat \ {0}
        BY <1>5, <1>7, <1>8
    <2> QED BY <2>1, <1>7
<1> QED BY <1>6, <1>7, <1>8

\* Multiples of the size of a job.
LEMMA NextMultiple ==
    ASSUME NEW x \in Nat, NEW b \in Nat \ {0}, x % b = 0
    PROVE  (x + b) % b = 0
<1> DEFINE q == x \div b
           p == (x + b) \div b
           r == (x + b) % b
<1>1. q \in Nat /\ x = b * q
    OBVIOUS
<1>2. p \in Nat /\ r \in 0 .. b - 1 /\ x + b = b * p + r
    OBVIOUS
<1> HIDE DEF q, p, r
<1>3. b * (q + 1) = b * p + r
    BY <1>1, <1>2
<1>4. CASE p >= q + 2
    BY <1>1, <1>2, <1>3, <1>4
<1>5. CASE p <= q
    BY <1>1, <1>2, <1>3, <1>5
<1>6. CASE p = q + 1
    BY <1>1, <1>2, <1>3, <1>6 DEF r
<1> QED BY <1>1, <1>2, <1>4, <1>5, <1>6

LEMMA RangeLedgers ==
    ASSUME NEW i \in DOMAIN Ranges
    PROVE  LedgersOf(Ranges[i]) \subseteq AllLedgers
BY DEF AllLedgers

LEMMA NoRangeEmpty == LedgersOf(NoRange) = {} /\ NoRange \in Job
<1>1. MaxUint32 \in Nat /\ MaxUint32 >= 1
    <2>1. 1 \in DOMAIN Ranges
        BY ParallelAssumption DEF RangesValid
    <2> QED BY <2>1, RangeType
<1> QED BY <1>1 DEF LedgersOf, NoRange, Job

\* The job that is handed out next.
LEMMA NextJobValid ==
    ASSUME ParallelTypeOK, CursorValid, HasJob
    PROVE  /\ NextJob \in Job /\ NextJob # NoRange
           /\ NextJob.from = from /\ from <= NextJob.to /\ from < MaxUint32
           /\ NextJob.to <= Ranges[index].to
           /\ NextJob.to < Ranges[index].to => NextJob.to + 1 = from + batchSize
           /\ LedgersOf(NextJob) \subseteq AllLedgers
<1>1. index \in DOMAIN Ranges /\ from \in 1 .. MaxUint32 + 1
    BY DEF ParallelTypeOK
<1>2. /\ Ranges[index].from \in 1..MaxUint32 /\ Ranges[index].to \in 1..MaxUint32
      /\ MaxUint32 \in Nat /\ batchSize \in Nat \ {0}
    BY <1>1, RangeType, BatchSizePositive
<1>3. Ranges[index].from <= from /\ from < Ranges[index].to
    BY <1>1, <1>2 DEF CursorValid, HasJob
<1> DEFINE to == Min({from + batchSize - 1, Ranges[index].to})
<1>4. to = IF from + batchSize - 1 <= Ranges[index].to THEN from + batchSize - 1 ELSE Ranges[index].to
    <2>1. from + batchSize - 1 \in Int /\ Ranges[index].to \in Int
        BY <1>1, <1>2
    <2> QED BY Zenon, <2>1, MaxOfTwo
<1>5. NextJob = [from |-> from, to |-> to]
    BY DEF NextJob
<1> HIDE DEF to
<1>6. to \in from .. Ranges[index].to /\ (to < Ranges[index].to => to + 1 = from + batchSize)
    BY <1>1, <1>2, <1>3, <1>4
<1>7. NextJob.from = from /\ NextJob.to = to
    BY <1>5
<1>8. LedgersOf(NextJob) \subseteq LedgersOf(Ranges[index])
    BY <1>1, <1>2, <1>3, <1>6, <1>7 DEF LedgersOf
<1>9. NextJob \in Job
    BY <1>1, <1>2, <1>3, <1>5, <1>6 DEF Job
<1>10. NextJob # NoRange
    BY <1>1, <1>2, <1>3, <1>6, <1>7 DEF NoRange
<1> QED BY <1>1, <1>2, <1>3, <1>6, <1>7, <1>8, <1>9, <1>10, RangeLedgers

\* A ledger of a range lies below the next range, and is in no earlier one.
LEMMA LedgerPlace ==
    ASSUME NEW l \in AllLedgers, NEW i \in DOMAIN Ranges
    PROVE  /\ l \in 1..MaxUint32
           /\ l < Ranges[i].from \/ l > Ranges[i].to \/ l \in LedgersOf(Ranges[i])
           /\ i = Len(Ranges) => l <= Ranges[i].to
           /\ i = 1 => l >= Ranges[i].from
           /\ i + 1 \in DOMAIN Ranges => l <= Ranges[i].to \/ l >= Ranges[i + 1].from
<1>1. PICK j \in DOMAIN Ranges : l \in LedgersOf(Ranges[j])
    BY DEF AllLedgers
<1>2. /\ Ranges[j].from \in 1..MaxUint32 /\ Ranges[j].to \in 1..MaxUint32 /\ MaxUint32 \in Nat
      /\ Ranges[i].from \in 1..MaxUint32 /\ Ranges[i].to \in 1..MaxUint32
      /\ Ranges[i].from <= Ranges[i].to
      /\ i \in Nat \ {0} /\ j \in Nat \ {0} /\ j <= Len(Ranges) /\ Len(Ranges) \in Nat
    BY RangeType
<1>3. l \in Ranges[j].from .. Ranges[j].to
    BY <1>1 DEF LedgersOf
<1>4. CASE j < i
    BY SMTT(60), <1>2, <1>3, <1>4, RangesAscend, RangeType
<1>5. CASE j = i
    BY SMTT(60), <1>1, <1>2, <1>3, <1>5, RangesAscend, RangeType DEF LedgersOf
<1>6. CASE j > i
    <2>1. Ranges[i].to < Ranges[j].from
        BY <1>6, RangesAscend
    <2>2. ASSUME i + 1 \in DOMAIN Ranges PROVE l >= Ranges[i + 1].from
        <3>1. CASE j = i + 1
            BY <1>2, <1>3, <3>1
        <3>2. CASE j > i + 1
            BY SMTT(60), <1>2, <1>3, <3>2, <2>2, RangesAscend, RangeType
        <3> QED BY <1>2, <1>6, <3>1, <3>2
    <2> QED BY SMTT(60), <1>2, <1>3, <1>6, <2>1, <2>2
<1> QED BY <1>2, <1>4, <1>5, <1>6

LEMMA ParallelInitInv == ParallelInit => ParallelInv
<1> SUFFICES ASSUME ParallelInit PROVE ParallelInv
    OBVIOUS
<1>1. 1 \in DOMAIN Ranges
    BY ParallelAssumption DEF RangesValid
<1>2. /\ Ranges[1].from \in 1..MaxUint32 /\ Ranges[1].to \in 1..MaxUint32 /\ MaxUint32 \in Nat
      /\ Ranges[1].from <= Ranges[1].to /\ batchSize \in Nat \ {0}
    BY <1>1, RangeType, BatchSizePositive
<1>3. ParallelTypeOK
    <2>1. job \in [Worker -> Job]
        BY NoRangeEmpty DEF ParallelInit
    <2>2. workerAt \in [Worker -> {"new", "idle", "working", "failed", "recorded", "exited"}]
        BY DEF ParallelInit
    <2>3. /\ index \in DOMAIN Ranges /\ from \in 1 .. MaxUint32 + 1
          /\ lowestLedger \in 1..MaxUint32 /\ lowestErr \in 1..MaxUint32
        BY <1>1, <1>2 DEF ParallelInit
    <2>4. done \subseteq AllLedgers /\ rebuilt \subseteq 1..MaxUint32
        BY DEF ParallelInit
    <2> QED BY Zenon, <2>1, <2>2, <2>3, <2>4 DEF ParallelInit, ParallelTypeOK
<1>4. JobsDisjoint /\ NoGapBelowRestart /\ TradesAggregated
    BY NoRangeEmpty DEF ParallelInit, JobsDisjoint, NoGapBelowRestart, TradesAggregated
<1>5. CursorValid
    <2>1. from - Ranges[1].from = 0 /\ index = 1
        BY <1>2 DEF ParallelInit
    <2>2. 0 % batchSize = 0
        BY <1>2
    <2> QED BY <1>2, <2>1, <2>2 DEF CursorValid, ParallelInit
<1>6. JobsValid
    BY DEF ParallelInit, JobsValid
<1>7. Covered
    BY <1>1, <1>2, LedgerPlace DEF Covered, ParallelInit
<1>8. EndsValid
    BY DEF EndsValid, ParallelInit
<1> QED BY <1>3, <1>4, <1>5, <1>6, <1>7, <1>8 DEF ParallelInv, Restartable

-----------------------------------------------------------------------------
\* Steps that move no ledger and no job.
LEMMA NothingMoved ==
    ASSUME ParallelInv, UNCHANGED <<index, from, lowestLedger, job, done>>
    PROVE  CursorValid' /\ JobsDisjoint' /\ Covered'
<1>1. CursorValid'
    BY DEF ParallelInv, CursorValid
<1>2. JobsDisjoint'
    BY DEF ParallelInv, Restartable, JobsDisjoint
<1>3. Covered'
    BY DEF ParallelInv, Covered
<1> QED BY <1>1, <1>2, <1>3

\* While a worker is at work, or before the workers end, nothing is returned but
\* the error of creating them.
LEMMA NothingReturned ==
    ASSUME ParallelInv, UNCHANGED parallelResult,
           main # "returned" \/ \E w \in Worker : workerAt[w] # "exited"
    PROVE  NoGapBelowRestart' /\ TradesAggregated' /\ parallelResult \in {"none", "createError"}
<1>1. parallelResult \in {"none", "createError"}
    BY DEF ParallelInv, EndsValid
<1> QED BY <1>1 DEF NoGapBelowRestart, TradesAggregated

LEMMA CreateInv ==
    ASSUME ParallelInv, NEW w \in Worker, Create(w) PROVE ParallelInv'
<1> USE DEF Create
<1>1. ParallelTypeOK'
    BY DEF ParallelInv, Restartable, ParallelTypeOK
<1>2. JobsValid'
    BY DEF ParallelInv, Restartable, ParallelTypeOK, JobsValid
<1>3. EndsValid'
    BY DEF ParallelInv, Restartable, ParallelTypeOK, EndsValid, HasJob
<1> QED BY <1>1, <1>2, <1>3, NothingMoved, NothingReturned DEF ParallelInv, Restartable

LEMMA CreateFailsInv ==
    ASSUME ParallelInv, CreateFails PROVE ParallelInv'
<1> USE DEF CreateFails
<1>1. ParallelTypeOK'
    BY DEF ParallelInv, Restartable, ParallelTypeOK
<1>2. JobsValid'
    BY DEF ParallelInv, JobsValid
<1>3. EndsValid'
    BY DEF ParallelInv, EndsValid
<1>4. NoGapBelowRestart' /\ TradesAggregated'
    BY DEF NoGapBelowRestart, TradesAggregated
<1> QED BY <1>1, <1>2, <1>3, <1>4, NothingMoved DEF ParallelInv, Restartable

LEMMA WorkerStopsInv ==
    ASSUME ParallelInv, NEW w \in Worker, WorkerStops(w) PROVE ParallelInv'
<1> USE DEF WorkerStops
<1>1. ParallelTypeOK'
    BY DEF ParallelInv, Restartable, ParallelTypeOK
<1>2. JobsValid'
    BY DEF ParallelInv, Restartable, ParallelTypeOK, JobsValid
<1>3. EndsValid'
    BY NothingReturned DEF ParallelInv, Restartable, ParallelTypeOK, EndsValid, HasJob
<1> QED BY <1>1, <1>2, <1>3, NothingMoved, NothingReturned DEF ParallelInv, Restartable

LEMMA WorkerFailsInv ==
    ASSUME ParallelInv, NEW w \in Worker, WorkerFails(w) PROVE ParallelInv'
<1> USE DEF WorkerFails
<1>1. ParallelTypeOK'
    BY DEF ParallelInv, Restartable, ParallelTypeOK
<1>2. JobsValid'
    BY DEF ParallelInv, Restartable, ParallelTypeOK, JobsValid
<1>3. EndsValid'
    BY NothingReturned DEF ParallelInv, Restartable, ParallelTypeOK, EndsValid, HasJob
<1> QED BY <1>1, <1>2, <1>3, NothingMoved, NothingReturned DEF ParallelInv, Restartable

LEMMA CloseStopInv ==
    ASSUME ParallelInv, NEW w \in Worker, CloseStop(w) PROVE ParallelInv'
<1> USE DEF CloseStop
<1>1. ParallelTypeOK'
    BY DEF ParallelInv, Restartable, ParallelTypeOK
<1>2. JobsValid'
    BY DEF ParallelInv, Restartable, ParallelTypeOK, JobsValid
<1>3. lowestErr # MaxUint32
    <2>1. job[w].from < MaxUint32 /\ lowestErr <= job[w].from
        BY DEF ParallelInv, JobsValid
    <2>2. job[w].from \in Int /\ lowestErr \in Int /\ MaxUint32 \in Int
        BY ParallelAssumption DEF ParallelInv, Restartable, ParallelTypeOK, SystemsValid, Job
    <2> QED BY <2>1, <2>2
<1>4. EndsValid'
    BY <1>3, NothingReturned DEF ParallelInv, Restartable, ParallelTypeOK, EndsValid, HasJob
<1> QED BY <1>1, <1>2, <1>4, NothingMoved, NothingReturned DEF ParallelInv, Restartable

LEMMA EnqueueReturnsInv ==
    ASSUME ParallelInv, EnqueueReturns PROVE ParallelInv'
<1> USE DEF EnqueueReturns
<1>1. ParallelTypeOK'
    BY DEF ParallelInv, Restartable, ParallelTypeOK
<1>2. JobsValid'
    BY DEF ParallelInv, JobsValid
<1>3. EndsValid'
    BY DEF ParallelInv, EndsValid, HasJob
<1> QED BY <1>1, <1>2, <1>3, NothingMoved, NothingReturned DEF ParallelInv, Restartable

LEMMA ParallelTypes ==
    ASSUME ParallelInv
    PROVE  /\ MaxUint32 \in Nat /\ index \in DOMAIN Ranges /\ from \in Nat \ {0}
           /\ lowestLedger \in 1..MaxUint32 /\ lowestErr \in 1..MaxUint32
           /\ \A w \in Worker : job[w].from \in Nat /\ job[w].to \in Nat
           /\ Ranges[index].from \in 1..MaxUint32 /\ Ranges[index].to \in 1..MaxUint32
           /\ batchSize \in Nat \ {0}
BY SMTT(60), RangeType, BatchSizePositive DEF ParallelInv, Restartable, ParallelTypeOK, Job

LEMMA Weaken ==
    /\ \A a, b, c \in Int : a <= b /\ b <= c => a <= c
    /\ \A a, b, c \in Int : a < b /\ b <= c => a < c
    /\ \A a, b, c \in Int : a <= b => a - c <= b - c /\ a + c <= b + c
OBVIOUS

\* The clauses of JobsValid for one worker.
JobValid(v) ==
    /\ job[v] # NoRange =>
        /\ lowestLedger <= job[v].from /\ job[v].from <= job[v].to /\ job[v].to < from
        /\ job[v].from < MaxUint32
        /\ LedgersOf(job[v]) \subseteq AllLedgers
    /\ workerAt[v] \in {"new", "idle"} => job[v] = NoRange
    /\ workerAt[v] \in {"working", "failed", "recorded"} => job[v] # NoRange
    /\ workerAt[v] \in {"recorded", "exited"} /\ job[v] # NoRange => lowestErr <= job[v].from

LEMMA JobsValidMeans == JobsValid <=> \A v \in Worker : JobValid(v)
BY Zenon DEF JobsValid, JobValid

\* A worker that keeps its job while the cursor and the bounds move.
LEMMA JobKept ==
    ASSUME ParallelInv, NEW v \in Worker, job'[v] = job[v], workerAt'[v] = workerAt[v],
           from' \in Int, from <= from', lowestLedger' \in Int, lowestLedger' <= lowestLedger,
           lowestErr' \in Int, lowestErr' <= lowestErr
    PROVE  JobValid(v)'
<1>1. JobValid(v)
    BY Zenon, JobsValidMeans DEF ParallelInv
<1>2. /\ job[v].from \in Int /\ job[v].to \in Int /\ from \in Int
      /\ lowestLedger \in Int /\ lowestErr \in Int
    <2>1. /\ job[v].from \in Nat /\ job[v].to \in Nat /\ from \in Nat \ {0} /\ MaxUint32 \in Nat
          /\ lowestLedger \in 1..MaxUint32 /\ lowestErr \in 1..MaxUint32
        BY Zenon, ParallelTypes
    <2> QED BY <2>1
<1>3. job[v] # NoRange => lowestLedger' <= job[v].from /\ job[v].to < from'
    BY Zenon, <1>1, <1>2, Weaken DEF JobValid
<1>4. lowestErr <= job[v].from => lowestErr' <= job[v].from
    BY Zenon, <1>2, Weaken
<1> QED BY Zenon, <1>1, <1>3, <1>4 DEF JobValid

LEMMA HandOutInv ==
    ASSUME ParallelInv, NEW w \in Worker, HandOut(w) PROVE ParallelInv'
<1> USE DEF HandOut
<1>1. /\ NextJob \in Job /\ NextJob # NoRange
      /\ NextJob.from = from /\ from <= NextJob.to /\ from < MaxUint32
      /\ NextJob.to <= Ranges[index].to
      /\ NextJob.to < Ranges[index].to => NextJob.to + 1 = from + batchSize
      /\ LedgersOf(NextJob) \subseteq AllLedgers
    BY NextJobValid DEF ParallelInv, Restartable
<1>2. /\ job' = [job EXCEPT ![w] = NextJob] /\ from' = NextJob.to + 1
      /\ lowestLedger' = IF from < lowestLedger THEN from ELSE lowestLedger
      /\ workerAt[w] = "idle" /\ workerAt' = [workerAt EXCEPT ![w] = "working"]
      /\ UNCHANGED <<main, index, stop, lowestErr, done, rebuilt, parallelResult>>
      /\ main = "enqueue"
    OBVIOUS
<1>3. NextJob.to \in 1..MaxUint32
    <2>1. NextJob.to \in Nat
        BY <1>1 DEF Job
    <2> QED BY <1>1, <2>1, ParallelTypes
<1>4. LedgersOf(NextJob) = from .. NextJob.to
    BY <1>1 DEF LedgersOf
<1> HIDE DEF HandOut
<1>5. ParallelTypeOK'
    BY <1>1, <1>2, <1>3, ParallelTypes DEF ParallelInv, Restartable, ParallelTypeOK
<1>6. ASSUME NEW v \in Worker PROVE \A l \in LedgersOf(job[v]) : l \in Int /\ l < from
    <2>1. CASE job[v] = NoRange
        BY <2>1, NoRangeEmpty
    <2>2. CASE job[v] # NoRange
        BY <2>2, ParallelTypes DEF ParallelInv, JobsValid, LedgersOf
    <2> QED BY <2>1, <2>2
<1>7. JobsDisjoint'
    <2>1. \A v \in Worker \ {w} : job'[v] = job[v]
        BY <1>2
    <2>2. job'[w] = NextJob
        BY <1>2 DEF ParallelInv, Restartable, ParallelTypeOK
    <2>3. \A l \in done : l < from /\ l \in Int
        BY ParallelTypes, LedgerPlace DEF ParallelInv, Covered, Restartable, ParallelTypeOK
    <2>4. LedgersOf(NextJob) \cap done = {}
        BY <2>3, <1>4, ParallelTypes
    <2>5. \A v \in Worker : LedgersOf(job[v]) \cap LedgersOf(NextJob) = {}
        BY <1>6, <1>4, ParallelTypes
    <2> QED BY SMTT(60), <1>2, <2>1, <2>2, <2>4, <2>5 DEF ParallelInv, Restartable, JobsDisjoint
<1>8. CursorValid'
    <2>1. from' \in Ranges[index].from .. Ranges[index].to + 1
        BY <1>1, <1>2, <1>3, ParallelTypes DEF ParallelInv, CursorValid
    <2>2. ASSUME from' <= Ranges[index].to PROVE (from' - Ranges[index].from) % batchSize = 0
        <3> DEFINE x == from - Ranges[index].from
        <3>1. from' = from + batchSize
            BY <2>2, <1>1, <1>2, <1>3, ParallelTypes
        <3>2. x \in Nat /\ x % batchSize = 0
            BY <1>1, <1>3, ParallelTypes DEF ParallelInv, CursorValid
        <3>3. (x + batchSize) % batchSize = 0
            BY <3>2, ParallelTypes, NextMultiple
        <3>4. from' - Ranges[index].from = x + batchSize
            BY <3>1, ParallelTypes
        <3> QED BY <3>3, <3>4
    <2> QED BY <1>2, <2>1, <2>2 DEF CursorValid
<1>9. JobsValid'
    <2>1. from < from' /\ lowestLedger' <= lowestLedger /\ lowestLedger' <= from
        BY <1>1, <1>2, <1>3, ParallelTypes
    <2>2. job'[w] = NextJob /\ workerAt'[w] = "working"
        BY <1>2 DEF ParallelInv, Restartable, ParallelTypeOK
    <2>3. \A v \in Worker \ {w} : job'[v] = job[v] /\ workerAt'[v] = workerAt[v]
        BY <1>2 DEF ParallelInv, Restartable, ParallelTypeOK
    <2>4. NextJob.to < from' /\ lowestLedger' \in Int /\ from' \in Int
        BY <1>2, <1>3, ParallelTypes
    <2>5. JobValid(w)'
        BY <1>1, <1>2, <2>1, <2>2, <2>4 DEF JobValid
    <2>6. ASSUME NEW v \in Worker \ {w} PROVE JobValid(v)'
        <3>1. from <= from' /\ lowestErr' \in Int /\ lowestErr' <= lowestErr
            BY <1>2, <2>1, <2>4, ParallelTypes
        <3> QED BY Zenon, <2>1, <2>3, <2>4, <3>1, JobKept
    <2>7. \A v \in Worker : JobValid(v)'
        BY Zenon, <2>5, <2>6
    <2> QED BY Zenon, <2>7, JobsValidMeans DEF JobsValid, JobValid
<1>10. Covered'
    <2>1. \A v \in Worker : LedgersOf(job[v]) \subseteq LedgersOf(job'[v])
        BY <1>2, NoRangeEmpty DEF ParallelInv, JobsValid, Restartable, ParallelTypeOK
    <2>2. job'[w] = NextJob
        BY <1>2 DEF ParallelInv, Restartable, ParallelTypeOK
    <2>3. ASSUME NEW l \in AllLedgers, l < from'
          PROVE  l \in done \/ Dropped(l) \/ \E v \in Worker : l \in LedgersOf(job'[v])
        <3>1. l \in Int
            BY ParallelTypes, LedgerPlace
        <3>2. CASE l < from
            BY <2>1, <3>2 DEF ParallelInv, Covered
        <3>3. CASE l >= from
            BY SMTT(60), <1>2, <1>3, <1>4, <2>2, <2>3, <3>1, <3>3, ParallelTypes
        <3> QED BY <3>1, <3>2, <3>3, ParallelTypes
    <2>4. \A l \in done : l \in Int
        BY ParallelTypes, LedgerPlace DEF ParallelInv, Restartable, ParallelTypeOK
    <2>5. from < from' /\ lowestLedger' <= lowestLedger /\ from' \in Int /\ lowestLedger' \in Int
        <3>1. from \in Nat \ {0} /\ lowestLedger \in 1..MaxUint32 /\ MaxUint32 \in Nat
            BY Zenon, ParallelTypes
        <3>2. from' = NextJob.to + 1 /\ lowestLedger' = (IF from < lowestLedger THEN from ELSE lowestLedger)
              /\ from <= NextJob.to
            BY Zenon, <1>1, <1>2
        <3> QED BY <1>3, <3>1, <3>2
    <2>6. \A l \in done' : lowestLedger' <= l /\ l < from'
        <3>1. \A l \in done : lowestLedger <= l /\ l < from
            BY Zenon DEF ParallelInv, Covered
        <3>2. from \in Int /\ lowestLedger \in Int
            BY ParallelTypes
        <3>3. \A l \in done : lowestLedger' <= l /\ l < from'
            <4> TAKE l \in done
            <4>1. l \in Int /\ lowestLedger <= l /\ l < from
                BY Zenon, <2>4, <3>1
            <4> QED BY <2>5, <3>2, <4>1
        <3> QED BY Zenon, <1>2, <3>3
    <2>7. done' = done
        BY Zenon, <1>2
    <2> QED BY Zenon, <2>3, <2>6, <2>7 DEF Covered
<1>11. EndsValid'
    <2>1. ASSUME lowestErr # MaxUint32 PROVE lowestErr < from'
        <3>1. lowestErr < from
            BY Zenon, <2>1 DEF ParallelInv, EndsValid
        <3>2. lowestErr \in Int /\ from \in Int /\ NextJob.to \in Int
            BY <1>3, ParallelTypes DEF ParallelInv, Restartable, ParallelTypeOK
        <3>3. from <= NextJob.to /\ from' = NextJob.to + 1
            BY Zenon, <1>1, <1>2
        <3> QED BY <3>1, <3>2, <3>3
    <2>2. main' # "wait" /\ main' # "returned"
        BY <1>2
    <2>3. /\ main \in {"create", "enqueue"} /\ stop => lowestErr # MaxUint32
          /\ main # "returned" => parallelResult = "none"
        BY Zenon DEF ParallelInv, EndsValid
    <2>4. parallelResult' = "none" /\ (main' \in {"create", "enqueue"} /\ stop' => lowestErr' # MaxUint32)
        BY Zenon, <1>2, <2>2, <2>3
    <2> QED BY Zenon, <1>2, <2>1, <2>2, <2>4 DEF EndsValid
<1> QED BY <1>2, <1>5, <1>7, <1>8, <1>9, <1>10, <1>11, NothingReturned DEF ParallelInv, Restartable

LEMMA RangesDomain == DOMAIN Ranges = 1..Len(Ranges) /\ Len(Ranges) \in Nat
BY ParallelAssumption DEF RangesValid

LEMMA NextRangeInv ==
    ASSUME ParallelInv, NextRange PROVE ParallelInv'
<1> USE DEF NextRange
<1>1. DOMAIN Ranges = 1..Len(Ranges) /\ Len(Ranges) \in Nat
    BY Zenon, RangesDomain
<1>2. /\ index' = index + 1 /\ index' \in DOMAIN Ranges /\ from' = Ranges[index + 1].from
      /\ UNCHANGED <<main, lowestLedger, stop, workerAt, job, lowestErr, done, rebuilt, parallelResult>>
      /\ main = "enqueue" /\ ~HasJob
    BY SMTT(60), <1>1, ParallelTypes
<1>3. /\ Ranges[index + 1].from \in 1..MaxUint32 /\ Ranges[index + 1].to \in 1..MaxUint32
      /\ Ranges[index + 1].from <= Ranges[index + 1].to
    BY <1>2, RangeType
<1>4. Ranges[index].to < Ranges[index + 1].from
    BY <1>1, <1>2, ParallelTypes, RangesAscend
<1>5. from \in {Ranges[index].to, Ranges[index].to + 1}
    BY SMTT(60), <1>1, <1>2, ParallelTypes DEF HasJob, ParallelInv, CursorValid
<1> HIDE DEF NextRange
<1>6. from <= from' /\ from' \in Nat \ {0}
    BY <1>2, <1>3, <1>4, <1>5, ParallelTypes
<1>7. ParallelTypeOK'
    BY <1>2, <1>3, ParallelTypes DEF ParallelInv, Restartable, ParallelTypeOK
<1>8. JobsDisjoint'
    BY <1>2 DEF ParallelInv, Restartable, JobsDisjoint
<1>9. CursorValid'
    <2>1. from' - Ranges[index'].from = 0
        BY <1>2, <1>3
    <2>2. 0 % batchSize = 0
        BY ParallelTypes
    <2> QED BY <1>2, <1>3, <2>1, <2>2, ParallelTypes DEF CursorValid
<1>10. JobsValid'
    <2>1. /\ from' \in Int /\ from <= from' /\ lowestLedger' \in Int /\ lowestLedger' <= lowestLedger
          /\ lowestErr' \in Int /\ lowestErr' <= lowestErr
        BY <1>2, <1>6, ParallelTypes
    <2>2. \A v \in Worker : JobValid(v)'
        BY Zenon, <1>2, <2>1, JobKept
    <2> QED BY Zenon, <2>2 DEF JobsValid, JobValid
<1>11. Covered'
    <2>1. ASSUME NEW l \in AllLedgers, l < from', ~(l < from) PROVE Dropped(l)
        <3>1. l \in Nat /\ (l <= Ranges[index].to \/ l >= Ranges[index + 1].from)
            BY <1>2, ParallelTypes, LedgerPlace
        <3>2. l = Ranges[index].to /\ from = Ranges[index].to
            BY <1>2, <1>3, <1>5, <2>1, <3>1, ParallelTypes
        <3>3. (Ranges[index].to - Ranges[index].from) % batchSize = 0
            BY <3>2, ParallelTypes DEF ParallelInv, CursorValid
        <3> QED BY <3>2, <3>3, ParallelTypes DEF Dropped
    <2>2. \A l \in done : l \in Int
        BY ParallelTypes, LedgerPlace DEF ParallelInv, Restartable, ParallelTypeOK
    <2>3. \A l \in done' : lowestLedger' <= l /\ l < from'
        BY <1>2, <1>6, <2>2, ParallelTypes DEF ParallelInv, Covered
    <2>4. \A l \in AllLedgers : l < from' => l \in done \/ Dropped(l) \/ \E w \in Worker : l \in LedgersOf(job[w])
        BY <2>1 DEF ParallelInv, Covered
    <2> QED BY <1>2, <2>3, <2>4 DEF Covered
<1>12. EndsValid'
    BY <1>2, <1>6, ParallelTypes DEF ParallelInv, EndsValid
<1> QED BY <1>2, <1>7, <1>8, <1>9, <1>10, <1>11, <1>12, NothingReturned DEF ParallelInv, Restartable

LEMMA WorkerSucceedsInv ==
    ASSUME ParallelInv, NEW w \in Worker, WorkerSucceeds(w) PROVE ParallelInv'
<1>1. /\ workerAt[w] = "working" /\ workerAt' = [workerAt EXCEPT ![w] = "idle"]
      /\ job' = [job EXCEPT ![w] = NoRange] /\ done' = done \cup LedgersOf(job[w])
      /\ UNCHANGED <<main, index, from, lowestLedger, stop, lowestErr, rebuilt, parallelResult>>
    BY DEF WorkerSucceeds
<1>2. /\ job'[w] = NoRange /\ workerAt'[w] = "idle"
      /\ \A v \in Worker \ {w} : job'[v] = job[v] /\ workerAt'[v] = workerAt[v]
    BY <1>1 DEF ParallelInv, Restartable, ParallelTypeOK
<1>3. /\ lowestLedger <= job[w].from /\ job[w].to < from /\ LedgersOf(job[w]) \subseteq AllLedgers
    BY <1>1 DEF ParallelInv, JobsValid
<1>4. ParallelTypeOK'
    BY <1>1, <1>3, NoRangeEmpty DEF ParallelInv, Restartable, ParallelTypeOK
<1>5. JobsDisjoint'
    BY <1>1, <1>2, NoRangeEmpty DEF ParallelInv, Restartable, JobsDisjoint
<1>6. CursorValid'
    BY <1>1 DEF ParallelInv, CursorValid
<1>7. JobsValid'
    BY <1>1, <1>2 DEF ParallelInv, JobsValid
<1>8. Covered'
    <2>1. \A l \in AllLedgers : l < from => l \in done' \/ Dropped(l) \/ \E v \in Worker : l \in LedgersOf(job'[v])
        BY <1>1, <1>2 DEF ParallelInv, Covered
    <2>2. \A l \in LedgersOf(job[w]) : lowestLedger <= l /\ l < from
        BY <1>3, ParallelTypes DEF LedgersOf
    <2> QED BY <1>1, <2>1, <2>2 DEF ParallelInv, Covered
<1>9. EndsValid'
    BY <1>1, NothingReturned DEF ParallelInv, EndsValid, HasJob
<1> QED BY <1>1, <1>4, <1>5, <1>6, <1>7, <1>8, <1>9, NothingReturned DEF ParallelInv, Restartable

LEMMA RecordErrorInv ==
    ASSUME ParallelInv, NEW w \in Worker, RecordError(w) PROVE ParallelInv'
<1>1. /\ workerAt[w] = "failed" /\ workerAt' = [workerAt EXCEPT ![w] = "recorded"]
      /\ lowestErr' = IF lowestErr = MaxUint32 \/ lowestErr > job[w].from THEN job[w].from ELSE lowestErr
      /\ UNCHANGED <<main, index, from, lowestLedger, stop, job, done, rebuilt, parallelResult>>
    BY Zenon DEF RecordError
<1>2. /\ workerAt'[w] = "recorded" /\ \A v \in Worker \ {w} : workerAt'[v] = workerAt[v]
    BY <1>1 DEF ParallelInv, Restartable, ParallelTypeOK
<1>3. /\ job[w].from < MaxUint32 /\ job[w].from < from /\ job[w].from \in 1..MaxUint32
    <2>1. job[w].from <= job[w].to /\ job[w].to < from /\ job[w].from < MaxUint32
        BY Zenon, <1>1 DEF ParallelInv, JobsValid
    <2>2. job[w].from \in 1..MaxUint32
        BY DEF ParallelInv, Restartable, ParallelTypeOK, Job
    <2> QED BY <2>1, <2>2, ParallelTypes
<1>4. /\ lowestErr' \in 1..MaxUint32 /\ lowestErr' <= lowestErr /\ lowestErr' <= job[w].from
      /\ lowestErr' # MaxUint32 /\ lowestErr' < from
    <2>1. lowestErr \in 1..MaxUint32 /\ MaxUint32 \in Nat /\ from \in Nat
        BY ParallelTypes
    <2>2. lowestErr # MaxUint32 => lowestErr < from
        BY Zenon DEF ParallelInv, EndsValid
    <2>3. CASE lowestErr = MaxUint32 \/ lowestErr > job[w].from
        <3>1. lowestErr' = job[w].from
            BY Zenon, <1>1, <2>3
        <3> QED BY <1>3, <2>1, <2>3, <3>1
    <2>4. CASE ~(lowestErr = MaxUint32 \/ lowestErr > job[w].from)
        <3>1. lowestErr' = lowestErr
            BY Zenon, <1>1, <2>4
        <3> QED BY <1>3, <2>1, <2>2, <2>4, <3>1
    <2> QED BY Zenon, <2>3, <2>4
<1>5. ParallelTypeOK'
    BY <1>1, <1>4 DEF ParallelInv, Restartable, ParallelTypeOK
<1>6. JobsValid'
    <2>1. /\ from' \in Int /\ from <= from' /\ lowestLedger' \in Int /\ lowestLedger' <= lowestLedger
          /\ lowestErr' \in Int /\ lowestErr' <= lowestErr
        BY <1>1, <1>4, ParallelTypes
    <2>2. \A v \in Worker \ {w} : JobValid(v)'
        BY Zenon, <1>1, <1>2, <2>1, JobKept
    <2>3. JobValid(w)
        BY Zenon, JobsValidMeans DEF ParallelInv
    <2>4. JobValid(w)'
        BY <1>1, <1>2, <1>4, <2>3 DEF JobValid
    <2> QED BY Zenon, <2>2, <2>4 DEF JobsValid, JobValid
<1>7. EndsValid'
    BY <1>1, <1>4, NothingReturned DEF ParallelInv, EndsValid, HasJob
<1> QED BY Zenon, <1>1, <1>5, <1>6, <1>7, NothingMoved, NothingReturned DEF ParallelInv, Restartable

\* When the workers are gone, what was handed out is done, or was the job of a
\* worker that failed.
LEMMA WorkersGone ==
    ASSUME ParallelInv, Waited
    PROVE  /\ \A l \in AllLedgers : l < lowestErr /\ l < from => l \in done \/ Dropped(l)
           /\ lowestErr = MaxUint32 => \A l \in AllLedgers : l \in done \/ Dropped(l)
<1>1. \A w \in Worker : workerAt[w] = "exited"
    BY DEF Waited
<1>2. ASSUME NEW w \in Worker, NEW l \in LedgersOf(job[w])
      PROVE  lowestErr <= l /\ lowestErr # MaxUint32
    <2>1. job[w] # NoRange
        BY NoRangeEmpty
    <2>2. lowestErr <= job[w].from /\ job[w].from < MaxUint32
        BY <1>1, <2>1 DEF ParallelInv, JobsValid
    <2>3. l \in job[w].from .. job[w].to
        BY DEF LedgersOf
    <2> QED BY <2>2, <2>3, ParallelTypes
<1>3. ASSUME NEW l \in AllLedgers, l < lowestErr, l < from PROVE l \in done \/ Dropped(l)
    <2>1. l \in Int
        BY ParallelTypes, LedgerPlace
    <2> QED BY SMTT(60), <1>2, <1>3, <2>1, ParallelTypes DEF ParallelInv, Covered
<1>4. ASSUME NEW l \in AllLedgers, lowestErr = MaxUint32 PROVE l \in done \/ Dropped(l)
    <2>1. ~HasJob /\ index = Len(Ranges)
        BY <1>4 DEF ParallelInv, EndsValid, Waited
    <2>2. from \in {Ranges[index].to, Ranges[index].to + 1}
        BY SMTT(60), <2>1, ParallelTypes DEF HasJob, ParallelInv, CursorValid
    <2>3. l \in Int /\ l <= Ranges[index].to
        BY SMTT(60), <2>1, ParallelTypes, LedgerPlace
    <2>4. CASE l < from
        BY <1>2, <1>4, <2>4 DEF ParallelInv, Covered
    <2>5. CASE l >= from
        <3>1. l = Ranges[index].to /\ from = Ranges[index].to
            BY <2>2, <2>3, <2>5, ParallelTypes
        <3>2. (Ranges[index].to - Ranges[index].from) % batchSize = 0
            BY <3>1, ParallelTypes DEF ParallelInv, CursorValid
        <3> QED BY <3>1, <3>2, ParallelTypes DEF Dropped
    <2> QED BY <2>3, <2>4, <2>5, ParallelTypes
<1> QED BY <1>3, <1>4

LEMMA ReturnDoneInv ==
    ASSUME ParallelInv, ReturnDone PROVE ParallelInv'
<1>1. /\ main = "wait" /\ main' = "returned" /\ \A w \in Worker : workerAt[w] = "exited"
      /\ lowestErr = MaxUint32
      /\ \/ rebuilt' = AllLedgers /\ parallelResult' = "ok"
         \/ rebuilt' = rebuilt /\ parallelResult' = "rebuildError"
      /\ UNCHANGED <<index, from, lowestLedger, stop, workerAt, job, lowestErr, done>>
    BY DEF ReturnDone, Waited
<1>2. ParallelTypeOK'
    BY Zenon, <1>1, ParallelTypes, LedgerPlace DEF ParallelInv, Restartable, ParallelTypeOK
<1>3. NoGapBelowRestart'
    BY <1>1, WorkersGone DEF NoGapBelowRestart, ReturnDone
<1>4. TradesAggregated'
    BY <1>1 DEF TradesAggregated, ParallelInv, Restartable, ParallelTypeOK
<1>5. JobsValid'
    BY <1>1 DEF ParallelInv, JobsValid
<1>6. EndsValid'
    BY <1>1 DEF ParallelInv, EndsValid
<1> QED BY <1>1, <1>2, <1>3, <1>4, <1>5, <1>6, NothingMoved DEF ParallelInv, Restartable

LEMMA ReturnErrorInv ==
    ASSUME ParallelInv, ReturnError PROVE ParallelInv'
<1>1. /\ main = "wait" /\ main' = "returned" /\ \A w \in Worker : workerAt[w] = "exited"
      /\ lowestErr # MaxUint32
      /\ \/ rebuilt' = lowestLedger .. lowestErr /\ parallelResult' = "failed"
         \/ rebuilt' = rebuilt /\ parallelResult' = "failedTwice"
      /\ UNCHANGED <<index, from, lowestLedger, stop, workerAt, job, lowestErr, done>>
    BY DEF ReturnError, Waited
<1>2. lowestLedger .. lowestErr \subseteq 1..MaxUint32
    BY ParallelTypes
<1>3. ParallelTypeOK'
    BY Zenon, <1>1, <1>2 DEF ParallelInv, Restartable, ParallelTypeOK
<1>4. lowestErr < from
    BY <1>1 DEF ParallelInv, EndsValid
<1>5. NoGapBelowRestart'
    <2>1. \A l \in AllLedgers : l < lowestErr => l < from
        BY <1>4, ParallelTypes, LedgerPlace
    <2> QED BY <1>1, <2>1, WorkersGone DEF NoGapBelowRestart, ReturnError
<1>6. TradesAggregated'
    <2>1. \A l \in done : l \in Int /\ lowestLedger <= l
        <3>1. \A l \in done : lowestLedger <= l
            BY Zenon DEF ParallelInv, Covered
        <3>2. done \subseteq AllLedgers
            BY Zenon DEF ParallelInv, Restartable, ParallelTypeOK
        <3>3. \A l \in AllLedgers : l \in Int
            BY ParallelTypes, LedgerPlace
        <3> QED BY Zenon, <3>1, <3>2, <3>3
    <2> QED BY <1>1, <2>1, ParallelTypes DEF TradesAggregated
<1>7. JobsValid'
    BY <1>1 DEF ParallelInv, JobsValid
<1>8. EndsValid'
    BY <1>1 DEF ParallelInv, EndsValid
<1> QED BY <1>1, <1>3, <1>5, <1>6, <1>7, <1>8, NothingMoved DEF ParallelInv, Restartable

\* With any workers, any ranges and any batch sizes, whatever workers fail and in
\* whatever order (parallel.go): jobs never overlap, below the ledger that the
\* user is told to restart from everything was reingested, except the ledgers
\* that are never handed out, and the trade aggregations cover it.
THEOREM RangeRestartable == ParallelSpec => []Restartable
<1>1. ParallelInv /\ [ParallelNext]_parallelVars => ParallelInv'
    <2> SUFFICES ASSUME ParallelInv, [ParallelNext]_parallelVars PROVE ParallelInv'
        OBVIOUS
    <2>1. CASE UNCHANGED parallelVars
        <3>1. ParallelTypeOK' /\ JobsDisjoint'
            BY <2>1 DEF parallelVars, ParallelInv, Restartable, ParallelTypeOK, JobsDisjoint
        <3>2. NoGapBelowRestart' /\ TradesAggregated'
            BY <2>1 DEF parallelVars, ParallelInv, Restartable, NoGapBelowRestart, TradesAggregated
        <3>3. CursorValid' /\ JobsValid'
            BY <2>1 DEF parallelVars, ParallelInv, CursorValid, JobsValid
        <3>4. Covered' /\ EndsValid'
            BY <2>1 DEF parallelVars, ParallelInv, Covered, EndsValid, HasJob
        <3> QED BY Zenon, <3>1, <3>2, <3>3, <3>4 DEF ParallelInv, Restartable
    <2>2. CASE Main
        BY <2>2, CreateFailsInv, NextRangeInv, EnqueueReturnsInv, ReturnDoneInv, ReturnErrorInv DEF Main
    <2>3. ASSUME NEW w \in Worker, Create(w) \/ HandOut(w) \/ WorkerStep(w) PROVE ParallelInv'
        BY <2>3, CreateInv, HandOutInv, WorkerStopsInv, WorkerSucceedsInv, WorkerFailsInv, RecordErrorInv,
            CloseStopInv DEF WorkerStep
    <2> QED BY <2>1, <2>2, <2>3 DEF ParallelNext, Caller
<1>2. ParallelInv => Restartable
    BY DEF ParallelInv
<1> QED BY <1>1, <1>2, ParallelInitInv, PTL DEF ParallelSpec

-----------------------------------------------------------------------------
(***************************************************************************)
(* The reaper of history.  The bound of a call is computed from a latest   *)
(* ledger that the database has reached already (LatestReached), an open   *)
(* transaction has deleted rows of its batch only, and in the tables that  *)
(* it has visited all of them but those that were put back (BatchDeleted). *)
(***************************************************************************)
LatestReached == \A c \in Call : latest[c] <= Latest

BatchDeletedBy(c) ==
    /\ deleted[c] # {} => pc[c] = "batch"
    /\ \A t \in Table, l \in LedgerSeq : <<t, l>> \in deleted[c] => l \in Batch(c)
    /\ pc[c] = "batch" =>
        \A t \in Table \ todo[c] : \A l \in Batch(c) \ Reingested : l \in rows[t] => <<t, l>> \in deleted[c]
BatchDeleted == \A c \in Call : BatchDeletedBy(c)

ReaperInv ==
    /\ ReaperTypeOK /\ BoundIsOld /\ WholeLedgers
    /\ LatestReached /\ BatchDeleted

\* A set of ledgers has a smallest and a largest one.
LEMMA SmallestExists ==
    ASSUME NEW S \in SUBSET Nat, S # {}
    PROVE  \E x \in S : \A y \in S : x <= y
<1>1. PICK x \in S : \A y \in S : ~(<<y, x>> \in OpToRel(<, Nat))
    BY Zenon, NatLessThanWellFounded, WFMin
<1>2. \A y \in S : x <= y
    <2> TAKE y \in S
    <2>1. x \in Nat /\ y \in Nat
        OBVIOUS
    <2>2. ~(y < x)
        BY Zenon, <1>1, <2>1 DEF OpToRel
    <2> QED BY <2>1, <2>2
<1> QED BY <1>2

LEMMA LargestExists ==
    ASSUME NEW n \in Nat, NEW S \in SUBSET (0..n), S # {}
    PROVE  \E x \in S : \A y \in S : x >= y
<1> DEFINE T == {n - x : x \in S}
<1>1. T \subseteq Nat /\ T # {}
    <2>1. \A x \in S : n - x \in Nat
        OBVIOUS
    <2> QED BY Zenon, <2>1
<1>2. PICK t \in T : \A u \in T : t <= u
    <2> HIDE DEF T
    <2> QED BY <1>1, SmallestExists
<1>3. PICK x \in S : t = n - x
    OBVIOUS
<1>4. \A y \in S : n - y \in T
    OBVIOUS
<1>5. \A y \in S : x >= y
    BY SMTT(60), <1>2, <1>3, <1>4
<1> QED BY <1>5

LEMMA MinValid ==
    ASSUME NEW S \in SUBSET Nat, S # {}
    PROVE  Min(S) \in S /\ \A y \in S : Min(S) <= y
BY Zenon, SmallestExists DEF Min

\* The latest ledger of the database.
LEMMA LatestValid ==
    ASSUME ReaperTypeOK
    PROVE  /\ Latest \in 0..MaxLedger
           /\ \A l \in rows[LedgerTable] : l <= Latest
           /\ Latest # 0 => Latest \in rows[LedgerTable]
<1> DEFINE S == rows[LedgerTable] \cup {0}
<1>1. S \in SUBSET (0..MaxLedger) /\ S # {} /\ MaxLedger \in Nat
    BY ReaperAssumption DEF ReaperTypeOK, LedgerSeq, ReapConfig, DatabaseConfig
<1> HIDE DEF S
<1>2. Max(S) \in S /\ \A y \in S : Max(S) >= y
    BY Zenon, <1>1, LargestExists DEF Max
<1>3. Latest = Max(S)
    BY DEF Latest, S
<1>4. \A y \in S : y \in 0..MaxLedger
    BY <1>1
<1>5. Latest \in S /\ \A y \in S : y <= Latest
    BY <1>1, <1>2, <1>3, <1>4
<1> HIDE DEF Latest
<1>6. Latest \in 0..MaxLedger
    BY <1>4, <1>5
<1> QED BY <1>5, <1>6 DEF S

LEMMA LatestUnique ==
    ASSUME NEW S \in SUBSET (1..MaxLedger), NEW m \in S \cup {0}, \A l \in S : l <= m
    PROVE  Max(S \cup {0}) = m
<1>1. \A x \in S \cup {0} : x \in Int
    OBVIOUS
<1>2. \A x, y \in S \cup {0} : (\A z \in S \cup {0} : x >= z) /\ (\A z \in S \cup {0} : y >= z) => x = y
    BY <1>1
<1>3. \A z \in S \cup {0} : m >= z
    BY <1>1
<1> QED BY Zenon, <1>2, <1>3 DEF Max

LEMMA ReaperTypes ==
    ASSUME ReaperInv, NEW c \in Call
    PROVE  /\ Latest \in 0..MaxLedger /\ MaxLedger \in Nat /\ latest[c] \in 0..MaxLedger
           /\ start[c] \in Nat /\ end[c] \in 0..MaxLedger
           /\ BatchSize \in Nat \ {0} /\ RetentionCount \in Nat \ {0}
           /\ LedgerTable \in Table /\ NodeOf[c] \in Node /\ NoCall \notin Call
           /\ \A t \in Table : rows[t] \subseteq LedgerSeq
           /\ deleted[c] \subseteq Table \X LedgerSeq /\ todo[c] \subseteq Table
BY LatestValid, ReaperAssumption DEF ReaperInv, ReaperTypeOK, ReapConfig, DatabaseConfig

LEMMA ReaperNumbers ==
    ASSUME ReaperInv, NEW c \in Call
    PROVE  /\ Latest \in Nat /\ latest[c] \in Nat /\ start[c] \in Nat /\ end[c] \in Nat
           /\ BatchSize \in Nat /\ RetentionCount \in Nat /\ Latest - RetentionCount \in Int
           /\ start[c] + BatchSize \in Int /\ end[c] - 1 \in Int /\ start[c] + BatchSize + 1 \in Int
           /\ start[c] + BatchSize + 1 \in Nat /\ 0 <= Latest /\ 0 \in 0..MaxLedger
<1>1. /\ Latest \in 0..MaxLedger /\ MaxLedger \in Nat /\ latest[c] \in 0..MaxLedger
      /\ start[c] \in Nat /\ end[c] \in 0..MaxLedger
      /\ BatchSize \in Nat \ {0} /\ RetentionCount \in Nat \ {0}
    BY Zenon, ReaperTypes
<1> QED BY <1>1

LEMMA LedgerSeqNat == LedgerSeq \subseteq Nat
BY ReaperAssumption DEF LedgerSeq, ReapConfig, DatabaseConfig

\* A ledger outside one batch is before it or where the next one begins.
LEMMA AfterBatch ==
    \A l, s, b, e \in Nat :
        l \notin s .. (IF s + b <= e - 1 THEN s + b ELSE e - 1) =>
            l < s \/ l >= IF s + b + 1 <= e THEN s + b + 1 ELSE e
OBVIOUS

LEMMA ZeroIsNat == 0 \in Nat
OBVIOUS

LEMMA NoLessThan == \A a, b \in Nat : ~(a <= b) => a > b
OBVIOUS

\* What is deleted is older than the ledgers that are retained.
LEMMA BatchIsOld ==
    ASSUME ReaperInv, NEW c \in Call, pc[c] \in {"loop", "batch", "next"}, NEW l \in Batch(c)
    PROVE  /\ l \in Nat /\ start[c] <= l /\ l < end[c] /\ l <= start[c] + BatchSize
           /\ l <= Latest - RetentionCount /\ l < Latest
<1>1. /\ start[c] + BatchSize \in Int /\ end[c] - 1 \in Int
      /\ start[c] \in Nat /\ end[c] \in Nat /\ Latest \in Nat /\ BatchSize \in Nat
      /\ RetentionCount \in Nat \ {0}
    BY ReaperTypes
<1>2. l \in start[c] .. Min({start[c] + BatchSize, end[c] - 1})
    BY DEF Batch
<1>3. Min({start[c] + BatchSize, end[c] - 1}) =
        IF start[c] + BatchSize <= end[c] - 1 THEN start[c] + BatchSize ELSE end[c] - 1
    BY Zenon, <1>1, MaxOfTwo
<1>4. end[c] + RetentionCount <= Latest + 1
    BY DEF ReaperInv, BoundIsOld
<1> QED BY <1>1, <1>2, <1>3, <1>4

LEMMA ReaperInitInv == ReaperInit => ReaperInv
<1> SUFFICES ASSUME ReaperInit PROVE ReaperInv
    OBVIOUS
<1>1. ReaperTypeOK
    BY ReaperAssumption DEF ReaperInit, ReaperTypeOK, LedgerSeq, DatabaseConfig, ReapConfig
<1>2. BoundIsOld
    BY DEF ReaperInit, BoundIsOld
<1>3. WholeLedgers
    BY DEF ReaperInit, WholeLedgers
<1>4. LatestReached
    BY <1>1, LatestValid DEF ReaperInit, LatestReached
<1>5. BatchDeleted
    BY DEF ReaperInit, BatchDeleted, BatchDeletedBy
<1> QED BY <1>1, <1>2, <1>3, <1>4, <1>5 DEF ReaperInv

\* A step of one call that leaves the tables alone.
LEMMA CallStep ==
    ASSUME ReaperInv, ReaperTypeOK', UNCHANGED rows, NEW c \in Call,
           \A d \in Call \ {c} :
                /\ pc'[d] = pc[d] /\ latest'[d] = latest[d] /\ start'[d] = start[d] /\ end'[d] = end[d]
                /\ todo'[d] = todo[d] /\ deleted'[d] = deleted[d],
           \A n \in Node \ {NodeOf[c]} : pending'[n] = pending[n],
           pc'[c] # "idle" => pending'[NodeOf[c]],
           pc[c] # "idle" \/ ~pending[NodeOf[c]],
           latest'[c] <= Latest,
           pc'[c] \in {"loop", "batch", "next"} => end'[c] + RetentionCount <= Latest + 1,
           BatchDeletedBy(c)'
    PROVE  ReaperInv'
<1>1. Latest' = Latest
    BY DEF Latest
<1>2. ASSUME NEW d \in Call \ {c}, NodeOf[d] = NodeOf[c] PROVE pc[d] = "idle"
    <2>1. pc[d] # "idle" => pending[NodeOf[d]]
        BY Zenon DEF ReaperInv, BoundIsOld
    <2>2. "idle" \in {pc[d], pc[c]}
        BY Zenon, <1>2 DEF ReaperInv, BoundIsOld
    <2> QED BY Zenon, <1>2, <2>1, <2>2
<1>3. BoundIsOld'
    <2>1. ASSUME NEW d \in Call \ {c} PROVE pc'[d] # "idle" => pending'[NodeOf[d]]
        <3>1. NodeOf[d] \in Node
            BY ReaperTypes
        <3>2. pc[d] # "idle" => pending[NodeOf[d]]
            BY Zenon DEF ReaperInv, BoundIsOld
        <3> QED BY Zenon, <1>2, <3>1, <3>2
    <2>2. ASSUME NEW d \in Call, NEW e \in Call \ {d}, NodeOf[d] = NodeOf[e] PROVE "idle" \in {pc'[d], pc'[e]}
        <3>1. "idle" \in {pc[d], pc[e]}
            BY Zenon, <2>2 DEF ReaperInv, BoundIsOld
        <3>2. CASE d = c
            <4>1. pc[e] = "idle" /\ pc'[e] = pc[e]
                BY Zenon, <1>2, <2>2, <3>2
            <4> QED BY Zenon, <4>1
        <3>3. CASE e = c
            <4>1. pc[d] = "idle" /\ pc'[d] = pc[d]
                BY Zenon, <1>2, <2>2, <3>3
            <4> QED BY Zenon, <4>1
        <3>4. CASE d # c /\ e # c
            BY Zenon, <3>1, <3>4
        <3> QED BY Zenon, <3>2, <3>3, <3>4
    <2>3. ASSUME NEW d \in Call, pc'[d] \in {"loop", "batch", "next"} PROVE end'[d] + RetentionCount <= Latest' + 1
        BY <1>1, <2>3 DEF ReaperInv, BoundIsOld
    <2> QED BY <2>1, <2>2, <2>3 DEF BoundIsOld
<1>4. WholeLedgers'
    BY <1>1 DEF ReaperInv, WholeLedgers
<1>5. LatestReached'
    BY <1>1 DEF ReaperInv, LatestReached
<1>6. BatchDeleted'
    <2>1. ASSUME NEW d \in Call \ {c} PROVE BatchDeletedBy(d)'
        <3>1. BatchDeletedBy(d)
            BY DEF ReaperInv, BatchDeleted
        <3>2. Batch(d)' = Batch(d)
            BY Zenon DEF Batch
        <3> QED BY <3>1, <3>2 DEF BatchDeletedBy
    <2> QED BY <2>1 DEF BatchDeleted
<1> QED BY <1>3, <1>4, <1>5, <1>6 DEF ReaperInv

LEMMA ReturnInv ==
    ASSUME ReaperInv, NEW c \in Call, NEW r \in {"none", "skipped", "nothing", "error", "success"},
           pc[c] # "idle", Return(c, r), UNCHANGED rows
    PROVE  ReaperInv'
<1> USE DEF Return
<1>0. ReaperTypeOK /\ NodeOf[c] \in Node /\ 0 \in Nat /\ 0 \in 0..MaxLedger
    <2>1. ReaperTypeOK
        BY Zenon DEF ReaperInv
    <2>2. NodeOf[c] \in Node /\ 0 \in 0..MaxLedger
        BY Zenon, ReaperTypes, ReaperNumbers
    <2> QED BY Zenon, <2>1, <2>2, ZeroIsNat
<1>1. ReaperTypeOK'
    BY Zenon, <1>0 DEF ReaperTypeOK
<1>2. /\ pc'[c] = "idle" /\ latest'[c] = 0 /\ deleted'[c] = {}
      /\ \A d \in Call \ {c} :
            /\ pc'[d] = pc[d] /\ latest'[d] = latest[d] /\ start'[d] = start[d] /\ end'[d] = end[d]
            /\ todo'[d] = todo[d] /\ deleted'[d] = deleted[d]
      /\ \A n \in Node \ {NodeOf[c]} : pending'[n] = pending[n]
    BY Zenon DEF ReaperInv, ReaperTypeOK
<1>3. BatchDeletedBy(c)'
    BY Zenon, <1>2 DEF BatchDeletedBy
<1>4. latest'[c] <= Latest
    BY Zenon, <1>2, ReaperNumbers
<1> HIDE DEF Return
<1> QED BY Zenon, <1>1, <1>2, <1>3, <1>4, CallStep

LEMMA StartInv ==
    ASSUME ReaperInv, NEW c \in Call, Start(c) PROVE ReaperInv'
<1> USE DEF Start, local
<1>1. ReaperTypeOK'
    BY ReaperTypes DEF ReaperInv, ReaperTypeOK
<1>2. /\ pc'[c] = "lock" /\ pending'[NodeOf[c]] /\ ~pending[NodeOf[c]]
      /\ \A d \in Call \ {c} : pc'[d] = pc[d]
      /\ \A n \in Node \ {NodeOf[c]} : pending'[n] = pending[n]
    BY Zenon, ReaperTypes DEF ReaperInv, ReaperTypeOK
<1>3. BatchDeletedBy(c)'
    <2>1. deleted[c] = {}
        BY Zenon DEF ReaperInv, BatchDeleted, BatchDeletedBy
    <2> QED BY Zenon, <1>2, <2>1 DEF BatchDeletedBy
<1>4. latest'[c] <= Latest
    BY Zenon DEF ReaperInv, LatestReached
<1> QED BY Zenon, <1>1, <1>2, <1>3, <1>4, CallStep

LEMMA TryReaperLockInv ==
    ASSUME ReaperInv, NEW c \in Call, TryReaperLock(c) PROVE ReaperInv'
<1> USE DEF TryReaperLock, local
<1>1. ReaperTypeOK'
    BY ReaperTypes DEF ReaperInv, ReaperTypeOK
<1>2. pc'[c] = "latest" /\ \A d \in Call \ {c} : pc'[d] = pc[d]
    BY DEF ReaperInv, ReaperTypeOK
<1>3. BatchDeletedBy(c)'
    <2>1. deleted[c] = {}
        BY DEF ReaperInv, BatchDeleted, BatchDeletedBy
    <2> QED BY <1>2, <2>1 DEF BatchDeletedBy
<1>4. latest'[c] <= Latest /\ pending[NodeOf[c]]
    BY DEF ReaperInv, LatestReached, BoundIsOld
<1> QED BY <1>1, <1>2, <1>3, <1>4, CallStep

LEMMA GetLatestInv ==
    ASSUME ReaperInv, NEW c \in Call, GetLatestHistoryLedger(c) PROVE ReaperInv'
<1> USE DEF GetLatestHistoryLedger
<1>1. ReaperTypeOK'
    BY ReaperTypes DEF ReaperInv, ReaperTypeOK
<1>2. /\ pc'[c] = "elder" /\ latest'[c] = Latest
      /\ \A d \in Call \ {c} : pc'[d] = pc[d] /\ latest'[d] = latest[d]
    BY DEF ReaperInv, ReaperTypeOK
<1>3. BatchDeletedBy(c)'
    <2>1. deleted[c] = {}
        BY DEF ReaperInv, BatchDeleted, BatchDeletedBy
    <2> QED BY <1>2, <2>1 DEF BatchDeletedBy
<1>4. latest'[c] <= Latest /\ pending[NodeOf[c]]
    BY <1>2, ReaperTypes DEF ReaperInv, BoundIsOld
<1> QED BY Zenon, <1>1, <1>2, <1>3, <1>4, CallStep

\* The bound does not wrap around.
LEMMA TargetElderValid ==
    ASSUME ReaperInv, NEW c \in Call, latest[c] > RetentionCount
    PROVE  TargetElder(c) = latest[c] - RetentionCount + 1 /\ TargetElder(c) \in 0..MaxLedger
<1>1. latest[c] \in 0..MaxLedger /\ RetentionCount \in Nat \ {0} /\ MaxLedger \in Nat
    BY ReaperTypes
<1>2. Modulus \in Nat /\ Modulus > MaxLedger
    BY ReaperAssumption DEF ReapConfig
<1> DEFINE x == latest[c] - RetentionCount + 1
<1>3. x \in 0..MaxLedger
    BY <1>1
<1>4. TargetElder(c) = x % Modulus
    BY DEF TargetElder
<1> HIDE DEF x
<1>5. x % Modulus = x
    BY <1>1, <1>2, <1>3
<1> QED BY <1>3, <1>4, <1>5 DEF x

LEMMA ElderLedgerInv ==
    ASSUME ReaperInv, NEW c \in Call, ElderLedger(c) PROVE ReaperInv'
<1>1. CASE NotEnough(c, Oldest)
    BY <1>1, ReturnInv DEF ElderLedger
<1>2. CASE ~NotEnough(c, Oldest)
    <2>1. /\ pc[c] = "elder" /\ pc' = [pc EXCEPT ![c] = "loop"]
          /\ start' = [start EXCEPT ![c] = Oldest] /\ end' = [end EXCEPT ![c] = TargetElder(c)]
          /\ UNCHANGED <<rows, pending, lock, latest, todo, deleted, result>>
        BY <1>2 DEF ElderLedger
    <2>2. latest[c] > RetentionCount
        <3>1. ~(latest[c] <= RetentionCount)
            BY Zenon, <1>2 DEF NotEnough
        <3> QED BY Zenon, <3>1, ReaperNumbers, NoLessThan
    <2>3. Oldest \in Nat
        <3>1. rows[LedgerTable] \in SUBSET Nat
            BY Zenon, ReaperTypes, LedgerSeqNat
        <3> QED BY <3>1, MinValid DEF Oldest
    <2>4. ReaperTypeOK'
        BY <2>1, <2>2, <2>3, TargetElderValid DEF ReaperInv, ReaperTypeOK
    <2>5. /\ pc'[c] = "loop" /\ end'[c] = TargetElder(c)
          /\ \A d \in Call \ {c} : pc'[d] = pc[d] /\ start'[d] = start[d] /\ end'[d] = end[d]
        BY <2>1 DEF ReaperInv, ReaperTypeOK
    <2>6. BatchDeletedBy(c)'
        <3>1. deleted[c] = {}
            BY <2>1 DEF ReaperInv, BatchDeleted, BatchDeletedBy
        <3> QED BY <2>1, <2>5, <3>1 DEF BatchDeletedBy
    <2>7. latest[c] <= Latest /\ pending[NodeOf[c]]
        BY <2>1 DEF ReaperInv, LatestReached, BoundIsOld
    <2>8. end'[c] + RetentionCount <= Latest + 1
        <3>1. end'[c] = latest[c] - RetentionCount + 1
            BY Zenon, <2>2, <2>5, TargetElderValid
        <3>2. latest[c] \in Nat /\ RetentionCount \in Nat /\ Latest \in Nat
            BY Zenon, ReaperNumbers
        <3> QED BY <2>7, <3>1, <3>2
    <2>9. /\ UNCHANGED rows /\ pc[c] # "idle" /\ pending'[NodeOf[c]] /\ latest'[c] <= Latest
          /\ \A n \in Node \ {NodeOf[c]} : pending'[n] = pending[n]
          /\ \A d \in Call \ {c} :
                /\ pc'[d] = pc[d] /\ latest'[d] = latest[d] /\ start'[d] = start[d] /\ end'[d] = end[d]
                /\ todo'[d] = todo[d] /\ deleted'[d] = deleted[d]
        BY Zenon, <2>1, <2>5, <2>7
    <2> QED BY Zenon, <2>4, <2>6, <2>8, <2>9, CallStep
<1> QED BY <1>1, <1>2

LEMMA BeginBatchInv ==
    ASSUME ReaperInv, NEW c \in Call, BeginBatch(c) PROVE ReaperInv'
<1> USE DEF BeginBatch, local
<1>1. ReaperTypeOK'
    BY Zenon, ReaperTypes DEF ReaperInv, ReaperTypeOK
<1>2. /\ pc'[c] = "batch" /\ todo'[c] = Table
      /\ \A d \in Call \ {c} : pc'[d] = pc[d] /\ todo'[d] = todo[d]
    BY DEF ReaperInv, ReaperTypeOK
<1>3. BatchDeletedBy(c)'
    <2>1. deleted[c] = {}
        BY Zenon DEF ReaperInv, BatchDeleted, BatchDeletedBy
    <2> QED BY Zenon, <1>2, <2>1 DEF BatchDeletedBy
<1>4. latest[c] <= Latest /\ pending[NodeOf[c]] /\ end[c] + RetentionCount <= Latest + 1
    BY Zenon DEF ReaperInv, LatestReached, BoundIsOld
<1> QED BY Zenon, <1>1, <1>2, <1>3, <1>4, CallStep

LEMMA DeleteRangeInv ==
    ASSUME ReaperInv, NEW c \in Call, NEW t \in Table, DeleteRange(c, t) PROVE ReaperInv'
<1> DEFINE new == {t} \X (rows[t] \cap Batch(c))
<1>1. /\ pc[c] = "batch" /\ t \in todo[c]
      /\ deleted' = [deleted EXCEPT ![c] = @ \cup new] /\ todo' = [todo EXCEPT ![c] = @ \ {t}]
      /\ UNCHANGED <<rows, pending, lock, pc, latest, start, end, result>>
    BY Zenon DEF DeleteRange, local
<1>2. new \subseteq Table \X LedgerSeq
    BY Zenon, ReaperTypes
<1>3. \A u \in Table, l \in LedgerSeq : <<u, l>> \in new <=> u = t /\ l \in rows[t] /\ l \in Batch(c)
    BY Zenon
<1> HIDE DEF new
<1>4. ReaperTypeOK'
    BY Zenon, <1>1, <1>2, ReaperTypes DEF ReaperInv, ReaperTypeOK
<1>5. /\ deleted'[c] = deleted[c] \cup new /\ todo'[c] = todo[c] \ {t}
      /\ \A d \in Call \ {c} : deleted'[d] = deleted[d] /\ todo'[d] = todo[d]
    BY <1>1 DEF ReaperInv, ReaperTypeOK
<1>6. Batch(c)' = Batch(c)
    BY Zenon, <1>1 DEF Batch
<1>7. BatchDeletedBy(c)'
    <2>1. BatchDeletedBy(c)
        BY DEF ReaperInv, BatchDeleted
    <2>2. \A u \in Table, l \in LedgerSeq : <<u, l>> \in deleted'[c] => l \in Batch(c)
        BY Zenon, <1>3, <1>5, <2>1 DEF BatchDeletedBy
    <2>3. \A u \in Table \ todo'[c] : \A l \in Batch(c) \ Reingested : l \in rows[u] => <<u, l>> \in deleted'[c]
        BY Zenon, <1>1, <1>3, <1>5, <2>1, ReaperTypes DEF BatchDeletedBy
    <2> QED BY Zenon, <1>1, <1>6, <2>2, <2>3 DEF BatchDeletedBy
<1>8. latest[c] <= Latest /\ pending[NodeOf[c]] /\ end[c] + RetentionCount <= Latest + 1
    BY Zenon, <1>1 DEF ReaperInv, LatestReached, BoundIsOld
<1> QED BY Zenon, <1>1, <1>4, <1>5, <1>7, <1>8, CallStep

LEMMA GetNextInv ==
    ASSUME ReaperInv, NEW c \in Call, GetNextLedgerSequence(c) PROVE ReaperInv'
<1>1. PICK l \in rows[LedgerTable] : l > start[c] /\ start' = [start EXCEPT ![c] = l]
    BY Zenon DEF GetNextLedgerSequence
<1>2. /\ pc[c] = "next" /\ pc' = [pc EXCEPT ![c] = "loop"]
      /\ UNCHANGED <<rows, pending, lock, latest, end, todo, deleted, result>>
    BY Zenon DEF GetNextLedgerSequence
<1>3. l \in Nat
    BY ReaperTypes DEF LedgerSeq
<1>4. ReaperTypeOK'
    BY <1>1, <1>2, <1>3 DEF ReaperInv, ReaperTypeOK
<1>5. pc'[c] = "loop" /\ \A d \in Call \ {c} : pc'[d] = pc[d] /\ start'[d] = start[d]
    BY <1>1, <1>2 DEF ReaperInv, ReaperTypeOK
<1>6. BatchDeletedBy(c)'
    <2>1. deleted[c] = {}
        BY <1>2 DEF ReaperInv, BatchDeleted, BatchDeletedBy
    <2> QED BY <1>2, <1>5, <2>1 DEF BatchDeletedBy
<1>7. latest[c] <= Latest /\ pending[NodeOf[c]] /\ end[c] + RetentionCount <= Latest + 1
    BY <1>2 DEF ReaperInv, LatestReached, BoundIsOld
<1> QED BY Zenon, <1>2, <1>4, <1>5, <1>6, <1>7, CallStep

-----------------------------------------------------------------------------
\* What the commit of a batch leaves: nothing of it but what was put back, and
\* everything else.
LEMMA CommitRows ==
    ASSUME ReaperInv, NEW c \in Call, Commit(c)
    PROVE  /\ rows' \in [Table -> SUBSET LedgerSeq]
           /\ \A t \in Table : rows'[t] \subseteq rows[t]
           /\ \A t \in Table : \A l \in rows[t] \ rows'[t] : l \in Batch(c)
           /\ \A t \in Table : \A l \in Batch(c) \ Reingested : l \notin rows'[t]
           /\ Latest' = Latest
<1>1. /\ pc[c] = "batch" /\ todo[c] = {}
      /\ rows' = [t \in Table |-> {l \in rows[t] : <<t, l>> \notin deleted[c]}]
    BY DEF Commit
<1>2. BatchDeletedBy(c)
    BY DEF ReaperInv, BatchDeleted
<1>3. \A t \in Table : rows'[t] = {l \in rows[t] : <<t, l>> \notin deleted[c]}
    BY <1>1
<1>4. \A t \in Table : rows[t] \subseteq LedgerSeq
    BY ReaperTypes
<1>5. rows' \in [Table -> SUBSET LedgerSeq] /\ \A t \in Table : rows'[t] \subseteq rows[t]
    BY <1>1, <1>3, <1>4
<1>6. \A t \in Table : \A l \in rows[t] \ rows'[t] : l \in Batch(c)
    BY Zenon, <1>2, <1>3, <1>4 DEF BatchDeletedBy
<1>7. \A t \in Table : \A l \in Batch(c) \ Reingested : l \notin rows'[t]
    BY Zenon, <1>1, <1>2, <1>3 DEF BatchDeletedBy
<1>8. Latest' = Latest
    <2>1. LedgerTable \in Table /\ Latest \in 0..MaxLedger
        BY ReaperTypes
    <2>2. \A l \in rows'[LedgerTable] : l <= Latest
        BY <1>5, <2>1, LatestValid DEF ReaperInv
    <2>3. Latest \in rows'[LedgerTable] \cup {0}
        <3>1. ASSUME Latest # 0, Latest \notin rows'[LedgerTable] PROVE FALSE
            <4>1. Latest \in Batch(c)
                BY <1>6, <2>1, <3>1, LatestValid DEF ReaperInv
            <4>2. Latest < Latest
                BY <1>1, <4>1, BatchIsOld
            <4> QED BY <2>1, <4>2
        <3> QED BY <3>1
    <2>4. rows'[LedgerTable] \in SUBSET (1..MaxLedger)
        BY <1>5, <2>1 DEF LedgerSeq
    <2>5. Max(rows'[LedgerTable] \cup {0}) = Latest
        BY <2>2, <2>3, <2>4, LatestUnique
    <2> QED BY <2>5 DEF Latest
<1> QED BY <1>5, <1>6, <1>7, <1>8

LEMMA CommitInv ==
    ASSUME ReaperInv, NEW c \in Call, Commit(c)
    PROVE  ReaperInv' /\ RetainsRecent /\ BatchesLeaveNothing
<1>1. /\ pc[c] = "batch" /\ todo[c] = {}
      /\ \/ deleted[c] = {} /\ pc' = [pc EXCEPT ![c] = "next"] /\ start' = start
         \/ /\ pc' = [pc EXCEPT ![c] = "loop"]
            /\ start' = [start EXCEPT ![c] = start[c] + BatchSize + 1]
      /\ deleted' = [deleted EXCEPT ![c] = {}]
      /\ UNCHANGED <<pending, lock, latest, end, todo, result>>
    BY DEF Commit, NextStart
<1>2. /\ rows' \in [Table -> SUBSET LedgerSeq]
      /\ \A t \in Table : rows'[t] \subseteq rows[t]
      /\ \A t \in Table : \A l \in rows[t] \ rows'[t] : l \in Batch(c)
      /\ \A t \in Table : \A l \in Batch(c) \ Reingested : l \notin rows'[t]
      /\ Latest' = Latest
    BY Zenon, CommitRows
<1>3. /\ pc'[c] \in {"loop", "next"} /\ deleted'[c] = {}
      /\ pc'[c] = "loop" => start'[c] = start[c] + BatchSize + 1
      /\ \A d \in Call \ {c} : pc'[d] = pc[d] /\ deleted'[d] = deleted[d] /\ start'[d] = start[d]
    BY <1>1 DEF ReaperInv, ReaperTypeOK
<1>4. \A l \in Batch(c) : l \in Nat /\ l <= Latest - RetentionCount
    BY <1>1, BatchIsOld
<1>5. ReaperTypeOK'
    <2>1. ReaperTypeOK /\ start[c] + BatchSize + 1 \in Nat
        BY Zenon, ReaperNumbers DEF ReaperInv
    <2>2. pc' \in [Call -> {"idle", "lock", "latest", "elder", "loop", "batch", "next"}]
        BY Zenon, <1>1, <2>1 DEF ReaperTypeOK
    <2>3. start' \in [Call -> Nat]
        BY Zenon, <1>1, <2>1 DEF ReaperTypeOK
    <2>4. deleted' \in [Call -> SUBSET (Table \X LedgerSeq)]
        BY Zenon, <1>1, <2>1 DEF ReaperTypeOK
    <2> QED BY Zenon, <1>1, <1>2, <2>1, <2>2, <2>3, <2>4 DEF ReaperTypeOK
<1>6. BoundIsOld'
    <2>1. \A d \in Call : (pc'[d] = "idle" <=> pc[d] = "idle") /\ (pc'[d] \in {"loop", "batch", "next"} => pc[d] \in {"loop", "batch", "next"})
        BY <1>1, <1>3
    <2>2. /\ \A d \in Call : pc[d] # "idle" => pending[NodeOf[d]]
          /\ \A d \in Call : \A e \in Call \ {d} : NodeOf[d] = NodeOf[e] => "idle" \in {pc[d], pc[e]}
          /\ \A d \in Call : pc[d] \in {"loop", "batch", "next"} => end[d] + RetentionCount <= Latest + 1
        BY Zenon DEF ReaperInv, BoundIsOld
    <2>3. pending' = pending /\ end' = end /\ Latest' = Latest
        BY Zenon, <1>1, <1>2
    <2> QED BY Zenon, <2>1, <2>2, <2>3 DEF BoundIsOld
<1>7. WholeLedgers'
    <2> SUFFICES ASSUME NEW l \in LedgerSeq, l \notin Reingested \/ l > Latest - RetentionCount
                 PROVE  (\A t \in Table : l \in rows'[t]) \/ (\A t \in Table : l \notin rows'[t])
        BY <1>2 DEF WholeLedgers
    <2>1. CASE l \in Batch(c)
        <3>1. l \notin Reingested
            <4>1. \A a \in Nat : \A b \in Int : a <= b => ~(a > b)
                OBVIOUS
            <4> QED BY Zenon, <1>4, <2>1, <4>1, ReaperNumbers
        <3> QED BY <1>2, <2>1, <3>1
    <2>2. CASE l \notin Batch(c)
        <3>1. \A t \in Table : l \in rows'[t] <=> l \in rows[t]
            BY <1>2, <2>2
        <3> QED BY <3>1 DEF ReaperInv, WholeLedgers
    <2> QED BY <2>1, <2>2
<1>8. LatestReached'
    BY Zenon, <1>1, <1>2 DEF ReaperInv, LatestReached
<1>9. BatchDeleted'
    <2>1. BatchDeletedBy(c)'
        BY <1>3 DEF BatchDeletedBy
    <2>2. ASSUME NEW d \in Call \ {c} PROVE BatchDeletedBy(d)'
        <3>1. BatchDeletedBy(d)
            BY DEF ReaperInv, BatchDeleted
        <3>2. Batch(d)' = Batch(d) /\ todo'[d] = todo[d] /\ pc'[d] = pc[d] /\ deleted'[d] = deleted[d]
            BY Zenon, <1>1, <1>3 DEF Batch
        <3> QED BY <1>2, <3>1, <3>2 DEF BatchDeletedBy
    <2> QED BY <2>1, <2>2 DEF BatchDeleted
<1>10. RetainsRecent
    BY Zenon, <1>2, <1>4 DEF RetainsRecent
<1>11. BatchesLeaveNothing
    <2> SUFFICES ASSUME pc'[c] = "loop", NEW t \in Table, NEW l \in rows'[t] \ Reingested
                 PROVE  l < start[c] \/ l >= Min({start'[c], end[c]})
        BY Zenon, <1>3 DEF BatchesLeaveNothing
    <2>1. l \in Nat /\ l \notin Batch(c)
        BY Zenon, <1>2, ReaperTypes, LedgerSeqNat
    <2>2. /\ start[c] \in Nat /\ end[c] \in Nat /\ BatchSize \in Nat
          /\ start[c] + BatchSize \in Int /\ end[c] - 1 \in Int /\ start[c] + BatchSize + 1 \in Int
        BY Zenon, ReaperNumbers
    <2>3. l \notin start[c] .. Min({start[c] + BatchSize, end[c] - 1})
        BY <2>1 DEF Batch
    <2>4. Min({start[c] + BatchSize, end[c] - 1}) =
            IF start[c] + BatchSize <= end[c] - 1 THEN start[c] + BatchSize ELSE end[c] - 1
        BY Zenon, <2>2, MaxOfTwo
    <2>5. Min({start'[c], end[c]}) = IF start[c] + BatchSize + 1 <= end[c] THEN start[c] + BatchSize + 1 ELSE end[c]
        <3>1. start'[c] = start[c] + BatchSize + 1 /\ start'[c] \in Int /\ end[c] \in Int
            BY <1>3, <2>2
        <3>2. Min({start'[c], end[c]}) = IF start'[c] <= end[c] THEN start'[c] ELSE end[c]
            BY Zenon, <3>1, MaxOfTwo
        <3> QED BY Zenon, <3>1, <3>2
    <2>6. l < start[c] \/ l >= IF start[c] + BatchSize + 1 <= end[c] THEN start[c] + BatchSize + 1 ELSE end[c]
        BY Zenon, <2>1, <2>2, <2>3, <2>4, AfterBatch
    <2> QED BY Zenon, <2>5, <2>6
<1> QED BY <1>5, <1>6, <1>7, <1>8, <1>9, <1>10, <1>11 DEF ReaperInv

LEMMA LoseLockInv ==
    ASSUME ReaperInv, NEW c \in Call, LoseLock(c) PROVE ReaperInv'
BY Zenon DEF LoseLock, local, ReaperInv, ReaperTypeOK, BoundIsOld, WholeLedgers, LatestReached, BatchDeleted,
       BatchDeletedBy, Latest, Batch

LEMMA CrashInv ==
    ASSUME ReaperInv, NEW n \in Node, Crash(n) PROVE ReaperInv'
<1> DEFINE down == {c \in Call : NodeOf[c] = n}
<1>1. /\ pending' = [pending EXCEPT ![n] = FALSE]
      /\ lock' = IF lock \in down THEN NoCall ELSE lock
      /\ pc' = [c \in Call |-> IF c \in down THEN "idle" ELSE pc[c]]
      /\ latest' = [c \in Call |-> IF c \in down THEN 0 ELSE latest[c]]
      /\ start' = [c \in Call |-> IF c \in down THEN 0 ELSE start[c]]
      /\ end' = [c \in Call |-> IF c \in down THEN 0 ELSE end[c]]
      /\ todo' = [c \in Call |-> IF c \in down THEN {} ELSE todo[c]]
      /\ deleted' = [c \in Call |-> IF c \in down THEN {} ELSE deleted[c]]
      /\ result' = [c \in Call |-> IF c \in down THEN "none" ELSE result[c]]
      /\ UNCHANGED rows
    BY Zenon DEF Crash
<1>2. \A c \in Call : c \in down <=> NodeOf[c] = n
    OBVIOUS
<1> HIDE DEF down
<1>3. ReaperTypeOK'
    <2>1. MaxLedger \in Nat
        BY ReaperAssumption DEF ReapConfig
    <2> QED BY <1>1, <2>1 DEF ReaperInv, ReaperTypeOK
<1>4. /\ \A c \in down \cap Call : pc'[c] = "idle" /\ latest'[c] = 0 /\ deleted'[c] = {}
      /\ \A c \in Call \ down :
            /\ pc'[c] = pc[c] /\ latest'[c] = latest[c] /\ start'[c] = start[c] /\ end'[c] = end[c]
            /\ todo'[c] = todo[c] /\ deleted'[c] = deleted[c]
            /\ pending'[NodeOf[c]] = pending[NodeOf[c]]
      /\ Latest' = Latest
    BY Zenon, <1>1, <1>2, ReaperTypes DEF ReaperInv, ReaperTypeOK, Latest
<1>5. BoundIsOld'
    BY ZenonT(60), <1>4 DEF ReaperInv, BoundIsOld
<1>6. WholeLedgers'
    BY <1>1, <1>4 DEF ReaperInv, WholeLedgers
<1>7. LatestReached'
    <2>1. Latest \in Nat
        BY LatestValid DEF ReaperInv
    <2> QED BY <1>4, <2>1 DEF ReaperInv, LatestReached
<1>8. BatchDeleted'
    <2>1. ASSUME NEW c \in Call \cap down PROVE BatchDeletedBy(c)'
        BY <1>4 DEF BatchDeletedBy
    <2>2. ASSUME NEW c \in Call \ down PROVE BatchDeletedBy(c)'
        <3>1. BatchDeletedBy(c) /\ Batch(c)' = Batch(c)
            BY Zenon, <1>4 DEF ReaperInv, BatchDeleted, Batch
        <3> QED BY ZenonT(60), <1>1, <1>4, <3>1 DEF BatchDeletedBy
    <2> QED BY <2>1, <2>2 DEF BatchDeleted
<1> QED BY <1>3, <1>5, <1>6, <1>7, <1>8 DEF ReaperInv

\* A ledger is added to all tables, and it is a new one or one that is put back.
LEMMA AddedInv ==
    ASSUME ReaperInv, NEW l \in LedgerSeq, rows' = [t \in Table |-> rows[t] \cup {l}],
           l \in Reingested \/ l > Latest,
           Latest' \in Int, Latest <= Latest',
           UNCHANGED <<pending, lock, pc, latest, start, end, todo, deleted, result>>
    PROVE  ReaperInv' /\ RetainsRecent /\ BatchesLeaveNothing
<1>1. \A t \in Table : rows'[t] = rows[t] \cup {l}
    OBVIOUS
<1>2. ReaperTypeOK'
    BY DEF ReaperInv, ReaperTypeOK
<1>3. Latest \in Nat /\ MaxLedger \in Nat /\ RetentionCount \in Nat
    BY LatestValid, ReaperAssumption DEF ReaperInv, ReapConfig
<1>4. BoundIsOld'
    <2>1. ASSUME NEW c \in Call, pc[c] \in {"loop", "batch", "next"}
          PROVE  end[c] + RetentionCount <= Latest' + 1
        <3>1. end[c] \in 0..MaxLedger
            BY Zenon, ReaperTypes
        <3>2. end[c] + RetentionCount <= Latest + 1
            BY Zenon, <2>1 DEF ReaperInv, BoundIsOld
        <3>3. /\ end[c] + RetentionCount \in Int /\ Latest + 1 \in Int /\ Latest' + 1 \in Int
              /\ Latest \in Int /\ 1 \in Int
            BY <1>3, <3>1
        <3>4. Latest + 1 <= Latest' + 1
            BY Zenon, <3>3, Weaken
        <3> QED BY Zenon, <3>2, <3>3, <3>4, Weaken
    <2> QED BY Zenon, <2>1 DEF ReaperInv, BoundIsOld
<1>5. WholeLedgers'
    <2> SUFFICES ASSUME NEW m \in LedgerSeq, m \notin Reingested \/ m > Latest' - RetentionCount
                 PROVE  (\A t \in Table : m \in rows'[t]) \/ (\A t \in Table : m \notin rows'[t])
        BY DEF WholeLedgers
    <2>1. m \notin Reingested \/ m > Latest - RetentionCount
        <3>1. m \in Int
            BY <1>3 DEF LedgerSeq
        <3>2. Latest - RetentionCount <= Latest' - RetentionCount
            <4>1. Latest \in Int /\ RetentionCount \in Int
                BY <1>3
            <4> QED BY Zenon, <4>1, Weaken
        <3>3. Latest - RetentionCount \in Int /\ Latest' - RetentionCount \in Int
            BY <1>3
        <3> QED BY <3>1, <3>2, <3>3
    <2>2. CASE m = l
        BY <1>1, <2>2
    <2>3. CASE m # l
        BY <1>1, <2>1, <2>3 DEF ReaperInv, WholeLedgers
    <2> QED BY <2>2, <2>3
<1>6. LatestReached'
    <2>1. \A c \in Call : latest[c] \in Int
        BY ReaperTypes
    <2> QED BY <1>3, <2>1 DEF ReaperInv, LatestReached
<1>7. BatchDeleted'
    <2> SUFFICES ASSUME NEW c \in Call PROVE BatchDeletedBy(c)'
        BY Zenon DEF BatchDeleted
    <2>1. BatchDeletedBy(c) /\ Batch(c)' = Batch(c)
        BY DEF ReaperInv, BatchDeleted, Batch
    <2>2. pc[c] = "batch" => l \notin Batch(c) \ Reingested
        BY <1>3, BatchIsOld DEF LedgerSeq
    <2> QED BY Zenon, <1>1, <2>1, <2>2 DEF BatchDeletedBy
<1>8. RetainsRecent
    BY <1>1 DEF RetainsRecent
<1>9. BatchesLeaveNothing
    BY DEF BatchesLeaveNothing
<1> QED BY Zenon, <1>2, <1>4, <1>5, <1>6, <1>7, <1>8, <1>9 DEF ReaperInv

LEMMA IngestInv ==
    ASSUME ReaperInv, Ingest PROVE ReaperInv' /\ RetainsRecent /\ BatchesLeaveNothing
<1> DEFINE l == Latest + 1
<1>1. /\ Latest < MaxLedger /\ rows' = [t \in Table |-> rows[t] \cup {l}]
      /\ UNCHANGED <<pending, lock, pc, latest, start, end, todo, deleted, result>>
    BY DEF Ingest, local
<1>2. Latest \in Nat /\ MaxLedger \in Nat /\ LedgerTable \in Table /\ rows[LedgerTable] \in SUBSET (1..MaxLedger)
    BY LatestValid, ReaperAssumption DEF ReaperInv, ReaperTypeOK, LedgerSeq, ReapConfig, DatabaseConfig
<1>3. l \in LedgerSeq /\ l > Latest
    BY <1>1, <1>2 DEF LedgerSeq
<1>4. Latest' = l
    <2>1. rows'[LedgerTable] = rows[LedgerTable] \cup {l}
        BY <1>1, <1>2
    <2>2. rows'[LedgerTable] \in SUBSET (1..MaxLedger)
        BY <1>2, <1>3, <2>1 DEF LedgerSeq
    <2>3. \A x \in rows[LedgerTable] : x <= Latest /\ x \in Int
        BY <1>2, LatestValid DEF ReaperInv
    <2>4. \A x \in rows'[LedgerTable] : x <= l
        BY <1>2, <2>1, <2>3
    <2> HIDE DEF l
    <2>5. Max(rows'[LedgerTable] \cup {0}) = l
        BY <2>1, <2>2, <2>4, LatestUnique
    <2> QED BY <2>5 DEF Latest
<1>5. Latest' \in Int /\ Latest <= Latest'
    BY <1>2, <1>4
<1> HIDE DEF l
<1> QED BY <1>1, <1>3, <1>5, AddedInv

LEMMA ReingestInv ==
    ASSUME ReaperInv, NEW l \in Reingested, Reingest(l)
    PROVE  ReaperInv' /\ RetainsRecent /\ BatchesLeaveNothing
<1>1. /\ l < Latest /\ rows' = [t \in Table |-> rows[t] \cup {l}]
      /\ UNCHANGED <<pending, lock, pc, latest, start, end, todo, deleted, result>>
    BY DEF Reingest, local
<1>2. Latest \in Nat /\ MaxLedger \in Nat /\ LedgerTable \in Table /\ rows[LedgerTable] \in SUBSET (1..MaxLedger)
    BY LatestValid, ReaperAssumption DEF ReaperInv, ReaperTypeOK, LedgerSeq, ReapConfig, DatabaseConfig
<1>3. l \in LedgerSeq /\ l \in 1..MaxLedger
    BY ReaperAssumption DEF DatabaseConfig, LedgerSeq
<1>4. Latest' = Latest
    <2>1. rows'[LedgerTable] = rows[LedgerTable] \cup {l}
        BY <1>1, <1>2
    <2>2. rows'[LedgerTable] \in SUBSET (1..MaxLedger)
        BY <1>2, <1>3, <2>1
    <2>3. \A x \in rows'[LedgerTable] : x <= Latest
        BY <1>1, <1>2, <1>3, <2>1, LatestValid DEF ReaperInv
    <2>4. Latest \in rows'[LedgerTable] \cup {0}
        BY <2>1, LatestValid DEF ReaperInv
    <2>5. Max(rows'[LedgerTable] \cup {0}) = Latest
        BY <2>2, <2>3, <2>4, LatestUnique
    <2> QED BY <2>5 DEF Latest
<1>5. Latest' \in Int /\ Latest <= Latest'
    BY <1>2, <1>4
<1> QED BY <1>1, <1>3, <1>5, AddedInv

\* A step that leaves the tables alone and ends no batch.
LEMMA TablesKept ==
    ASSUME UNCHANGED rows, \A c \in Call : pc[c] = "batch" => pc'[c] # "loop"
    PROVE  RetainsRecent /\ BatchesLeaveNothing
BY DEF RetainsRecent, BatchesLeaveNothing

\* The steps of a call other than a commit.
LEMMA ReaperStepInv ==
    ASSUME ReaperInv, NEW c \in Call, Start(c) \/ Step(c) \/ ReapFails(c) \/ LoseLock(c)
    PROVE  ReaperInv' /\ RetainsRecent /\ BatchesLeaveNothing
<1> DEFINE Kept == UNCHANGED rows /\ \A d \in Call : pc[d] = "batch" => pc'[d] # "loop"
<1>1. pc \in [Call -> {"idle", "lock", "latest", "elder", "loop", "batch", "next"}]
    BY DEF ReaperInv, ReaperTypeOK
<1>2. ASSUME NEW r \in {"none", "skipped", "nothing", "error", "success"},
             pc[c] # "idle", Return(c, r), UNCHANGED rows
      PROVE  ReaperInv' /\ Kept
    BY Zenon, <1>1, <1>2, ReturnInv DEF Return
<1>3. CASE Start(c)
    BY Zenon, <1>1, <1>3, StartInv, TablesKept DEF Start
<1>4. CASE ReapFails(c)
    BY Zenon, <1>2, <1>4, TablesKept DEF ReapFails
<1>5. CASE LoseLock(c)
    BY <1>1, <1>5, LoseLockInv, TablesKept DEF LoseLock
<1>6. CASE TryReaperLock(c)
    BY Zenon, <1>1, <1>6, TryReaperLockInv, TablesKept DEF TryReaperLock
<1>7. CASE LockTaken(c)
    BY Zenon, <1>2, <1>7, TablesKept DEF LockTaken
<1>8. CASE GetLatestHistoryLedger(c)
    BY Zenon, <1>1, <1>8, GetLatestInv, TablesKept DEF GetLatestHistoryLedger
<1>9. CASE ElderLedger(c)
    BY <1>1, <1>9, ElderLedgerInv, TablesKept DEF ElderLedger, Return
<1>10. CASE BeginBatch(c)
    BY Zenon, <1>1, <1>10, BeginBatchInv, TablesKept DEF BeginBatch
<1>11. CASE ClearedAll(c)
    BY Zenon, <1>2, <1>11, TablesKept DEF ClearedAll
<1>12. ASSUME NEW t \in Table, DeleteRange(c, t) PROVE ReaperInv' /\ RetainsRecent /\ BatchesLeaveNothing
    BY Zenon, <1>12, DeleteRangeInv, TablesKept DEF DeleteRange
<1>13. CASE GetNextLedgerSequence(c)
    BY Zenon, <1>1, <1>13, GetNextInv, TablesKept DEF GetNextLedgerSequence
<1>14. CASE NoNextLedger(c)
    BY Zenon, <1>2, <1>14, TablesKept DEF NoNextLedger
<1>15. CASE Commit(c)
    BY <1>15, CommitInv
<1> QED BY <1>3, <1>4, <1>5, <1>6, <1>7, <1>8, <1>9, <1>10, <1>11, <1>12, <1>13, <1>14, <1>15 DEF Step

\* With any number of processes, calls, tables and ledgers (reap.go), locks that
\* are lost and processes that die between any two steps, while live ingestion
\* and operators add ledgers: the tables agree on every ledger, no step removes
\* one of the newest RetentionCount ledgers, and a reaper that goes on to its
\* next batch leaves nothing behind.
THEOREM WholeOldLedgersReaped == ReaperSpec => ReapsWholeOldLedgers
<1> DEFINE Kept == RetainsRecent /\ BatchesLeaveNothing
<1>1. ASSUME ReaperInv, ReaperNext PROVE ReaperInv' /\ Kept
    <2>1. ASSUME NEW n \in Node, Crash(n) PROVE ReaperInv' /\ Kept
        <3>1. UNCHANGED rows /\ \A c \in Call : pc'[c] \in {"idle", pc[c]}
            BY Zenon, <2>1 DEF Crash
        <3>2. \A c \in Call : pc[c] = "batch" => pc'[c] # "loop"
            BY <3>1
        <3> QED BY Zenon, <1>1, <2>1, <3>1, <3>2, CrashInv, TablesKept
    <2> QED BY <1>1, <2>1, ReaperStepInv, IngestInv, ReingestInv DEF ReaperNext
<1>2. ASSUME ReaperInv, UNCHANGED reaperVars PROVE ReaperInv'
    BY Zenon, <1>2 DEF reaperVars, ReaperInv, ReaperTypeOK, BoundIsOld, WholeLedgers, LatestReached, BatchDeleted,
        BatchDeletedBy, Latest, Batch
<1>3. ReaperInv /\ [ReaperNext]_reaperVars => ReaperInv'
    BY <1>1, <1>2
<1>4. ReaperInv /\ [ReaperNext]_reaperVars =>
        [/\ (ReaperTypeOK /\ BoundIsOld /\ WholeLedgers)'
         /\ RetainsRecent /\ BatchesLeaveNothing]_reaperVars
    BY <1>1 DEF ReaperInv
<1> QED BY <1>3, <1>4, ReaperInitInv, PTL DEF ReaperSpec, ReapsWholeOldLedgers
=============================================================================
