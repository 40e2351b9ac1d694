-------------------------- MODULE ParallelReingest --------------------------
(***************************************************************************)
(* `db reingest range --parallel-workers` (internal/ingest/parallel.go).   *)
(* One goroutine cuts the ranges into jobs and hands them to the workers   *)
(* over an unbuffered channel; the first failing worker closes the stop    *)
(* channel; when all workers are gone the caller is told where to restart. *)
(***************************************************************************)
EXTENDS Integers, Sequences, FiniteSets, FiniteSetsExt

CONSTANTS
    Worker,        \* the worker goroutines, workerCount of them
    Ranges,        \* ledgerRanges, a sequence of [from, to]
    MinBatchSize,  \* minBatchSize, 0 when unset
    MaxBatchSize,  \* maxBatchSize, 0 when unset
    Interval,      \* HistoryCheckpointLedgerInterval (64)
    MaxUint32      \* math.MaxUint32

\* validateRanges
RangesValid ==
    /\ Ranges \in Seq([from : 1..MaxUint32, to : 1..MaxUint32])
    /\ Ranges # <<>>
    /\ \A i \in DOMAIN Ranges :
        /\ Ranges[i].from <= Ranges[i].to
        /\ i > 1 => Ranges[i - 1].to < Ranges[i].from
\* newParallelSystems
SystemsValid ==
    /\ IsFiniteSet(Worker) /\ Worker # {}
    /\ MaxUint32 \in Nat /\ Interval \in Nat \ {0}
    /\ MinBatchSize \in Nat /\ (MinBatchSize # 0 => MinBatchSize >= Interval)
    /\ MaxBatchSize \in Nat
    /\ MinBatchSize # 0 /\ MaxBatchSize # 0 => MaxBatchSize >= MinBatchSize
ASSUME ParallelAssumption == RangesValid /\ SystemsValid

VARIABLES
    main,          \* where ReingestRange is
    index, from,   \* enqueueReingestTasks: current range, subRangeFrom
    lowestLedger,  \* start of the first job handed out
    stop,          \* the stop channel is closed
    workerAt,            \* workerAt[w]: where worker w is
    job,           \* job[w]: the range w works on or failed on
    lowestErr,     \* lowestRangeErr: start of its range, MaxUint32 when nil
    done,          \* ledgers reingested successfully
    rebuilt,       \* ledgers whose trade aggregations were rebuilt
    parallelResult         \* what ReingestRange returned

parallelVars == <<main, index, from, lowestLedger, stop, workerAt, job, lowestErr, done,
          rebuilt, parallelResult>>

LedgersOf(r) == r.from .. r.to
Job == [from : 1..MaxUint32, to : 0..MaxUint32]
NoRange == [from |-> 1, to |-> 0]
AllLedgers == UNION {LedgersOf(Ranges[i]) : i \in DOMAIN Ranges}
\* The sum of the sizes: the ranges are disjoint.
totalRangeSize == Cardinality(AllLedgers)

calculateParallelLedgerBatchSize(rangeSize) ==
    LET share   == rangeSize \div Cardinality(Worker)
        atLeast == IF MinBatchSize > 0 THEN Max({share, MinBatchSize}) ELSE share
        size    == IF MaxBatchSize > 0 THEN Min({atLeast, MaxBatchSize}) ELSE atLeast
    IN  IF size > Interval THEN (size \div Interval) * Interval ELSE Interval

batchSize == calculateParallelLedgerBatchSize(totalRangeSize)

\* enqueueReingestTasks loops while subRangeFrom < EndSequence.
HasJob == index <= Len(Ranges) /\ from < Ranges[index].to

NextJob == [from |-> from, to |-> Min({from + batchSize - 1, Ranges[index].to})]

\* So the last ledger of a range is never handed out when it would be a job of
\* its own.
Dropped(ledger) ==
    \E i \in DOMAIN Ranges :
        ledger = Ranges[i].to /\ (Ranges[i].to - Ranges[i].from) % batchSize = 0
-----------------------------------------------------------------------------
ParallelInit ==
    /\ main = "create"
    /\ index = 1
    /\ from = Ranges[1].from
    /\ lowestLedger = MaxUint32
    /\ stop = FALSE
    /\ workerAt = [w \in Worker |-> "new"]
    /\ job = [w \in Worker |-> NoRange]
    /\ lowestErr = MaxUint32
    /\ done = {}
    /\ rebuilt = {}
    /\ parallelResult = "none"

\* systemFactory and the start of one worker goroutine.
Create(w) ==
    /\ main = "create"
    /\ workerAt[w] = "new"
    /\ workerAt' = [workerAt EXCEPT ![w] = "idle"]
    /\ main' = IF \A v \in Worker \ {w} : workerAt[v] # "new" THEN "enqueue" ELSE main
    /\ UNCHANGED <<index, from, lowestLedger, stop, job, lowestErr, done, rebuilt, parallelResult>>

CreateFails ==
    /\ main = "create"
    /\ main' = "returned"
    /\ parallelResult' = "createError"
    /\ UNCHANGED <<index, from, lowestLedger, stop, workerAt, job, lowestErr, done, rebuilt>>

\* Mutant: the next job starts at the last ledger of this one.
HandOutOverlap(w) ==
    /\ main = "enqueue"
    /\ HasJob
    /\ workerAt[w] = "idle"
    /\ workerAt' = [workerAt EXCEPT ![w] = "working"]
    /\ job' = [job EXCEPT ![w] = NextJob]
    /\ lowestLedger' = IF from < lowestLedger THEN from ELSE lowestLedger
    /\ from' = NextJob.to
    /\ UNCHANGED <<main, index, stop, lowestErr, done, rebuilt, parallelResult>>

\* The rendezvous on reingestJobQueue; still possible when stop is closed,
\* because select chooses among the ready cases.
HandOut(w) ==
    /\ main = "enqueue"
    /\ HasJob
    /\ workerAt[w] = "idle"
    /\ workerAt' = [workerAt EXCEPT ![w] = "working"]
    /\ job' = [job EXCEPT ![w] = NextJob]
    /\ lowestLedger' = IF from < lowestLedger THEN from ELSE lowestLedger
    /\ from' = NextJob.to + 1
    /\ UNCHANGED <<main, index, stop, lowestErr, done, rebuilt, parallelResult>>

NextRange ==
    /\ main = "enqueue"
    /\ ~HasJob
    /\ index < Len(Ranges)
    /\ index' = index + 1
    /\ from' = Ranges[index + 1].from
    /\ UNCHANGED <<main, lowestLedger, stop, workerAt, job, lowestErr, done, rebuilt, parallelResult>>

\* enqueueReingestTasks returns, because stop is closed or there is no job
\* left; then stop is closed.
EnqueueReturns ==
    /\ main = "enqueue"
    /\ \/ stop /\ HasJob
       \/ ~HasJob /\ index = Len(Ranges)
    /\ main' = "wait"
    /\ stop' = TRUE
    /\ UNCHANGED <<index, from, lowestLedger, workerAt, job, lowestErr, done, rebuilt, parallelResult>>

\* runReingestWorker
WorkerStops(w) ==
    /\ workerAt[w] = "idle"
    /\ stop
    /\ workerAt' = [workerAt EXCEPT ![w] = "exited"]
    /\ UNCHANGED <<main, index, from, lowestLedger, stop, job, lowestErr, done, rebuilt, parallelResult>>

WorkerSucceeds(w) ==
    /\ workerAt[w] = "working"
    /\ done' = done \cup LedgersOf(job[w])
    /\ workerAt' = [workerAt EXCEPT ![w] = "idle"]
    /\ job' = [job EXCEPT ![w] = NoRange]
    /\ UNCHANGED <<main, index, from, lowestLedger, stop, lowestErr, rebuilt, parallelResult>>

WorkerFails(w) ==
    /\ workerAt[w] = "working"
    /\ workerAt' = [workerAt EXCEPT ![w] = "failed"]
    /\ UNCHANGED <<main, index, from, lowestLedger, stop, job, lowestErr, done, rebuilt, parallelResult>>

\* Mutant: the error of the last failing worker wins.
RecordLastError(w) ==
    /\ workerAt[w] = "failed"
    /\ lowestErr' = job[w].from
    /\ workerAt' = [workerAt EXCEPT ![w] = "recorded"]
    /\ UNCHANGED <<main, index, from, lowestLedger, stop, job, done, rebuilt, parallelResult>>

\* Under lowestRangeErrMutex.
RecordError(w) ==
    /\ workerAt[w] = "failed"
    /\ lowestErr' = IF lowestErr = MaxUint32 \/ lowestErr > job[w].from
                    THEN job[w].from ELSE lowestErr
    /\ workerAt' = [workerAt EXCEPT ![w] = "recorded"]
    /\ UNCHANGED <<main, index, from, lowestLedger, stop, job, done, rebuilt, parallelResult>>

\* Mutant: a failing worker does not close the stop channel.
CloseNothing(w) ==
    /\ workerAt[w] = "recorded"
    /\ workerAt' = [workerAt EXCEPT ![w] = "exited"]
    /\ UNCHANGED <<main, index, from, lowestLedger, stop, job, lowestErr, done, rebuilt, parallelResult>>

CloseStop(w) ==
    /\ workerAt[w] = "recorded"
    /\ stop' = TRUE
    /\ workerAt' = [workerAt EXCEPT ![w] = "exited"]
    /\ UNCHANGED <<main, index, from, lowestLedger, job, lowestErr, done, rebuilt, parallelResult>>

Waited == main = "wait" /\ \A w \in Worker : workerAt[w] = "exited"

\* wg.Wait returned and every job succeeded: rebuildTradeAggRanges.
ReturnDone ==
    /\ Waited
    /\ lowestErr = MaxUint32
    /\ \/ rebuilt' = AllLedgers /\ parallelResult' = "ok"
       \/ rebuilt' = rebuilt /\ parallelResult' = "rebuildError"
    /\ main' = "returned"
    /\ UNCHANGED <<index, from, lowestLedger, stop, workerAt, job, lowestErr, done>>

\* Mutant: the aggregations of what was reingested are not rebuilt.
ReturnErrorNoRebuild ==
    /\ Waited
    /\ lowestErr # MaxUint32
    /\ parallelResult' = "failed"
    /\ main' = "returned"
    /\ UNCHANGED <<index, from, lowestLedger, stop, workerAt, job, lowestErr, done, rebuilt>>

\* A job failed: the aggregations below it are rebuilt (an error of that is
\* only logged) and the restart range from lowestErr to the last ledger is reported.
ReturnError ==
    /\ Waited
    /\ lowestErr # MaxUint32
    /\ \/ rebuilt' = lowestLedger .. lowestErr /\ parallelResult' = "failed"
       \/ rebuilt' = rebuilt /\ parallelResult' = "failedTwice"
    /\ main' = "returned"
    /\ UNCHANGED <<index, from, lowestLedger, stop, workerAt, job, lowestErr, done>>

Main == CreateFails \/ NextRange \/ EnqueueReturns \/ ReturnDone \/ ReturnError
WorkerStep(w) ==
    \/ WorkerStops(w) \/ WorkerSucceeds(w) \/ WorkerFails(w)
    \/ RecordError(w) \/ CloseStop(w)

Caller == Main \/ \E w \in Worker : Create(w) \/ HandOut(w)

ParallelNext == Caller \/ \E w \in Worker : WorkerStep(w)

\* Goroutines are scheduled, a rendezvous that stays possible takes place and
\* System.ReingestRange returns.
ParallelSpec == ParallelInit /\ [][ParallelNext]_parallelVars

ParallelFairSpec == ParallelSpec /\ WF_parallelVars(Caller) /\ \A w \in Worker : WF_parallelVars(WorkerStep(w))
-----------------------------------------------------------------------------
ParallelTypeOK ==
    /\ main \in {"create", "enqueue", "wait", "returned"}
    /\ index \in DOMAIN Ranges
    /\ from \in 1 .. MaxUint32 + 1
    /\ lowestLedger \in 1..MaxUint32
    /\ stop \in BOOLEAN
    /\ workerAt \in [Worker -> {"new", "idle", "working", "failed", "recorded", "exited"}]
    /\ job \in [Worker -> Job]
    /\ lowestErr \in 1..MaxUint32
    /\ done \subseteq AllLedgers
    /\ rebuilt \subseteq 1..MaxUint32
    /\ parallelResult \in {"none", "ok", "failed", "failedTwice", "rebuildError", "createError"}

\* No two workers ever delete and insert rows of the same ledger, and none
\* works on a ledger that was already reingested.
JobsDisjoint ==
    \A v, w \in Worker :
        /\ v # w => LedgersOf(job[v]) \cap LedgersOf(job[w]) = {}
        /\ LedgersOf(job[w]) \cap done = {}

\* "this is where the user needs to start again to prevent the gaps": below
\* the recommended restart ledger everything was reingested, and after a
\* success everything was, except the ledgers that are never handed out.
NoGapBelowRestart ==
    /\ parallelResult \in {"failed", "failedTwice"} =>
        \A ledger \in AllLedgers : ledger < lowestErr => ledger \in done \/ Dropped(ledger)
    /\ parallelResult \in {"ok", "rebuildError"} =>
        \A ledger \in AllLedgers : ledger \in done \/ Dropped(ledger)

\* Whatever was reingested has its trade aggregations rebuilt when the call
\* returns, or lies in the range the user is told to reingest.
TradesAggregated ==
    parallelResult \in {"ok", "failed"} =>
        \A ledger \in done : ledger \in rebuilt \/ (parallelResult = "failed" /\ ledger >= lowestErr)

\* Whatever fails, the range can be restarted from the ledger the error names,
\* jobs do not overlap, and the trade aggregations cover what was reingested.
Restartable == ParallelTypeOK /\ JobsDisjoint /\ NoGapBelowRestart /\ TradesAggregated

\* "exiting the process only after the complete reingestion range is finished
\* or an error is encountered".
ReingestsEverything == parallelResult = "ok" => AllLedgers \subseteq done
=============================================================================
