----------------------------- MODULE MCProgress -----------------------------
(***************************************************************************)
(* What must happen in Horizon and in stellar-rpc in the end, for TLC.     *)
(* The components share no state, so a behaviour exercises one of them and *)
(* the fairness of each is about its own steps.                            *)
(***************************************************************************)
EXTENDS MCHistoryApi, TLC

CONSTANTS
    w1, w2, c1, c2, n1, n2, NoCall, ledgers, tradesTable, k1, k2, l1, offer, pool, r1, r2, r3, tx, NoHash,
    NoJob, Exited, Unused

VARIABLES
    part,
    main, index, from, lowestLedger, stop, workerAt, job, lowestErr, done, rebuilt, parallelResult,
    history, pending, lock, callAt, reapLatest, start, end, todo, deleted, result,
    ids, nextId, refs, offset, loader, keys, known, inserted, toShare, shared,
    reaper, newOffset, orphans, snapshot, toLock, locked, late,
    truth, rows, lastIngested, lastHistory, compaction, bookInvalid, outdated, rebuilds, graph, lastLedger,
    closed, queue, applied, succeeded, ingested, coreSeen, histSeen, pc, submitErr, channel, response,
    listeners, age, txTick, found, latest, tickAge,
    net, rpcLedgers, cache, feeBuckets, feeStart, feesApart, at, next, tries, faults, crashes, request,
    tip, db, fillAt, dbRange, backfill, frontfill, nBackfill, lBound, chunk, chunks, iteration, restarts,
    caller, handler, inLimiter, requestChan, worker, isClosed, daemon, panics

parallelVars == <<main, index, from, lowestLedger, stop, workerAt, job, lowestErr, done, rebuilt, parallelResult>>
reaperVars == <<history, pending, lock, callAt, reapLatest, start, end, todo, deleted, result>>
lookupVars == <<ids, nextId, refs, offset, loader, keys, known, inserted, toShare, shared,
                reaper, newOffset, orphans, snapshot, toLock, locked, late>>
bookVars == <<truth, rows, lastIngested, lastHistory, compaction, bookInvalid, outdated, rebuilds, graph, lastLedger>>
txVars == <<closed, queue, applied, succeeded, ingested, coreSeen, histSeen, pc, submitErr, channel, response,
            listeners, age, txTick, found, latest, tickAge>>
ingestVars == <<net, rpcLedgers, cache, feeBuckets, feeStart, feesApart, at, next, tries, faults, crashes, request>>
backfillVars == <<tip, db, fillAt, dbRange, backfill, frontfill, nBackfill, lBound, chunk, chunks, iteration, restarts>>
requestVars == <<caller, handler, inLimiter, requestChan, worker, isClosed, daemon, panics>>
horizonVars == <<parallelVars, reaperVars, lookupVars, bookVars, txVars>>
rpcVars == <<ingestVars, backfillVars, requestVars>>
MCVars == <<part, vars, horizonVars, rpcVars>>

TwoRanges == <<[from |-> 2, to |-> 11], [from |-> 13, to |-> 13]>>
CallNodes == c1 :> n1 @@ c2 :> n2

Parallel == INSTANCE ParallelReingest WITH
    Worker <- {w1, w2}, Ranges <- TwoRanges, MinBatchSize <- 0, MaxBatchSize <- 4,
    Interval <- 3, MaxUint32 <- 15

Reaper == INSTANCE HistoryReaper WITH
    rows <- history, pc <- callAt, latest <- reapLatest,
    Table <- {ledgers, tradesTable}, LedgerTable <- ledgers, Node <- {n1, n2}, Call <- {c1, c2},
    NodeOf <- CallNodes, RetentionCount <- 2, BatchSize <- 1, Modulus <- 16,
    MaxLedger <- 4, InitHistory <- {1 .. 4}, Reingested <- {2}

Lookups == INSTANCE LookupTables WITH
    Key <- {k1, k2}, Ledger <- {l1}, LookupBatchSize <- 1, MaxId <- 2

Book == INSTANCE OrderBookStream WITH
    Entries <- {offer, pool}, Values <- {1}, Window <- 2, MaxBookLedger <- 3, MaxRebuilds <- 1

Submission == INSTANCE TxSub WITH
    Hash <- {tx}, Request <- {r1, r2}, HashOf <- r1 :> tx @@ r2 :> tx,
    SeqOf <- tx :> 1, InnerOf <- tx :> NoHash, Malformed <- {},
    SinceWindow <- 1, SubmissionTimeout <- 1, TickMax <- 0, MaxClosed <- 2, MaxCalls <- 2

\* stellar-rpc with no more failures than retries, and a crash.
Ingest == INSTANCE RpcIngest WITH
    ledgers <- rpcLedgers, ingestPc <- at,
    Retention <- 3, FeeRetention <- 2, MaxRetries <- 2, Readers <- {r1},
    Faults <- {"prepare", "ledger", "checkpoint"}, MaxFaults <- 2, MaxCrashes <- 1, MaxLedger <- 5
\* The datastore grows at any moment and may be far behind the database.
Fill == INSTANCE RpcBackfill WITH
    Window <- 3, Frequency <- 4, ChunkSize <- 2, RefreshEvery <- 1, DsFirst <- 2, Quiet <- FALSE, Lag <- 4,
    MaxTip <- 14, MaxRestarts <- 2
\* One request more than the limit, two more than the workers.
Limited == INSTANCE RpcRequests WITH
    pending <- inLimiter, Idle <- NoJob,
    Requests <- {r1, r2, r3}, Workers <- {w1}, Limit <- 2, QueueSize <- 1

ASSUME ProgressConfig ==
    /\ Parallel!RangesValid /\ Parallel!SystemsValid
    /\ Reaper!ReapConfig /\ Reaper!DatabaseConfig
    /\ Lookups!LookupConfig /\ Book!StreamConfig /\ Submission!TxSubAssumption
    /\ Ingest!IngestConfig /\ Fill!BackfillConfig /\ Limited!RequestsConfig

\* The variables of the other components are not used.
NoStream ==
    /\ replicated = Unused /\ log = Unused /\ tick = Unused /\ status = Unused /\ c = Unused
NoReingestion ==
    /\ main = Unused /\ index = Unused /\ from = Unused /\ lowestLedger = Unused /\ stop = Unused
    /\ workerAt = Unused /\ job = Unused /\ lowestErr = Unused /\ done = Unused /\ rebuilt = Unused
    /\ parallelResult = Unused
NoReaper ==
    /\ history = Unused /\ pending = Unused /\ lock = Unused /\ callAt = Unused /\ reapLatest = Unused
    /\ start = Unused /\ end = Unused /\ todo = Unused /\ deleted = Unused /\ result = Unused
NoLookup ==
    /\ ids = Unused /\ nextId = Unused /\ refs = Unused /\ offset = Unused /\ loader = Unused /\ keys = Unused
    /\ known = Unused /\ inserted = Unused /\ toShare = Unused /\ shared = Unused /\ reaper = Unused
    /\ newOffset = Unused /\ orphans = Unused /\ snapshot = Unused /\ toLock = Unused /\ locked = Unused
    /\ late = Unused
NoBook ==
    /\ truth = Unused /\ rows = Unused /\ lastIngested = Unused /\ lastHistory = Unused /\ compaction = Unused
    /\ bookInvalid = Unused /\ outdated = Unused /\ rebuilds = Unused /\ graph = Unused
    /\ lastLedger = Unused
NoSubmission ==
    /\ closed = Unused /\ queue = Unused /\ applied = Unused /\ succeeded = Unused /\ ingested = Unused
    /\ coreSeen = Unused /\ histSeen = Unused /\ pc = Unused /\ submitErr = Unused /\ channel = Unused
    /\ response = Unused /\ listeners = Unused /\ age = Unused /\ txTick = Unused /\ found = Unused
    /\ latest = Unused /\ tickAge = Unused
NoIngestion ==
    /\ net = Unused /\ rpcLedgers = Unused /\ cache = Unused /\ feeBuckets = Unused /\ feeStart = Unused
    /\ feesApart = Unused /\ at = Unused /\ next = Unused /\ tries = Unused /\ faults = Unused /\ crashes = Unused
    /\ request = Unused
NoFill ==
    /\ tip = Unused /\ db = Unused /\ fillAt = Unused /\ dbRange = Unused /\ backfill = Unused
    /\ frontfill = Unused /\ nBackfill = Unused /\ lBound = Unused /\ chunk = Unused /\ chunks = Unused
    /\ iteration = Unused /\ restarts = Unused
NoRequests ==
    /\ caller = Unused /\ handler = Unused /\ inLimiter = Unused /\ requestChan = Unused /\ worker = Unused
    /\ isClosed = Unused /\ daemon = Unused /\ panics = Unused

MCInit ==
    /\ part \in {"stream", "parallel", "reaper", "lookup", "book", "submission", "ingest", "backfill", "requests"}
    /\ IF part = "stream" THEN Init ELSE NoStream
    /\ IF part = "parallel" THEN Parallel!ParallelInit ELSE NoReingestion
    /\ IF part = "reaper" THEN Reaper!ReaperInit ELSE NoReaper
    /\ IF part = "lookup" THEN Lookups!LookupInit ELSE NoLookup
    /\ IF part = "book" THEN Book!BookInit ELSE NoBook
    /\ IF part = "submission" THEN Submission!TxInit ELSE NoSubmission
    /\ IF part = "ingest" THEN Ingest!IngestInit ELSE NoIngestion
    /\ IF part = "backfill" THEN Fill!BackfillInit ELSE NoFill
    /\ IF part = "requests" THEN Limited!RequestsInit ELSE NoRequests

\* A step of one component leaves the others alone.
InStream == part = "stream" /\ UNCHANGED <<part, horizonVars, rpcVars>>
InParallel == part = "parallel" /\ UNCHANGED <<part, vars, reaperVars, lookupVars, bookVars, txVars, rpcVars>>
InReaper == part = "reaper" /\ UNCHANGED <<part, vars, parallelVars, lookupVars, bookVars, txVars, rpcVars>>
InLookup == part = "lookup" /\ UNCHANGED <<part, vars, parallelVars, reaperVars, bookVars, txVars, rpcVars>>
InBook == part = "book" /\ UNCHANGED <<part, vars, parallelVars, reaperVars, lookupVars, txVars, rpcVars>>
InSubmission == part = "submission" /\ UNCHANGED <<part, vars, parallelVars, reaperVars, lookupVars, bookVars, rpcVars>>
InIngestion == part = "ingest" /\ UNCHANGED <<part, vars, horizonVars, backfillVars, requestVars>>
InFill == part = "backfill" /\ UNCHANGED <<part, vars, horizonVars, ingestVars, requestVars>>
InRequests == part = "requests" /\ UNCHANGED <<part, vars, horizonVars, ingestVars, backfillVars>>

MCNext ==
    \/ InStream /\ Next
    \/ InParallel /\ Parallel!ParallelNext
    \/ InReaper /\ Reaper!ReaperNext
    \/ InLookup /\ Lookups!Steps
    \/ InBook /\ Book!BookNext
    \/ InSubmission /\ Submission!TxNext
    \/ InIngestion /\ Ingest!IngestNext
    \/ InFill /\ Fill!BackfillNext
    \/ InRequests /\ Limited!RequestsNext

\* The fairness of each component, as in its module. The component of a behaviour
\* is fixed, so that the k-th fair action of each can share one condition.
Running ==
    CASE part = "stream" -> vars
      [] part = "parallel" -> parallelVars
      [] part = "reaper" -> reaperVars
      [] part = "lookup" -> lookupVars
      [] part = "book" -> bookVars
      [] part = "submission" -> txVars
      [] part = "ingest" -> ingestVars
      [] part = "backfill" -> backfillVars
      [] part = "requests" -> requestVars
WeaklyFair(k) ==
    /\ UNCHANGED part
    /\ CASE part = "stream" -> \/ k = 1 /\ IngestLedger
                               \/ k = 2 /\ TickLatest
                               \/ k = 3 /\ TickElder
                               \/ k = 4 /\ SetHorizonStatus
                               \/ k = 5 /\ Send
                               \/ k = 6 /\ ServeNext
         [] part = "parallel" -> \/ k = 1 /\ Parallel!Caller
                                 \/ k = 2 /\ Parallel!WorkerStep(w1)
                                 \/ k = 3 /\ Parallel!WorkerStep(w2)
         [] part = "reaper" -> \/ k = 1 /\ Reaper!DeadlockAbort(c1)
                               \/ k = 2 /\ Reaper!DeadlockAbort(c2)
         [] part = "lookup" -> \/ k = 1 /\ Lookups!ReapStep
                               \/ k = 2 /\ Lookups!RollbackLedger
         [] part = "book" -> \/ k = 1 /\ Book!Update
                             \/ k = 2 /\ Book!IngestLedger
                             \/ k = 3 /\ Book!HistoryRange
                             \/ k = 4 /\ Book!BuildState
         [] part = "submission" -> \/ k = 1 /\ Submission!TickStarts
                                   \/ k = 2 /\ Submission!TickFinishes(tx)
                                   \/ k = 3 /\ Submission!TickCleans
                                   \/ k = 4 /\ Submission!PendingAdd(r1)
                                   \/ k = 5 /\ Submission!PendingAdd(r2)
         [] part = "ingest" -> \/ k = 1 /\ Ingest!CloseLedger
                               \/ k = 2 /\ Ingest!Startup
                               \/ k = 3 /\ Ingest!Service
         [] part = "backfill" -> k = 1 /\ Fill!Run
         [] part = "requests" -> \/ k = 1 /\ Limited!HandlerStep(r1)
                                 \/ k = 2 /\ Limited!HandlerStep(r2)
                                 \/ k = 3 /\ Limited!HandlerStep(r3)
                                 \/ k = 4 /\ Limited!Timeout(r1)
                                 \/ k = 5 /\ Limited!Timeout(r2)
                                 \/ k = 6 /\ Limited!Timeout(r3)
                                 \/ k = 7 /\ Limited!Take(w1)
                                 \/ k = 8 /\ Limited!Finish(w1)
                                 \/ k = 9 /\ Limited!CloseStep
StronglyFair(k) ==
    /\ UNCHANGED part
    /\ CASE part = "stream" -> k = 1 /\ Delivers
         [] part = "reaper" -> \/ k = 1 /\ Reaper!Step(c1)
                               \/ k = 2 /\ Reaper!Step(c2)
         [] part = "lookup" -> k = 1 /\ Lookups!LockRow
         [] part = "book" -> k = 1 /\ Book!UpdateAndVerify
         [] part = "submission" -> \/ k = 1 /\ Submission!Advance
                                   \/ k = 2 /\ Submission!TickQueries
         [] OTHER -> FALSE
MCSpec ==
    /\ MCInit /\ [][MCNext]_MCVars
    /\ \A k \in 1 .. 9 : WF_Running(WeaklyFair(k))
    /\ \A k \in 1 .. 2 : SF_Running(StronglyFair(k))

-----------------------------------------------------------------------------
\* Nobody waits for ever: parallel reingestion returns, a process that reaps can
\* reap again, a submission in the open list is answered, filling the database
\* of stellar-rpc ends although the datastore grows meanwhile, a request to it
\* is answered and leaves no handler behind, and closing the daemon ends with
\* requests in all stages (processes are alike, and so are requests).
Waiting ==
    \/ part = "parallel" /\ main # "returned"
    \/ part = "reaper" /\ pending[n1]
    \/ part = "submission" /\ pc[r1] = "add"
    \/ part = "backfill" /\ fillAt = "bounds"
    \/ part = "requests" /\ (handler[r1] = "arrived" \/ daemon = "draining")
Served ==
    CASE part = "submission" -> channel[r1] # <<>>
      [] part = "backfill" -> fillAt \in {"live", "fatal", "down"}
      [] part = "requests" -> handler[r1] \in {"none", "done"} /\ caller[r1] # "waiting" /\ daemon # "draining"
      [] OTHER -> ~Waiting
CallsReturn == Waiting ~> Served

\* Nothing stays behind for ever: a row of a lookup table that nothing refers to
\* is deleted (keys are alike), an order book that missed a rebuild is built
\* again, the database of stellar-rpc reaches the head of the network, and a
\* stream of history catches up with the ledgers that closed.
Stale ==
    \/ part = "lookup" /\ ids[k1] # 0 /\ ids[k1] \notin Lookups!Referenced \union shared
    \/ part = "book" /\ \E l \in DOMAIN truth : lastLedger = l /\ graph # Book!ValuesOf(truth[l])
    \/ part = "ingest" /\ Ingest!Latest # 5
    \/ part = "stream" /\ ~CaughtUp
Fresh == IF part = "book" THEN Book!GraphIsState ELSE ~Stale
StaleIsRepaired == Stale ~> Fresh
=============================================================================
