---------------------------- MODULE RpcBackfill ----------------------------
(***************************************************************************)
(* Filling the database of stellar-rpc from the datastore at startup:      *)
(* backwards from its oldest ledger, then forwards to the last checkpoint, *)
(* chunk by chunk, before live ingestion continues.                        *)
(***************************************************************************)
EXTENDS Integers, FiniteSets, FiniteSetsExt

CONSTANTS
    Window,         \* HistoryRetentionWindow
    Frequency,      \* CheckpointFrequency
    ChunkSize,
    RefreshEvery,   \* chunks between two looks at the tip
    DsFirst,        \* oldest ledger in the datastore
    Quiet,          \* no checkpoint is published while frontfill has nothing to do
    Lag,            \* how far the datastore may be behind the network
    MaxTip, MaxRestarts    \* bounds

BackfillConfig ==
    /\ {Window, Frequency, ChunkSize, RefreshEvery} \subseteq Nat \ {0} /\ {Lag, MaxTip, MaxRestarts} \subseteq Nat
    /\ DsFirst \in 1 .. MaxTip /\ Quiet \in BOOLEAN
ASSUME BackfillAssumption == BackfillConfig

VARIABLES
    tip,            \* newest ledger in the datastore
    db,             \* ledgers in the database
    fillAt,
    dbRange,        \* databaseInfo: what NewBackfillMeta read
    backfill,       \* bounds.backfill
    frontfill,      \* bounds.frontfill
    nBackfill,
    lBound, chunk, chunks,   \* the loop over chunks
    iteration,      \* of runFrontfill
    restarts

bounds == <<backfill, frontfill, nBackfill>>
loop == <<lBound, chunk, chunks, iteration>>
backfillVars == <<tip, db, fillAt, dbRange, bounds, loop, restarts>>

NoRange == [first |-> 0, last |-> 0]
RangeOf(ls) == IF ls = {} THEN NoRange ELSE [first |-> Min(ls), last |-> Max(ls)]
DbGapless(ls) == ls = {} \/ Cardinality(ls) = Max(ls) - Min(ls) + 1

\* The checkpoint at or before a ledger.
PrevCheckpoint(l) == IF l < Frequency THEN Frequency - 1 ELSE ((l + 1) \div Frequency) * Frequency - 1

BackfillInit ==
    /\ tip \in Frequency .. MaxTip /\ db = {} /\ fillAt = "down" /\ dbRange = NoRange
    /\ backfill = NoRange /\ frontfill = NoRange /\ nBackfill = 0
    /\ lBound = 0 /\ chunk = 0 /\ chunks = 0 /\ iteration = 0 /\ restarts = 0

\* A chunk is one transaction: it collides with a stored ledger, or is stored
\* and the ledgers before the window of its last ledger are trimmed.
TrimOlder(ls, latest) ==
    IF latest + 1 <= Window THEN ls ELSE {l \in ls : l >= latest + 1 - Window}
IngestRange(first, last) ==
    /\ first .. last \intersect db = {}
    /\ db' = TrimOlder(db \union (first .. last), last)

-----------------------------------------------------------------------------
\* NewBackfillMeta and the first verifyDbGapless.
NewBackfillMeta ==
    /\ fillAt = "down"
    /\ dbRange' = RangeOf(db)
    /\ fillAt' = IF DbGapless(db) THEN "bounds" ELSE "fatal"
    /\ UNCHANGED <<tip, db, bounds, loop, restarts>>

\* cfg.Backfill may be off in one run of the process and on in the next.
StartWithoutBackfill ==
    /\ fillAt = "down"
    /\ fillAt' = "live"
    /\ UNCHANGED <<tip, db, dbRange, bounds, loop, restarts>>

FillStartMin(n) == IF tip >= n + 1 THEN Max({tip - n + 1, DsFirst}) ELSE DsFirst

SetBounds ==
    /\ fillAt = "bounds"
    /\ nBackfill' = Min({Window, tip})
    /\ LET start == FillStartMin(nBackfill')
       IN  \/ /\ dbRange = NoRange
              /\ frontfill' = [first |-> start, last |-> 0] /\ backfill' = NoRange
              /\ fillAt' = "front"
           \/ /\ dbRange # NoRange /\ dbRange.first <= start
              /\ frontfill' = [first |-> dbRange.last + 1, last |-> 0] /\ backfill' = NoRange
              /\ fillAt' = "front"
           \/ /\ dbRange.first > start /\ tip >= dbRange.first
              /\ backfill' = [first |-> start, last |-> dbRange.first - 1]
              /\ frontfill' = [first |-> dbRange.last + 1, last |-> 0]
              /\ fillAt' = "back"
           \/ /\ dbRange.first > start /\ tip < dbRange.first
              /\ fillAt' = "fatal" /\ UNCHANGED <<backfill, frontfill>>
    /\ lBound' = backfill'.first /\ chunk' = backfill'.last /\ chunks' = 0 /\ iteration' = 0
    /\ UNCHANGED <<tip, db, dbRange, restarts>>

\* One chunk of backfillChunks, from newest to oldest; every RefreshEvery
\* chunks the left bound follows the tip.
LeftChunkBound == IF chunk >= lBound + ChunkSize - 1 THEN Max({lBound, chunk - ChunkSize + 1}) ELSE lBound

RefreshedBoundShort ==
    IF chunks > 0 /\ chunks % RefreshEvery = 0 THEN Max({tip - nBackfill + 2, DsFirst}) ELSE lBound

RefreshedBound ==
    IF chunks > 0 /\ chunks % RefreshEvery = 0 THEN Max({tip - nBackfill + 1, DsFirst}) ELSE lBound

BackfillChunk ==
    /\ fillAt = "back" /\ chunk >= lBound
    /\ IngestRange(LeftChunkBound, chunk)
    /\ IF LeftChunkBound <= lBound
       THEN fillAt' = "front" /\ UNCHANGED <<lBound, chunk, chunks>>
       ELSE fillAt' = fillAt /\ chunk' = LeftChunkBound - 1 /\ lBound' = RefreshedBound /\ chunks' = chunks + 1
    /\ UNCHANGED <<tip, dbRange, bounds, iteration, restarts>>

\* The loop ends because the left bound has overtaken it.
BackfillOvertaken ==
    /\ fillAt = "back" /\ chunk < lBound
    /\ fillAt' = "front"
    /\ UNCHANGED <<tip, db, dbRange, bounds, loop, restarts>>

-----------------------------------------------------------------------------
\* runFrontfill: the tip is read, then the ledgers up to its checkpoint are
\* filled if there are at least two.
NumIterations == IF backfill = NoRange THEN 2 ELSE 1

NeedsFillLazily(last) == frontfill.first + 1 < last

NeedsFill(last) == frontfill.first < last

StartIteration ==
    /\ fillAt = "front" /\ iteration < NumIterations
    /\ LET last == PrevCheckpoint(tip)
       IN  IF NeedsFill(last)
           THEN /\ frontfill' = [frontfill EXCEPT !.last = last]
                /\ chunk' = frontfill.first /\ fillAt' = "fill" /\ iteration' = iteration
           ELSE /\ frontfill' = [first |-> last + 1, last |-> last]
                /\ iteration' = iteration + 1 /\ UNCHANGED <<chunk, fillAt>>
    /\ UNCHANGED <<tip, db, dbRange, backfill, nBackfill, lBound, chunks, restarts>>

FrontfillDoneLate ==
    /\ fillAt = "front" /\ iteration > NumIterations
    /\ fillAt' = "verify"
    /\ UNCHANGED <<tip, db, dbRange, bounds, loop, restarts>>

FrontfillDone ==
    /\ fillAt = "front" /\ iteration = NumIterations
    /\ fillAt' = "verify"
    /\ UNCHANGED <<tip, db, dbRange, bounds, loop, restarts>>

RightChunkBound == Min({frontfill.last, chunk + ChunkSize - 1})

NextChunkSkipping == chunk + ChunkSize + 1

NextChunkOverlapping == chunk + ChunkSize - 1

NextChunk == chunk + ChunkSize

FrontfillChunk ==
    /\ fillAt = "fill" /\ chunk <= frontfill.last
    /\ IngestRange(chunk, RightChunkBound)
    /\ chunk' = NextChunk
    /\ UNCHANGED <<tip, fillAt, dbRange, bounds, lBound, chunks, iteration, restarts>>

IterationFilled ==
    /\ fillAt = "fill" /\ chunk > frontfill.last
    /\ frontfill' = [frontfill EXCEPT !.first = frontfill.last + 1]
    /\ iteration' = iteration + 1 /\ fillAt' = "front"
    /\ UNCHANGED <<tip, db, dbRange, backfill, nBackfill, lBound, chunk, chunks, restarts>>

\* A chunk with a ledger that is already stored fails as a whole.
ChunkCollides ==
    /\ \/ fillAt = "back" /\ chunk >= lBound /\ LeftChunkBound .. chunk \intersect db # {}
       \/ fillAt = "fill" /\ chunk <= frontfill.last /\ chunk .. RightChunkBound \intersect db # {}
    /\ fillAt' = "fatal"
    /\ UNCHANGED <<tip, db, dbRange, bounds, loop, restarts>>

VerifyDbGapless ==
    /\ fillAt = "verify"
    /\ fillAt' = IF DbGapless(db) THEN "live" ELSE "fatal"
    /\ UNCHANGED <<tip, db, dbRange, bounds, loop, restarts>>

-----------------------------------------------------------------------------
\* Live ingestion, which may be ahead of the datastore.
LiveLedger ==
    /\ fillAt = "live" /\ db # {} /\ Max(db) + 1 <= Min({tip + Lag, MaxTip})
    /\ IngestRange(Max(db) + 1, Max(db) + 1)
    /\ UNCHANGED <<tip, fillAt, dbRange, bounds, loop, restarts>>

\* An empty database starts at the last ledger of the history archives.
LiveFirst ==
    /\ fillAt = "live" /\ db = {}
    /\ \E root \in DsFirst .. tip : db' = {root}
    /\ UNCHANGED <<tip, fillAt, dbRange, bounds, loop, restarts>>

Publish ==
    /\ tip < MaxTip
    /\ tip' = tip + 1
    /\ Quiet /\ fillAt = "front" /\ iteration > 0 => PrevCheckpoint(tip') = frontfill.last
    /\ UNCHANGED <<db, fillAt, dbRange, bounds, loop, restarts>>

\* The process ends and is started again; the database stays.
Restart ==
    /\ fillAt # "down" /\ restarts < MaxRestarts
    /\ restarts' = restarts + 1 /\ fillAt' = "down"
    /\ dbRange' = NoRange /\ backfill' = NoRange /\ frontfill' = NoRange /\ nBackfill' = 0
    /\ lBound' = 0 /\ chunk' = 0 /\ chunks' = 0 /\ iteration' = 0
    /\ UNCHANGED <<tip, db>>

Run ==
    \/ NewBackfillMeta \/ StartWithoutBackfill \/ SetBounds \/ BackfillChunk \/ BackfillOvertaken \/ StartIteration
    \/ FrontfillDone \/ FrontfillChunk \/ IterationFilled \/ ChunkCollides \/ VerifyDbGapless

BackfillNext == Run \/ LiveLedger \/ LiveFirst \/ Publish \/ Restart

BackfillSpec == BackfillInit /\ [][BackfillNext]_backfillVars

\* The startup of the process is scheduled.
FairBackfill == BackfillSpec /\ WF_backfillVars(Run)

-----------------------------------------------------------------------------
BackfillTypeOK ==
    /\ tip \in Frequency .. MaxTip /\ db \subseteq 1 .. MaxTip
    /\ fillAt \in {"down", "bounds", "back", "front", "fill", "verify", "live", "fatal"}
    /\ {dbRange, backfill, frontfill} \subseteq [first : 0 .. MaxTip + 1, last : 0 .. MaxTip]
    /\ nBackfill \in 0 .. Window /\ lBound \in 0 .. MaxTip /\ chunk \in 0 .. MaxTip + ChunkSize
    /\ chunks \in Nat /\ iteration \in 0 .. 2 /\ restarts \in 0 .. MaxRestarts

\* Wherever filling is interrupted, the stored ledgers have no gap: a restart
\* can go on from them.
DbNoGap == DbGapless(db)

\* Backfilling succeeds: no chunk collides with what is stored.
Succeeds == fillAt # "fatal"

\* Once filled, the database reaches back to the left edge of the retention
\* window or to the first ledger of the datastore, also when the tip moved
\* while it was filled or an earlier run was interrupted.
ReachesBack ==
    fillAt = "verify" /\ db # {} => Min(db) <= Max({tip - nBackfill + 1, DsFirst})

\* Once filled, the database lacks at most one ledger of the last checkpoint
\* that frontfill looked at, and none before it.
NearCheckpoint ==
    fillAt = "verify" /\ db # {} => Max(db) >= frontfill.last - 1

\* An interrupted backfill leaves ledgers a restart can go on from and does not
\* collide with them; a finished one reaches the left edge of the window and the
\* last checkpoint (DbNoGap, Succeeds, ReachesBack, NearCheckpoint).
BackfillResumes == BackfillTypeOK /\ DbNoGap /\ Succeeds /\ ReachesBack /\ NearCheckpoint

\* Filling ends although the datastore grows meanwhile.
Completes == [](fillAt = "bounds" => <>(fillAt \in {"live", "fatal", "down"}))
=============================================================================
