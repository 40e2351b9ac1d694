----------------------------- MODULE RpcIngest -----------------------------
(***************************************************************************)
(* Live ingestion of stellar-rpc: the service that stores each ledger and  *)
(* its fees, the cache of the latest ledger in front of the database, and  *)
(* getTransaction as its reader.                                           *)
(***************************************************************************)
EXTENDS Integers, Sequences, FiniteSets, FiniteSetsExt

CONSTANTS
    Retention,      \* HistoryRetentionWindow
    FeeRetention,   \* the larger fee statistics window
    MaxRetries,     \* maxRetries of the service
    Readers,
    Faults,         \* the steps of the service that may fail
    MaxFaults, MaxCrashes, MaxLedger    \* bounds

\* buildMigrations refuses a fee window above the retention window.
IngestConfig ==
    /\ Retention \in Nat \ {0} /\ FeeRetention \in 1 .. Retention /\ MaxRetries \in Nat
    /\ Faults \subseteq {"prepare", "ledger", "commit", "checkpoint"}
    /\ MaxFaults \in Nat /\ MaxCrashes \in Nat /\ MaxLedger \in Nat
ASSUME IngestAssumption == IngestConfig

VARIABLES
    net,            \* latest ledger the captive core can deliver
    ledgers,        \* the ledgers in the database; transactions and events go with them
    cache,          \* dbCache.latestLedgerSeq, 0 when unset
    feeBuckets, feeStart,   \* the fee window
    feesApart,      \* history: since the start a backfill reset the fee window, or a
                    \* commit failed that it was ahead of
    ingestPc, next,       \* the service: where it is and the ledger it works on
    tries,          \* retries used, numTries of the back-off
    faults, crashes,
    request         \* getTransaction requests

storage == <<ledgers, cache>>
fees == <<feeBuckets, feeStart, feesApart>>
service == <<ingestPc, next, tries>>
budget == <<faults, crashes>>
ingestVars == <<net, storage, fees, service, budget, request>>

W == INSTANCE LedgerBucketWindow
        WITH buckets <- feeBuckets, start <- feeStart,
             Capacity <- FeeRetention, Content <- {"fees"}, MaxSeq <- MaxLedger, log <- <<>>

NoRequest == [at |-> "idle", tx |-> 0, found |-> FALSE, latest |-> 0]
Latest == IF ledgers = {} THEN 0 ELSE Max(ledgers)
Oldest == IF ledgers = {} THEN 0 ELSE Min(ledgers)

IngestInit ==
    /\ net = 0 /\ ledgers = {} /\ cache = 0 /\ feeBuckets = <<>> /\ feeStart = 0 /\ feesApart = FALSE
    /\ ingestPc = "down" /\ next = 0 /\ tries = 0 /\ faults = 0 /\ crashes = 0
    /\ request = [r \in Readers |-> NoRequest]

CloseLedger ==
    /\ net < MaxLedger
    /\ net' = net + 1
    /\ UNCHANGED <<storage, fees, service, budget, request>>

-----------------------------------------------------------------------------
\* mustInitializeStorage: the fee windows are read from the database.
FeeBucket(l) == [seq |-> l, content |-> "fees"]

\* The last FeeRetention + 1 ledgers are streamed through a window of
\* FeeRetention.
InitialFeesTooFew ==
    LET first == IF Latest > FeeRetention THEN Latest - FeeRetention + 2 ELSE 1
        seqs  == {l \in ledgers : l >= first}
    IN  [i \in 1 .. Cardinality(seqs) |-> FeeBucket(Min(seqs) + i - 1)]

InitialFees ==
    LET first == IF Latest > FeeRetention THEN Latest - FeeRetention ELSE 1
        seqs  == {l \in ledgers : l >= first}
        n     == Cardinality(seqs)
    IN  IF n <= FeeRetention
        THEN [i \in 1 .. n |-> FeeBucket(Min(seqs) + i - 1)]
        ELSE [i \in 1 .. FeeRetention |-> FeeBucket(Min(seqs) + (IF i = 1 THEN n - 1 ELSE i - 1))]

InitialStart == IF Cardinality({l \in ledgers : l >= Latest - FeeRetention}) > FeeRetention /\ Latest > FeeRetention
                THEN 1 % FeeRetention ELSE 0

MustInitializeStorage ==
    /\ ingestPc = "down"
    /\ feeBuckets' = InitialFees /\ feeStart' = InitialStart /\ feesApart' = FALSE
    /\ cache' = Latest        \* filled by GetMigrationLedgerRange
    /\ ingestPc' = "next" /\ tries' = 0
    /\ UNCHANGED <<net, ledgers, next, budget, request>>

\* With cfg.Backfill, which may be set in one run of the process and not in the
\* next; after a backfill the cache and the fee windows are reset.
MustNewWithBackfill ==
    /\ ingestPc = "down"
    /\ \E head \in Latest .. net :
          ledgers' = IF head = 0 THEN {} ELSE Max({1, head + 1 - Retention}) .. head
    /\ cache' = 0 /\ feeBuckets' = <<>> /\ feeStart' = 0 /\ feesApart' = TRUE
    /\ ingestPc' = "next" /\ tries' = 0
    /\ UNCHANGED <<net, next, budget, request>>

-----------------------------------------------------------------------------
\* run() returns an error: the next try, or the end of the process.
RetryNever == ingestPc' = "fatal" /\ tries' = tries

Retry ==
    IF tries < MaxRetries
    THEN ingestPc' = "next" /\ tries' = tries + 1
    ELSE ingestPc' = "fatal" /\ tries' = tries

FailedRun == Retry /\ next' = next

\* getNextLedgerSequence.
NextFromDB ==
    /\ ingestPc = "next" /\ (cache # 0 \/ ledgers # {})
    /\ next' = (IF cache # 0 THEN cache ELSE Latest) + 1
    /\ cache' = IF cache # 0 THEN cache ELSE Latest
    /\ ingestPc' = "prepare"
    /\ UNCHANGED <<net, ledgers, fees, tries, budget, request>>

NextFromArchive ==
    /\ ingestPc = "next" /\ cache = 0 /\ ledgers = {}
    /\ \E root \in 1 .. net : next' = root
    /\ ingestPc' = "prepare"
    /\ UNCHANGED <<net, storage, fees, tries, budget, request>>

\* errEmptyArchives: the back-off is reset and tried again.
EmptyArchives ==
    /\ ingestPc = "next" /\ cache = 0 /\ ledgers = {} /\ net = 0
    /\ tries' = 0
    /\ UNCHANGED <<net, storage, fees, ingestPc, next, budget, request>>

PrepareRange ==
    /\ ingestPc = "prepare"
    /\ ingestPc' = "ledger"
    /\ UNCHANGED <<net, storage, fees, next, tries, budget, request>>

\* GetLedger blocks until the ledger has closed; the inserts are only seen
\* after the commit.
InsertLedger ==
    /\ ingestPc = "ledger" /\ next <= net
    /\ ingestPc' = "fees"
    /\ UNCHANGED <<net, storage, fees, next, tries, budget, request>>

IngestFees ==
    /\ ingestPc = "fees" /\ W!Contiguous(FeeBucket(next))
    /\ W!AppendNotFull(FeeBucket(next)) \/ W!AppendFull(FeeBucket(next))
    /\ ingestPc' = "commit"
    /\ UNCHANGED <<net, storage, feesApart, next, tries, budget, request>>

\* The window refuses a ledger it does not expect; the inserts are rolled back.
IngestFeesFails ==
    /\ ingestPc = "fees" /\ ~W!Contiguous(FeeBucket(next))
    /\ FailedRun
    /\ UNCHANGED <<net, storage, fees, budget, request>>

TrimLedgersOneMore(ls, latest) == {l \in ls : l > latest + 1 - Retention}

TrimLedgers(ls, latest) ==
    IF latest + 1 <= Retention THEN ls ELSE {l \in ls : l >= latest + 1 - Retention}

\* The trims, the commit and the cache, under the lock of the cache.
CommitLedgerUncached ==
    /\ ingestPc = "commit"
    /\ ledgers' = TrimLedgers(ledgers \union {next}, next)
    /\ ingestPc' = "checkpoint"
    /\ UNCHANGED <<net, cache, fees, next, tries, budget, request>>

CommitLedger ==
    /\ ingestPc = "commit"
    /\ ledgers' = TrimLedgers(ledgers \union {next}, next)
    /\ cache' = IF next > cache THEN next ELSE cache
    /\ ingestPc' = "checkpoint"
    /\ UNCHANGED <<net, fees, next, tries, budget, request>>

\* wal_checkpoint, then the next ledger.
PostCommit ==
    /\ ingestPc = "checkpoint"
    /\ ingestPc' = "ledger" /\ next' = next + 1
    /\ UNCHANGED <<net, storage, fees, tries, budget, request>>

\* A step fails: the transaction is rolled back, which leaves the fee windows.
Fault ==
    /\ ingestPc \in Faults /\ faults < MaxFaults
    /\ ingestPc = "ledger" => next <= net
    /\ faults' = faults + 1
    /\ FailedRun
    /\ feesApart' = (feesApart \/ ingestPc = "commit")
    /\ UNCHANGED <<net, storage, feeBuckets, feeStart, crashes, request>>

Crash ==
    /\ ingestPc # "down" /\ crashes < MaxCrashes
    /\ crashes' = crashes + 1
    /\ ingestPc' = "down" /\ tries' = 0 /\ next' = 0
    /\ cache' = 0 /\ feeBuckets' = <<>> /\ feeStart' = 0 /\ feesApart' = FALSE
    /\ request' = [r \in Readers |-> NoRequest]
    /\ UNCHANGED <<net, ledgers, faults>>

-----------------------------------------------------------------------------
\* getTransaction: the transaction is looked up before the ledger range.
Serving == ingestPc # "down"

GetTransaction(r) ==
    /\ Serving /\ request[r].at = "idle"
    /\ \E l \in 1 .. MaxLedger :
          request' = [request EXCEPT ![r] = [at |-> "range", tx |-> l, found |-> l \in ledgers, latest |-> 0]]
    /\ UNCHANGED <<net, storage, fees, service, budget>>

ReadLedgerRangeSwapped(r) ==
    /\ request[r].at = "range"
    /\ ledgers # {}
    /\ request' = [request EXCEPT ![r].at = "answered", ![r].latest = IF cache # 0 THEN cache ELSE Oldest]
    /\ UNCHANGED <<net, storage, fees, service, budget>>

ReadLedgerRange(r) ==
    /\ request[r].at = "range"
    /\ ledgers # {}
    /\ request' = [request EXCEPT ![r].at = "answered", ![r].latest = IF cache # 0 THEN cache ELSE Latest]
    /\ UNCHANGED <<net, storage, fees, service, budget>>

\* An empty database is an error to the client.
ReadLedgerRangeFails(r) ==
    /\ request[r].at = "range" /\ ledgers = {}
    /\ request' = [request EXCEPT ![r] = NoRequest]
    /\ UNCHANGED <<net, storage, fees, service, budget>>

Answered(r) ==
    /\ request[r].at = "answered"
    /\ request' = [request EXCEPT ![r] = NoRequest]
    /\ UNCHANGED <<net, storage, fees, service, budget>>

-----------------------------------------------------------------------------
Startup == MustInitializeStorage \/ MustNewWithBackfill

Service ==
    \/ NextFromDB \/ NextFromArchive \/ EmptyArchives \/ PrepareRange \/ InsertLedger
    \/ IngestFees \/ IngestFeesFails \/ CommitLedger \/ PostCommit

Reader(r) == GetTransaction(r) \/ ReadLedgerRange(r) \/ ReadLedgerRangeFails(r) \/ Answered(r)

IngestNext ==
    \/ CloseLedger \/ Startup \/ Service \/ Fault \/ Crash
    \/ \E r \in Readers : Reader(r)

IngestSpec == IngestInit /\ [][IngestNext]_ingestVars

\* The network closes ledgers, a supervisor restarts the process and the
\* goroutine of the service is scheduled.
IngestFairSpec == IngestSpec /\ WF_ingestVars(CloseLedger) /\ WF_ingestVars(Startup) /\ WF_ingestVars(Service)

-----------------------------------------------------------------------------
IngestTypeOK ==
    /\ net \in 0 .. MaxLedger /\ ledgers \subseteq 1 .. MaxLedger /\ cache \in 0 .. MaxLedger
    /\ feeBuckets \in Seq([seq : 1 .. MaxLedger, content : {"fees"}]) /\ Len(feeBuckets) <= FeeRetention
    /\ feeStart \in 0 .. FeeRetention - 1
    /\ feesApart \in BOOLEAN
    /\ ingestPc \in {"down", "next", "prepare", "ledger", "fees", "commit", "checkpoint", "fatal"}
    /\ next \in 0 .. MaxLedger + 1 /\ tries \in 0 .. MaxRetries
    /\ request \in [Readers -> [at : {"idle", "range", "answered"}, tx : 0 .. MaxLedger,
                                found : BOOLEAN, latest : 0 .. MaxLedger]]

\* The cache, when it is set, names the newest ledger in the database, whatever
\* readers, retries and restarts fill it.
CacheIsLatest == cache # 0 => cache = Latest

\* The database holds the latest ledgers without a gap, and a ledger leaves only
\* when as many newer ones are there as are to be retained.
Gapless == ledgers = {} \/ ledgers = Oldest .. Latest
TrimsOnlyOld ==
    /\ Latest' >= Latest
    /\ ledgers \ ledgers' # {} => Cardinality(ledgers') = Retention

\* What the fee statistics are about: the newest ledgers of the database, and
\* the one being committed, unless a backfill or a failed commit set them apart.
FeesCoverLedgers ==
    Serving /\ ~feesApart =>
        LET last == IF ingestPc = "commit" THEN next ELSE Latest
            all  == IF ingestPc = "commit" THEN ledgers \union {next} ELSE ledgers
        IN  /\ Len(feeBuckets) = Min({FeeRetention, Cardinality(all)})
            /\ Len(feeBuckets) > 0 => W!GetLedgerRange.last = last

\* A transaction that was found is not of a ledger after the latest ledger the
\* same answer reports.
FoundIsNotAhead ==
    \A r \in Readers : request[r].at = "answered" /\ request[r].found => request[r].tx <= request[r].latest

\* Whatever fails, the database keeps the latest ledgers without a gap, and what
\* requests are told agrees with it: the cache names the newest ledger, a
\* transaction is not found in a ledger after the latest the answer reports, and
\* the fee statistics are about the newest ledgers.
Agrees == IngestTypeOK /\ Gapless /\ CacheIsLatest /\ FoundIsNotAhead /\ FeesCoverLedgers
CachesAgree == []Agrees /\ [][TrimsOnlyOld]_ledgers

\* One failure does not end the process: it is retried.
SurvivesOneFault == faults <= 1 => ingestPc # "fatal"
=============================================================================
