--------------------------- MODULE HistoryReaper ---------------------------
(***************************************************************************)
(* The removal of old history (internal/ingest/reap.go): after a ledger is *)
(* ingested, or by `db reap`, a goroutine deletes in batches everything    *)
(* older than the newest RetentionCount ledgers.  Many processes share the *)
(* database, live ingestion appends to it and operators reingest old       *)
(* ledgers while batches are being deleted.                                *)
(***************************************************************************)
EXTENDS Integers, FiniteSets, FiniteSetsExt

CONSTANTS
    Call,            \* calls of DeleteUnretainedHistory
    Node,            \* horizon processes
    NodeOf,          \* NodeOf[c]: the process that makes call c
    NoCall,
    Table,           \* the history tables
    LedgerTable,     \* history_ledgers
    RetentionCount,
    BatchSize,
    Modulus,         \* of uint32 arithmetic (2^32)
    MaxLedger,       \* bound on the ledgers that are ingested
    InitHistory,     \* the ledgers in the database at the start, one of these sets
    Reingested       \* ledgers that operators reingest

ReapConfig ==
    /\ RetentionCount \in Nat \ {0}
    /\ BatchSize \in Nat \ {0}
    /\ MaxLedger \in Nat
    /\ Modulus \in Nat /\ Modulus > MaxLedger /\ Modulus > RetentionCount
DatabaseConfig ==
    /\ LedgerTable \in Table
    /\ NodeOf \in [Call -> Node]
    /\ NoCall \notin Call
    /\ InitHistory \subseteq SUBSET (1..MaxLedger)
    /\ Reingested \subseteq 1..MaxLedger
ASSUME ReaperAssumption == ReapConfig /\ DatabaseConfig

VARIABLES
    rows,     \* rows[t]: the ledgers with committed rows in table t
    pending,  \* pending[n]: Reaper.pending of process n
    lock,     \* the call whose session holds the reaper advisory lock
    pc,       \* where each call is
    latest,   \* the local variables of the call: latest,
    start,    \*   batchStartSeq (oldest before the loop),
    end,      \*   targetElder
    todo,     \* tables that the batch's DeleteRangeAll has not reached yet
    deleted,  \* rows deleted by the call's open transaction
    result    \* how the call's last invocation ended

reaperVars == <<rows, pending, lock, pc, latest, start, end, todo, deleted, result>>
local == <<latest, start, end>>

LedgerSeq == 1..MaxLedger
Latest == Max(rows[LedgerTable] \cup {0})
Oldest == IF rows[LedgerTable] = {} THEN 0 ELSE Min(rows[LedgerTable])

ReaperInit ==
    /\ \E h \in InitHistory : rows = [t \in Table |-> h]
    /\ pending = [n \in Node |-> FALSE]
    /\ lock = NoCall
    /\ pc = [c \in Call |-> "idle"]
    /\ latest = [c \in Call |-> 0]
    /\ start = [c \in Call |-> 0]
    /\ end = [c \in Call |-> 0]
    /\ todo = [c \in Call |-> {}]
    /\ deleted = [c \in Call |-> {}]
    /\ result = [c \in Call |-> "none"]

\* The deferred calls: roll back, release the advisory lock, clear pending.
\* The local variables are gone.
Return(c, r) ==
    /\ pc' = [pc EXCEPT ![c] = "idle"]
    /\ result' = [result EXCEPT ![c] = r]
    /\ pending' = [pending EXCEPT ![NodeOf[c]] = FALSE]
    /\ lock' = IF lock = c THEN NoCall ELSE lock
    /\ latest' = [latest EXCEPT ![c] = 0]
    /\ start' = [start EXCEPT ![c] = 0]
    /\ end' = [end EXCEPT ![c] = 0]
    /\ todo' = [todo EXCEPT ![c] = {}]
    /\ deleted' = [deleted EXCEPT ![c] = {}]

\* A call while pending is set returns without a trace.
Start(c) ==
    /\ pc[c] = "idle"
    /\ ~pending[NodeOf[c]]
    /\ pending' = [pending EXCEPT ![NodeOf[c]] = TRUE]
    /\ pc' = [pc EXCEPT ![c] = "lock"]
    /\ result' = [result EXCEPT ![c] = "none"]
    /\ UNCHANGED <<rows, lock, local, todo, deleted>>

TryReaperLock(c) ==
    /\ pc[c] = "lock"
    /\ lock = NoCall
    /\ lock' = c
    /\ pc' = [pc EXCEPT ![c] = "latest"]
    /\ UNCHANGED <<rows, pending, local, todo, deleted, result>>

LockTaken(c) ==
    /\ pc[c] = "lock"
    /\ lock # NoCall
    /\ Return(c, "skipped")
    /\ UNCHANGED rows

GetLatestHistoryLedger(c) ==
    /\ pc[c] = "latest"
    /\ latest' = [latest EXCEPT ![c] = Latest]
    /\ pc' = [pc EXCEPT ![c] = "elder"]
    /\ UNCHANGED <<rows, pending, lock, start, end, todo, deleted, result>>

\* Mutant: one ledger too many.
TargetElderHigh(c) == (latest[c] - RetentionCount + 2) % Modulus

TargetElder(c) == (latest[c] - RetentionCount + 1) % Modulus

\* Mutant: the subtraction is not guarded.
NotEnoughUnguarded(c, oldest) == TargetElder(c) < oldest

NotEnough(c, oldest) == latest[c] <= RetentionCount \/ TargetElder(c) < oldest

ElderLedger(c) ==
    /\ pc[c] = "elder"
    /\ IF NotEnough(c, Oldest)
       THEN Return(c, "nothing")
       ELSE /\ start' = [start EXCEPT ![c] = Oldest]
            /\ end' = [end EXCEPT ![c] = TargetElder(c)]
            /\ pc' = [pc EXCEPT ![c] = "loop"]
            /\ UNCHANGED <<pending, lock, latest, todo, deleted, result>>
    /\ UNCHANGED rows
-----------------------------------------------------------------------------
\* clearBefore: the head of its loop.
BeginBatch(c) ==
    /\ pc[c] = "loop"
    /\ start[c] < end[c]
    /\ pc' = [pc EXCEPT ![c] = "batch"]
    /\ todo' = [todo EXCEPT ![c] = Table]
    /\ UNCHANGED <<rows, pending, lock, local, deleted, result>>

ClearedAll(c) ==
    /\ pc[c] = "loop"
    /\ start[c] >= end[c]
    /\ Return(c, "success")
    /\ UNCHANGED rows

\* Mutant: the last batch is as long as the others.
BatchUnclamped(c) == start[c] .. start[c] + BatchSize

Batch(c) == start[c] .. Min({start[c] + BatchSize, end[c] - 1})

\* Another open transaction has deleted some of the rows l of table t.
Blocked(c, t) ==
    \E d \in Call \ {c} : \E l \in Batch(c) : <<t, l>> \in deleted[d]

\* Mutant: a delete is visible before the batch commits.
DeleteRangeCommitted(c, t) ==
    /\ pc[c] = "batch"
    /\ t \in todo[c]
    /\ rows' = [rows EXCEPT ![t] = @ \ Batch(c)]
    /\ deleted' = [deleted EXCEPT ![c] = @ \cup ({t} \X (rows[t] \cap Batch(c)))]
    /\ todo' = [todo EXCEPT ![c] = @ \ {t}]
    /\ UNCHANGED <<pending, lock, pc, local, result>>

\* One statement of DeleteRangeAll, which visits the tables in any order.
DeleteRange(c, t) ==
    /\ pc[c] = "batch"
    /\ t \in todo[c]
    /\ ~Blocked(c, t)
    /\ deleted' = [deleted EXCEPT ![c] = @ \cup ({t} \X (rows[t] \cap Batch(c)))]
    /\ todo' = [todo EXCEPT ![c] = @ \ {t}]
    /\ UNCHANGED <<rows, pending, lock, pc, local, result>>

\* Mutant: the next batch starts after the next ledger.
NextStartSkips(c) == start[c] + BatchSize + 2

NextStart(c) == start[c] + BatchSize + 1

Commit(c) ==
    /\ pc[c] = "batch"
    /\ todo[c] = {}
    /\ rows' = [t \in Table |-> {l \in rows[t] : <<t, l>> \notin deleted[c]}]
    /\ IF deleted[c] = {}
       THEN pc' = [pc EXCEPT ![c] = "next"] /\ start' = start
       ELSE /\ pc' = [pc EXCEPT ![c] = "loop"]
            /\ start' = [start EXCEPT ![c] = NextStart(c)]
    /\ deleted' = [deleted EXCEPT ![c] = {}]
    /\ UNCHANGED <<pending, lock, latest, end, todo, result>>

\* Mutant: an empty batch is tried again.
GetNextLedgerSequenceSame(c) ==
    /\ pc[c] = "next"
    /\ pc' = [pc EXCEPT ![c] = "loop"]
    /\ UNCHANGED <<rows, pending, lock, local, todo, deleted, result>>

\* The query has a condition and no order: any later ledger may come first.
GetNextLedgerSequence(c) ==
    /\ pc[c] = "next"
    /\ \E l \in rows[LedgerTable] :
        /\ l > start[c]
        /\ start' = [start EXCEPT ![c] = l]
    /\ pc' = [pc EXCEPT ![c] = "loop"]
    /\ UNCHANGED <<rows, pending, lock, latest, end, todo, deleted, result>>

NoNextLedger(c) ==
    /\ pc[c] = "next"
    /\ \A l \in rows[LedgerTable] : l <= start[c]
    /\ Return(c, "success")
    /\ UNCHANGED rows
-----------------------------------------------------------------------------
\* Any statement of the call may fail, the ones of a deadlock among them.
ReapFails(c) ==
    /\ pc[c] # "idle"
    /\ Return(c, "error")
    /\ UNCHANGED rows

\* The lock is held by a session of its own: when its connection is lost, the
\* call goes on without it.
LoseLock(c) ==
    /\ lock = c
    /\ lock' = NoCall
    /\ UNCHANGED <<rows, pending, pc, local, todo, deleted, result>>

\* The process dies and restarts; the database rolls its transactions back.
Crash(n) ==
    LET down == {c \in Call : NodeOf[c] = n} IN
    /\ pending[n]
    /\ pending' = [pending EXCEPT ![n] = FALSE]
    /\ lock' = IF lock \in down THEN NoCall ELSE lock
    /\ pc' = [c \in Call |-> IF c \in down THEN "idle" ELSE pc[c]]
    /\ latest' = [c \in Call |-> IF c \in down THEN 0 ELSE latest[c]]
    /\ start' = [c \in Call |-> IF c \in down THEN 0 ELSE start[c]]
    /\ end' = [c \in Call |-> IF c \in down THEN 0 ELSE end[c]]
    /\ todo' = [c \in Call |-> IF c \in down THEN {} ELSE todo[c]]
    /\ deleted' = [c \in Call |-> IF c \in down THEN {} ELSE deleted[c]]
    /\ result' = [c \in Call |-> IF c \in down THEN "none" ELSE result[c]]
    /\ UNCHANGED rows

\* The commit of the next ledger by live ingestion.
Ingest ==
    /\ Latest < MaxLedger
    /\ rows' = [t \in Table |-> rows[t] \cup {Latest + 1}]
    /\ UNCHANGED <<pending, lock, pc, local, todo, deleted, result>>

\* The commit of one ledger by `db reingest range`; its own DeleteRangeAll
\* waits for the transactions that have deleted the same rows.
Reingest(l) ==
    /\ l < Latest
    /\ \A c \in Call, t \in Table : <<t, l>> \notin deleted[c]
    /\ rows' = [t \in Table |-> rows[t] \cup {l}]
    /\ UNCHANGED <<pending, lock, pc, local, todo, deleted, result>>

Step(c) ==
    \/ TryReaperLock(c) \/ LockTaken(c)
    \/ GetLatestHistoryLedger(c) \/ ElderLedger(c)
    \/ BeginBatch(c) \/ ClearedAll(c)
    \/ \E t \in Table : DeleteRange(c, t)
    \/ Commit(c)
    \/ GetNextLedgerSequence(c) \/ NoNextLedger(c)

ReaperNext ==
    \/ \E c \in Call : Start(c) \/ Step(c) \/ ReapFails(c) \/ LoseLock(c)
    \/ \E n \in Node : Crash(n)
    \/ Ingest
    \/ \E l \in Reingested : Reingest(l)

ReaperSpec == ReaperInit /\ [][ReaperNext]_reaperVars

\* A goroutine that can run does; PostgreSQL serves those that wait for a row in
\* turn, and ends a transaction that waits in a cycle with an error.
DeadlockAbort(c) ==
    /\ pc[c] = "batch"
    /\ \A t \in todo[c] : Blocked(c, t)
    /\ todo[c] # {}
    /\ ReapFails(c)

ReaperFairSpec == ReaperSpec /\ \A c \in Call : SF_reaperVars(Step(c)) /\ WF_reaperVars(DeadlockAbort(c))
-----------------------------------------------------------------------------
ReaperTypeOK ==
    /\ rows \in [Table -> SUBSET LedgerSeq]
    /\ pending \in [Node -> BOOLEAN]
    /\ lock \in Call \cup {NoCall}
    /\ pc \in [Call -> {"idle", "lock", "latest", "elder", "loop", "batch", "next"}]
    /\ latest \in [Call -> 0..MaxLedger]
    /\ start \in [Call -> Nat]
    /\ end \in [Call -> 0..MaxLedger]
    /\ todo \in [Call -> SUBSET Table]
    /\ deleted \in [Call -> SUBSET (Table \X LedgerSeq)]
    /\ result \in [Call -> {"none", "skipped", "nothing", "error", "success"}]

\* A call is on its way only while its process has pending set, so one process
\* never runs two of them (DeleteUnretainedHistory's CompareAndSwap), and the
\* bound of a running loop is at least RetentionCount below the newest ledger,
\* however old the values it was computed from.
BoundIsOld ==
    \A c \in Call :
        /\ pc[c] # "idle" => pending[NodeOf[c]]
        /\ \A d \in Call \ {c} : NodeOf[c] = NodeOf[d] => "idle" \in {pc[c], pc[d]}
        /\ pc[c] \in {"loop", "batch", "next"} => end[c] + RetentionCount <= Latest + 1

\* No step removes one of the newest RetentionCount ledgers from any table,
\* with two reapers at work (the first has lost its lock) and ingestion moving
\* on between the reads and the deletes.
RetainsRecent == \A t \in Table : \A l \in rows[t] \ rows'[t] : l <= Latest - RetentionCount

\* The tables agree: every ledger is in all of them or in none, at all times
\* and after every error and crash (deleteBatch is one transaction).  Ledgers
\* that are reingested while they are being reaped are left out.
WholeLedgers ==
    \A l \in LedgerSeq :
        l \notin Reingested \/ l > Latest - RetentionCount =>
            \/ \A t \in Table : l \in rows[t]
            \/ \A t \in Table : l \notin rows[t]

\* A call that goes on to its next batch leaves nothing behind it, with other
\* reapers deleting the same ledgers; ledgers put back by an operator are left
\* out.
BatchesLeaveNothing ==
    \A c \in Call :
        pc[c] = "batch" /\ pc'[c] = "loop" =>
            \A t \in Table : \A l \in rows'[t] \ Reingested :
                l < start[c] \/ l >= Min({start'[c], end[c]})

\* Two racing reapers delete whole ledgers, none that is retained, and
\* everything older in the batches they went through.
ReapsWholeOldLedgers ==
    [][/\ (ReaperTypeOK /\ BoundIsOld /\ WholeLedgers)'
       /\ RetainsRecent /\ BatchesLeaveNothing]_reaperVars
=============================================================================
