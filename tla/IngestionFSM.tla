---------------------------- MODULE IngestionFSM ----------------------------
(***************************************************************************)
(* Horizon's ingestion finite state machine (internal/ingest): several     *)
(* Horizon processes share one Postgres database and coordinate through    *)
(* the row `exp_ingest_last_ledger` of key_value_store, which every state  *)
(* reads FOR UPDATE at the start of its transaction.                       *)
(*                                                                         *)
(* A run of a state is three steps: Lock (everything up to and including   *)
(* the FOR UPDATE read), a Run step (the checks, the processors and all    *)
(* the writes, still uncommitted) and a Commit step (COMMIT makes them     *)
(* visible).  A statement can fail, a COMMIT can succeed without its       *)
(* acknowledgement, and a process can crash between any two steps.         *)
(* Processes that never take the lock (`db reingest range` without         *)
(* --force, load-test fixtures, `ingest trigger-state-rebuild`) interleave *)
(* with all of this.                                                       *)
(***************************************************************************)
EXTENDS Integers, FiniteSets, FiniteSetsExt

CONSTANTS
    Node,                 \* Horizon processes
    Live,                 \* those that run `horizon ingest` (system.Run)
    NoNode,               \* not a process: "nobody holds the lock"
    CurrentVersion,       \* the ingestion version compiled into each process
    CheckpointFrequency,  \* ledgers per checkpoint (64 on the public network)
    InitHistory,          \* history rows left by an earlier installation
    MaxLedgerPerFlush,    \* ledgers per batch of the history processors
    MaxLedger,            \* bound: the network closes no ledger above this
    Commands,             \* operator commands the other processes may run
    MaxCommands,          \* bound on the number of commands
    MaxFaults             \* bound on errors, lost acknowledgements, crashes

ASSUME NodeAssumption == Live \subseteq Node /\ NoNode \notin Node
ASSUME VersionAssumption == CurrentVersion \in [Node -> Nat \ {0}]
ASSUME BoundAssumption ==
    /\ CheckpointFrequency \in Nat \ {0}
    /\ MaxLedgerPerFlush \in Nat \ {0}
    /\ MaxLedger \in Nat
    /\ MaxLedger >= 2 * CheckpointFrequency - 1
    /\ MaxCommands \in Nat
    /\ MaxFaults \in Nat
ASSUME InitHistoryAssumption ==
    /\ InitHistory \subseteq 1 .. (2 * CheckpointFrequency - 1)
    /\ \A a, b \in InitHistory : a..b \subseteq InitHistory

(* The state an operator command starts in, as its flags are validated;    *)
(* reingestHistoryRange moves a range that starts at ledger 1 to ledger 2. *)
CommandNames == {"reingest", "reingestForce", "buildStop", "trigger", "save",
                 "restore"}
ASSUME CommandAssumption ==
    \A command \in Commands :
        /\ command \in [name : CommandNames, from : 0..MaxLedger, to : 0..MaxLedger]
        /\ command.name \in {"reingest", "reingestForce"} =>
              2 <= command.from /\ command.from <= command.to
        /\ command.name = "buildStop" => 1 <= command.to

VARIABLES
    closed,     \* latest ledger closed by the network
    last,       \* exp_ingest_last_ledger, 0 when there is none
    version,    \* exp_ingest_version
    restore,    \* the load test row: [run, ledger], run = NoNode when absent
    stateAt,    \* ledger the state tables reflect
    stateBy,    \* ingestion versions that wrote the state tables
    fakeState,  \* the state tables hold load-test entries
    history,    \* ledgers present in the history tables
    fakeHistory,\* those of them that a load test generated
    lock,       \* holder of the FOR UPDATE lock
    fsm,        \* fsm[n]: current state of n's machine and its fields
    phase,      \* phase[n]: idle, locked, or written (only COMMIT is left)
    upto,       \* upto[n]: last ledger n's open transaction inserted
    runId,      \* runId[n]: n's loadTestSnapshot has a run id
    commands,   \* number of commands started
    faults      \* number of faults so far

dbVars   == <<last, version, restore, stateAt, stateBy, fakeState>>
histVars == <<history, fakeHistory>>
procVars == <<lock, fsm, phase, upto, runId>>
vars     == <<closed, dbVars, histVars, procVars, commands, faults>>

Ledger     == 1..MaxLedger
NoRestore  == [run |-> NoNode, ledger |-> 0]
-----------------------------------------------------------------------------
(* The machine's states; from/to are the fields of the state struct.       *)

St(name, from, to) == [name |-> name, from |-> from, to |-> to]

Start               == St("start", 0, 0)
Stop                == St("stop", 0, 0)
Wait                == St("wait", 0, 0)
Rebuild(checkpoint) == St("build", 0, checkpoint)
Resume(latest)      == St("resume", 0, latest)
HistoryRange(a, b)  == St("history", a, b)

Locking == {"start", "build", "buildStop", "resume", "history",
            "reingestForce", "save", "restore"}
StateNames == Locking \cup
    {"stop", "wait", "reingest", "delete", "insert", "check", "fixtures",
     "trigger"}

LastHistory == IF history = {} THEN 0 ELSE Max(history)

\* Latest checkpoint ledger of the history archive.
LastCheckpoint == closed - ((closed + 1) % CheckpointFrequency)

\* A load test reads generated ledgers, everyone else what the network closed.
Available(n, ledger) == ledger <= (IF runId[n] THEN MaxLedger ELSE closed)

\* loadTestSnapshot.checkPendingLoadTest
NoPendingLoadTest(n) == restore.run = (IF runId[n] THEN n ELSE NoNode)

\* evaluateDBState
DBState(n) ==
    CASE last = 0 -> "empty"
      [] last # 0 /\ version # CurrentVersion[n] -> "needsRebuild"
      [] last # 0 /\ version = CurrentVersion[n]
         /\ LastHistory # 0 /\ LastHistory # last -> "inconsistent"
      [] OTHER -> "valid"

\* LoadTest restores the snapshot on every exit path after save succeeded.
Exit(n) == IF runId[n] THEN St("restore", 0, 0) ELSE Stop

\* Where a process goes when its transaction fails.
FailNext(n) ==
    CASE fsm[n].name \in {"start", "build", "history"} -> Start
      [] fsm[n].name = "resume" -> fsm[n]
      [] fsm[n].name \in {"check", "fixtures"} -> Exit(n)
      [] OTHER -> Stop
-----------------------------------------------------------------------------
(* Steps shared by the states.                                             *)

\* A process has a run id from the success of save until it exits.
Goto(n, next) ==
    /\ fsm' = [fsm EXCEPT ![n] = next]
    /\ runId' = [runId EXCEPT ![n] = next.name = "check" \/ (@ /\ next # Stop)]

\* The end of a state's run: no transaction is left and the lock is free.
Finish(n, next) ==
    /\ Goto(n, next)
    /\ lock' = IF lock = n THEN NoNode ELSE lock
    /\ phase' = [phase EXCEPT ![n] = "idle"]

\* A run that changed nothing: the deferred Rollback.
Rollback(n, next) ==
    /\ Finish(n, next)
    /\ UNCHANGED <<closed, dbVars, histVars, upto, commands, faults>>

\* All statements of the transaction succeeded, COMMIT is next.
Written(n) ==
    /\ phase' = [phase EXCEPT ![n] = "written"]
    /\ UNCHANGED <<closed, dbVars, histVars, lock, fsm, runId, commands>>

Running(n, name) == phase[n] = "locked" /\ fsm[n].name = name
Committing(n, name) == phase[n] = "written" /\ fsm[n].name = name

\* The network closes the next ledger.
CloseLedger ==
    /\ closed < MaxLedger
    /\ closed' = closed + 1
    /\ UNCHANGED <<dbVars, histVars, procVars, commands, faults>>

\* A state's run up to GetLastLedgerIngest: the ledger it needs is available
\* in the backend and the row lock is granted.
Lock(n) ==
    /\ phase[n] = "idle"
    /\ fsm[n].name \in Locking
    /\ Available(n, IF fsm[n].name = "resume" THEN fsm[n].to + 1 ELSE fsm[n].to)
    /\ lock = NoNode
    /\ lock' = n
    /\ phase' = [phase EXCEPT ![n] = "locked"]
    /\ UNCHANGED <<closed, dbVars, histVars, fsm, upto, runId, commands, faults>>

\* Rows of the history tables are unique per ledger: an INSERT of a ledger
\* that is already there fails.
Insert(n, ledgers) ==
    /\ history' = history \cup ledgers
    /\ fakeHistory' = IF runId[n] THEN fakeHistory \cup ledgers ELSE fakeHistory

Inserted(n) ==
    CASE fsm[n].name = "resume" -> {fsm[n].to + 1}
      [] fsm[n].name \in {"history", "reingestForce"} -> fsm[n].from .. upto[n]
      [] OTHER -> {}
Deleted(n) ==
    IF fsm[n].name = "reingestForce" THEN fsm[n].from .. fsm[n].to ELSE {}
Conflict(n) == Inserted(n) \cap (history \ Deleted(n)) # {}

\* How far the batches of [from, to] got: to the end, or, when GetLedger
\* fails, to the end of the last full batch.
Flushed(n) ==
    \/ upto' = [upto EXCEPT ![n] = fsm[n].to] /\ UNCHANGED faults
    \/ /\ faults < MaxFaults
       /\ \E ledger \in fsm[n].from - 1 .. fsm[n].to - 1 :
            /\ (ledger - fsm[n].from + 1) % MaxLedgerPerFlush = 0
            /\ upto' = [upto EXCEPT ![n] = ledger]
       /\ faults' = faults + 1
-----------------------------------------------------------------------------
(* start                                                                   *)

\* Mutant: <= instead of < when the history is compared with the checkpoint.
StartNextAtCheckpoint(n) ==
    LET h == LastHistory IN
    CASE DBState(n) \in {"empty", "needsRebuild"} ->
           CASE h > LastCheckpoint -> Wait
             [] h # 0 /\ h <= LastCheckpoint -> HistoryRange(h + 1, LastCheckpoint)
             [] OTHER -> Rebuild(LastCheckpoint)
      [] DBState(n) = "inconsistent" -> HistoryRange(h + 1, last)
      [] OTHER -> Resume(last)

\* Mutant: the state is rebuilt from the checkpoint that comes next.
StartNextUpcoming(n) ==
    LET h == LastHistory IN
    CASE DBState(n) \in {"empty", "needsRebuild"} ->
           CASE h > LastCheckpoint -> Wait
             [] h # 0 /\ h < LastCheckpoint -> HistoryRange(h + 1, LastCheckpoint)
             [] OTHER -> Rebuild(LastCheckpoint + CheckpointFrequency)
      [] DBState(n) = "inconsistent" -> HistoryRange(h + 1, last)
      [] OTHER -> Resume(last)

\* The state startState.run chooses once the load test and version checks
\* passed; "reset" stands for the branch that writes.
StartNext(n) ==
    LET h == LastHistory IN
    CASE DBState(n) \in {"empty", "needsRebuild"} ->
           CASE h > LastCheckpoint -> Wait
             [] h # 0 /\ h < LastCheckpoint -> HistoryRange(h + 1, LastCheckpoint)
             [] OTHER -> Rebuild(LastCheckpoint)
      [] DBState(n) = "inconsistent" -> HistoryRange(h + 1, last)
      [] OTHER -> Resume(last)

ResetNeeded(n) == DBState(n) = "inconsistent" /\ LastHistory > last

RunStart(n) ==
    /\ Running(n, "start")
    /\ \/ ~NoPendingLoadTest(n) /\ Rollback(n, Start)
       \/ /\ NoPendingLoadTest(n)
          /\ version > CurrentVersion[n]
          /\ Rollback(n, Exit(n))
       \/ /\ NoPendingLoadTest(n)
          /\ version <= CurrentVersion[n]
          /\ ~ResetNeeded(n)
          /\ Rollback(n, StartNext(n))
       \/ /\ NoPendingLoadTest(n)
          /\ version <= CurrentVersion[n]
          /\ ResetNeeded(n)
          /\ Written(n)
          /\ UNCHANGED <<upto, faults>>

\* UpdateLastLedgerIngest(0).
CommitStart(n) ==
    /\ Committing(n, "start")
    /\ last' = 0
    /\ UNCHANGED <<version, restore, stateAt, stateBy, fakeState, histVars>>

-----------------------------------------------------------------------------
(* build                                                                   *)

BuildDone(n) == version = CurrentVersion[n] /\ last > 0

\* Mutant: no double check whether another process built the state.
RunBuildUnchecked(n) ==
    /\ \E name \in {"build", "buildStop"} : Running(n, name)
    /\ \/ ~NoPendingLoadTest(n) /\ Rollback(n, FailNext(n))
       \/ NoPendingLoadTest(n) /\ Written(n) /\ UNCHANGED <<upto, faults>>

RunBuild(n) ==
    /\ \E name \in {"build", "buildStop"} : Running(n, name)
    /\ \/ ~NoPendingLoadTest(n) /\ Rollback(n, FailNext(n))
       \/ NoPendingLoadTest(n) /\ BuildDone(n) /\ Rollback(n, FailNext(n))
       \/ /\ NoPendingLoadTest(n)
          /\ ~BuildDone(n)
          /\ Written(n)
          /\ UNCHANGED <<upto, faults>>

\* Mutant: the version is not updated with the state.
CommitBuildOldVersion(n) ==
    /\ \E name \in {"build", "buildStop"} : Committing(n, name)
    /\ last' = fsm[n].to
    /\ stateAt' = fsm[n].to
    /\ stateBy' = {CurrentVersion[n]}
    /\ fakeState' = FALSE
    /\ UNCHANGED <<version, restore, histVars>>

\* Mutant: the state tables are not truncated.
CommitBuildUntruncated(n) ==
    /\ \E name \in {"build", "buildStop"} : Committing(n, name)
    /\ last' = fsm[n].to
    /\ version' = CurrentVersion[n]
    /\ stateAt' = fsm[n].to
    /\ stateBy' = stateBy \cup {CurrentVersion[n]}
    /\ fakeState' = FALSE
    /\ UNCHANGED <<restore, histVars>>

\* The state tables are truncated and filled from the checkpoint's buckets;
\* the version and the last ledger are updated in the same transaction.
CommitBuild(n) ==
    /\ \E name \in {"build", "buildStop"} : Committing(n, name)
    /\ last' = fsm[n].to
    /\ version' = CurrentVersion[n]
    /\ stateAt' = fsm[n].to
    /\ stateBy' = {CurrentVersion[n]}
    /\ fakeState' = FALSE
    /\ UNCHANGED <<restore, histVars>>

-----------------------------------------------------------------------------
(* resume                                                                  *)

ResumeVersionOK(n) == version = CurrentVersion[n]

RunResume(n) ==
    LET ledger == fsm[n].to + 1 IN
    /\ Running(n, "resume")
    /\ \/ ledger > last + 1 /\ Rollback(n, Start)
       \/ ledger <= last /\ Rollback(n, Resume(last))
       \/ /\ ledger = last + 1
          /\ \/ ~NoPendingLoadTest(n) /\ Rollback(n, fsm[n])
             \/ /\ NoPendingLoadTest(n)
                /\ ~ResumeVersionOK(n)
                /\ Rollback(n, Start)
             \/ /\ NoPendingLoadTest(n)
                /\ ResumeVersionOK(n)
                /\ LastHistory \notin {0, last}
                /\ Rollback(n, Start)
             \/ /\ NoPendingLoadTest(n)
                /\ ResumeVersionOK(n)
                /\ LastHistory \in {0, last}
                /\ Written(n)
                /\ UNCHANGED <<upto, faults>>

\* RunAllProcessorsOnLedger: the ledger's changes are applied to the state
\* tables and its transactions inserted into the history tables.
CommitResume(n) ==
    LET ledger == fsm[n].to + 1 IN
    /\ Committing(n, "resume")
    /\ last' = ledger
    /\ stateAt' = IF stateAt = ledger - 1 THEN ledger ELSE -1
    /\ stateBy' = stateBy \cup {CurrentVersion[n]}
    /\ fakeState' = (fakeState \/ runId[n])
    /\ Insert(n, {ledger})
    /\ UNCHANGED <<version, restore>>

\* waitForCheckpoint sleeps and starts over.
WaitForCheckpoint(n) ==
    /\ fsm[n].name = "wait"
    /\ Goto(n, Start)
    /\ UNCHANGED <<closed, dbVars, histVars, lock, phase, upto, commands, faults>>

-----------------------------------------------------------------------------
(* historyRange                                                            *)

\* Mutant: another process may have ingested the range meanwhile.
RunHistoryRangeUnchecked(n) ==
    Running(n, "history") /\ Flushed(n) /\ Written(n)

RunHistoryRange(n) ==
    /\ Running(n, "history")
    /\ \/ LastHistory # fsm[n].from - 1 /\ Rollback(n, Start)
       \/ /\ LastHistory = fsm[n].from - 1
          /\ Flushed(n)
          /\ Written(n)

\* Mutant: the loop starts one ledger late.
CommitHistoryRangeLate(n) ==
    /\ Committing(n, "history")
    /\ Insert(n, fsm[n].from + 1 .. upto[n])
    /\ UNCHANGED dbVars

CommitHistoryRange(n) ==
    /\ Committing(n, "history")
    /\ Insert(n, fsm[n].from .. upto[n])
    /\ UNCHANGED dbVars

-----------------------------------------------------------------------------
(* reingestHistoryRange                                                    *)

\* With --force: DeleteRangeAll and the batches run in one transaction under
\* the lock, which is committed even when a batch failed.
RunReingestForce(n) ==
    /\ Running(n, "reingestForce")
    /\ Flushed(n)
    /\ Written(n)

CommitReingestForce(n) ==
    LET kept == history \ Deleted(n)
        new  == fsm[n].from .. upto[n]
    IN  /\ Committing(n, "reingestForce")
        /\ history' = kept \cup new
        /\ fakeHistory' = fakeHistory \ Deleted(n)
        /\ UNCHANGED dbVars

Unlocked(n, name) ==
    /\ fsm[n].name = name
    /\ UNCHANGED <<closed, dbVars, lock, phase, upto, commands, faults>>

\* Without --force: a non-blocking read of the last ledger decides, ...
ReingestCheck(n) ==
    /\ Unlocked(n, "reingest")
    /\ Goto(n, IF last > 0 /\ fsm[n].to >= last
               THEN Stop
               ELSE [fsm[n] EXCEPT !.name = "delete"])
    /\ UNCHANGED histVars

\* ... once the range is prepared DeleteRangeAll commits on its own, ...
ReingestDelete(n) ==
    /\ Unlocked(n, "delete")
    /\ Available(n, fsm[n].to)
    /\ history' = history \ (fsm[n].from .. fsm[n].to)
    /\ fakeHistory' = fakeHistory \ (fsm[n].from .. fsm[n].to)
    /\ Goto(n, [fsm[n] EXCEPT !.name = "insert"])

\* ... and so does each batch.
ReingestBatch(n) ==
    LET end   == Min({fsm[n].from + MaxLedgerPerFlush - 1, fsm[n].to})
        batch == fsm[n].from .. end
    IN  /\ Unlocked(n, "insert")
        /\ \/ /\ batch \cap history # {}
              /\ Goto(n, Stop)
              /\ UNCHANGED histVars
           \/ /\ batch \cap history = {}
              /\ Insert(n, batch)
              /\ Goto(n, IF end = fsm[n].to THEN Stop
                         ELSE [fsm[n] EXCEPT !.from = end + 1])

-----------------------------------------------------------------------------
(* Load test                                                               *)

RunSave(n) ==
    /\ Running(n, "save")
    /\ \/ restore.run # NoNode /\ Rollback(n, Stop)
       \/ /\ restore.run = NoNode
          /\ Written(n)
          /\ UNCHANGED <<upto, faults>>

CommitSave(n) ==
    /\ Committing(n, "save")
    /\ restore' = [run |-> n, ledger |-> last]
    /\ UNCHANGED <<last, version, stateAt, stateBy, fakeState, histVars>>

\* checkDBState, without the lock.
LoadTestCheck(n) ==
    /\ Unlocked(n, "check")
    /\ Goto(n, IF DBState(n) = "valid" THEN [fsm[n] EXCEPT !.name =
                    IF fsm[n].from = 1 THEN "fixtures" ELSE "start"]
               ELSE Exit(n))
    /\ UNCHANGED histVars

\* RunFixturesIngestion writes the state tables in its own transaction, which
\* does not take the lock.
LoadTestFixtures(n) ==
    /\ fsm[n].name = "fixtures"
    /\ fakeState' = TRUE
    /\ Goto(n, Start)
    /\ UNCHANGED <<closed, last, version, restore, stateAt, stateBy, histVars,
                   lock, phase, upto, commands, faults>>

\* GetLedger returns ErrLoadTestDone.
LoadTestDone(n) ==
    /\ runId[n]
    /\ phase[n] = "idle"
    /\ Unlocked(n, "resume")
    /\ Goto(n, Exit(n))
    /\ UNCHANGED histVars

RunRestore(n) ==
    /\ Running(n, "restore")
    /\ \/ /\ restore.run = NoNode \/ restore.ledger > last
          /\ Rollback(n, Stop)
       \/ /\ restore.run # NoNode
          /\ restore.ledger <= last
          /\ Written(n)
          /\ UNCHANGED <<upto, faults>>

\* Mutant: the state tables are not scheduled for a rebuild.
CommitRestoreKeepsState(n) ==
    LET generated == restore.ledger + 1 .. last IN
    /\ Committing(n, "restore")
    /\ history' = history \ generated
    /\ fakeHistory' = fakeHistory \ generated
    /\ restore' = NoRestore
    /\ UNCHANGED <<last, version, stateAt, stateBy, fakeState>>

CommitRestore(n) ==
    LET generated == restore.ledger + 1 .. last IN
    /\ Committing(n, "restore")
    /\ history' = history \ generated
    /\ fakeHistory' = fakeHistory \ generated
    /\ version' = IF restore.ledger < last THEN 0 ELSE version
    /\ restore' = NoRestore
    /\ UNCHANGED <<last, stateAt, stateBy, fakeState>>

-----------------------------------------------------------------------------
(* Commits, errors, crashes, commands                                      *)

\* Mutant: a live process stops after a build, as `ingest build-state` does.
CommitNextStops(n) ==
    CASE fsm[n].name = "resume" -> Resume(fsm[n].to + 1)
      [] fsm[n].name \in {"start", "history"} -> Start
      [] fsm[n].name = "save" -> [fsm[n] EXCEPT !.name = "check"]
      [] OTHER -> Stop

CommitNext(n) ==
    CASE fsm[n].name = "build" -> Resume(fsm[n].to)
      [] fsm[n].name = "resume" -> Resume(fsm[n].to + 1)
      [] fsm[n].name \in {"start", "history"} -> Start
      [] fsm[n].name = "save" -> [fsm[n] EXCEPT !.name = "check"]
      [] OTHER -> Stop

\* COMMIT takes effect; the process may still see an error instead of the
\* acknowledgement.
Commit(n) ==
    /\ ~Conflict(n)
    /\ \/ CommitStart(n)
       \/ CommitBuild(n)
       \/ CommitResume(n)
       \/ CommitHistoryRange(n)
       \/ CommitReingestForce(n)
       \/ CommitSave(n)
       \/ CommitRestore(n)
    /\ \/ Finish(n, CommitNext(n)) /\ UNCHANGED faults
       \/ faults < MaxFaults /\ faults' = faults + 1 /\ Finish(n, FailNext(n))
    /\ UNCHANGED <<closed, upto, commands>>

\* An INSERT hit a unique index: the transaction is rolled back.
Abort(n) ==
    /\ phase[n] = "written"
    /\ Conflict(n)
    /\ Rollback(n, FailNext(n))

\* A database or backend call of the state fails.
Fail(n) ==
    /\ faults < MaxFaults
    /\ fsm[n].name \notin {"stop", "wait"}
    /\ faults' = faults + 1
    /\ Finish(n, IF fsm[n].name = "resume" /\ phase[n] = "idle"
                 THEN Start ELSE FailNext(n))
    /\ UNCHANGED <<closed, dbVars, histVars, upto, commands>>

\* The process dies; a live one is restarted.
Crash(n) ==
    /\ faults < MaxFaults
    /\ fsm[n] # Stop
    /\ faults' = faults + 1
    /\ fsm' = [fsm EXCEPT ![n] = IF n \in Live THEN Start ELSE Stop]
    /\ runId' = [runId EXCEPT ![n] = FALSE]
    /\ lock' = IF lock = n THEN NoNode ELSE lock
    /\ phase' = [phase EXCEPT ![n] = "idle"]
    /\ UNCHANGED <<closed, dbVars, histVars, upto, commands>>

\* An operator runs a command.
StartCommand(n) ==
    /\ n \notin Live
    /\ fsm[n] = Stop
    /\ commands < MaxCommands
    /\ commands' = commands + 1
    /\ \E command \in Commands : Goto(n, command)
    /\ UNCHANGED <<closed, dbVars, histVars, lock, phase, upto, faults>>

\* `ingest trigger-state-rebuild`: UpdateIngestVersion(0), without the lock.
TriggerRebuild(n) ==
    /\ fsm[n].name = "trigger"
    /\ version' = 0
    /\ Goto(n, Stop)
    /\ UNCHANGED <<closed, last, restore, stateAt, stateBy, fakeState, histVars,
                   lock, phase, upto, commands, faults>>
-----------------------------------------------------------------------------
Init ==
    /\ closed = 2 * CheckpointFrequency - 1
    /\ last = 0
    /\ version = 0
    /\ restore = NoRestore
    /\ stateAt = 0
    /\ stateBy = {}
    /\ fakeState = FALSE
    /\ history = InitHistory
    /\ fakeHistory = {}
    /\ lock = NoNode
    /\ fsm = [n \in Node |-> IF n \in Live THEN Start ELSE Stop]
    /\ phase = [n \in Node |-> "idle"]
    /\ upto = [n \in Node |-> 0]
    /\ runId = [n \in Node |-> FALSE]
    /\ commands = 0
    /\ faults = 0

Run(n) ==
    \/ RunStart(n)
    \/ RunBuild(n)
    \/ RunResume(n)
    \/ RunHistoryRange(n)
    \/ RunReingestForce(n)
    \/ RunSave(n)
    \/ RunRestore(n)

Step(n) ==
    \/ WaitForCheckpoint(n)
    \/ ReingestCheck(n)
    \/ ReingestDelete(n)
    \/ ReingestBatch(n)
    \/ LoadTestCheck(n)
    \/ LoadTestFixtures(n)
    \/ LoadTestDone(n)
    \/ TriggerRebuild(n)

Next ==
    \/ CloseLedger
    \/ \E n \in Node :
        \/ Lock(n)
        \/ Run(n)
        \/ Commit(n)
        \/ Abort(n)
        \/ Step(n)
        \/ Fail(n)
        \/ Crash(n)
        \/ StartCommand(n)

\* The network keeps closing ledgers, Postgres grants the row lock to every
\* waiter in turn, and a process that holds the lock finishes its state.
Fairness ==
    /\ WF_vars(CloseLedger)
    /\ \A n \in Node :
        /\ SF_vars(Lock(n))
        /\ WF_vars(Run(n))
        /\ WF_vars(Commit(n) \/ Abort(n))
        /\ WF_vars(Step(n))

Spec == Init /\ [][Next]_vars
FairSpec == Spec /\ Fairness
-----------------------------------------------------------------------------
(* Properties                                                              *)

TypeOK ==
    /\ closed \in 2 * CheckpointFrequency - 1 .. MaxLedger
    /\ last \in 0..MaxLedger
    /\ version \in Nat
    /\ restore \in [run : Node \cup {NoNode}, ledger : 0..MaxLedger]
    /\ stateAt \in -1..MaxLedger
    /\ stateBy \subseteq Nat
    /\ fakeState \in BOOLEAN
    /\ history \subseteq Ledger
    /\ fakeHistory \subseteq history
    /\ lock \in Node \cup {NoNode}
    /\ fsm \in [Node -> [name : StateNames, from : 0..MaxLedger, to : 0..MaxLedger]]
    /\ phase \in [Node -> {"idle", "locked", "written"}]
    /\ upto \in [Node -> Int]
    /\ runId \in [Node -> BOOLEAN]
    /\ commands \in 0..MaxCommands
    /\ faults \in 0..MaxFaults

\* The fields a state struct is created with are the ones its run validates:
\* a checkpoint or a resume ledger is never 0 and a range is never empty, so
\* the "unexpected ... value" and "invalid range" errors are unreachable.
FieldsOK(st) ==
    /\ st.name \in {"build", "buildStop", "resume"} => st.to >= 1
    /\ st.name \in {"history", "reingest", "reingestForce", "delete", "insert"} =>
          1 <= st.from /\ st.from <= st.to

FieldsValid == \A n \in Node : FieldsOK(fsm[n])

\* What a process that holds the lock has established: nobody else is in a
\* transaction, and the rows its decision was based on have not moved in a way
\* that would invalidate it, although `version` is not locked.
TransactionValid ==
    \A n \in Node : phase[n] # "idle" =>
        /\ lock = n
        /\ fsm[n].name \in Locking
        /\ fsm[n].name = "resume" => fsm[n].to < MaxLedger
        /\ phase[n] = "written" =>
              /\ fsm[n].name = "resume" =>
                    fsm[n].to = last /\ version \in {0, CurrentVersion[n]}
              /\ fsm[n].name \in {"build", "buildStop"} => ~BuildDone(n)
              /\ fsm[n].name \in {"history", "reingestForce"} => upto[n] <= fsm[n].to

\* What every process can rely on in the middle of a state: the types, the
\* fields of its state struct, and what it has read under the lock.
ProcessesValid == TypeOK /\ FieldsValid /\ TransactionValid

\* Whenever exp_ingest_last_ledger is set, the state tables reflect exactly
\* that ledger, and every row of them was written by the ingestion version
\* recorded in the database: buildState truncates and rebuilds, resumeState
\* applies the next ledger once and only with its own version, whatever the
\* interleaving, failure or lost acknowledgement.
StateMatchesLastLedger ==
    last > 0 => /\ stateAt = last
                /\ version > 0 => stateBy = {version}

\* Live ingestion leaves no hole in history_ledgers: historyRange starts right
\* after the latest row, even when its partial result was committed, and
\* resume inserts only the ledger that follows it.
NoHistoryGap == \A a, b \in history : a..b \subseteq history

\* What the database promises its readers (module IngestedState): between two
\* commits the last ledger, the version and the state tables change together
\* and only by applying the next ledger, by a rebuild when there is no state
\* of that version, by a reset of the last ledger or of the version.
Promise == INSTANCE IngestedState
ImplementsIngestedState == Promise!Spec

\* A process that read the ledger sequence under the lock never runs into the
\* unique index of history_ledgers: no other process can have inserted the
\* ledger it is about to commit.
NoDuplicateIngest == \A n \in Node : phase[n] = "written" => ~Conflict(n)

\* As long as no operator has run a command, the history tables are what live
\* ingestion promises: they have no hole, and no process runs into the unique
\* index (NoHistoryGap, NoDuplicateIngest).  Reingestion may leave gaps.
HistoryIntact == commands = 0 => NoHistoryGap /\ NoDuplicateIngest

\* Once a load test has been restored, no generated ledger is left in the
\* history tables, and generated entries are left in the state tables only
\* while the version forces a rebuild.
LoadTestLeavesNoTrace ==
    restore.run = NoNode =>
        /\ fakeHistory = {}
        /\ fakeState /\ last > 0 => version = 0
============================================================================
