------------------------- MODULE IngestionFSMProofs -------------------------
(***************************************************************************)
(* Proofs about IngestionFSM, for any number of processes, any versions,   *)
(* any operator commands and any bounds: the inductive invariant, which    *)
(* the states of the machine preserve up to their COMMIT, what each COMMIT *)
(* does to the database, and the steps of processes outside a transaction. *)
(***************************************************************************)
EXTENDS IngestionFSM, TLAPS, WellFoundedInduction

Inv == TypeOK /\ FieldsValid /\ TransactionValid /\ StateMatchesLastLedger

StateSet == [name : StateNames, from : 0..MaxLedger, to : 0..MaxLedger]

\* A non-empty set of ledgers has a largest element, so GetLatestHistoryLedger
\* is well defined.
LEMMA LedgerMax ==
    ASSUME NEW S \in SUBSET Ledger, S # {}
    PROVE  \E x \in S : \A y \in S : x >= y
<1> DEFINE T == {MaxLedger - x : x \in S}
<1>1. T \subseteq Nat /\ T # {}
    <2>1. \A x \in S : MaxLedger - x \in Nat
        BY BoundAssumption DEF Ledger
    <2> QED BY <2>1
<1>2. \E t \in T : \A u \in T : ~(<<u, t>> \in OpToRel(<, Nat))
    <2> HIDE DEF T
    <2> QED BY Zenon, <1>1, NatLessThanWellFounded, WFMin
<1>2a. PICK t \in T : \A u \in T : ~(<<u, t>> \in OpToRel(<, Nat))
    BY Zenon, <1>2
<1>3. \A u \in T : t <= u
    <2> TAKE u \in T
    <2>1. u \in Nat /\ t \in Nat BY <1>1
    <2>2. ~(u < t) BY Zenon, <1>2a, <2>1 DEF OpToRel
    <2> QED BY <2>1, <2>2
<1>4. PICK x \in S : t = MaxLedger - x
    OBVIOUS
<1>5. \A y \in S : MaxLedger - y \in T
    OBVIOUS
<1>6. \A y \in S : x >= y
    BY <1>3, <1>4, <1>5, BoundAssumption DEF Ledger
<1> QED BY <1>6

\* The latest history ledger is a ledger, or 0 when there is none.
LEMMA LastHistoryType ==
    ASSUME history \subseteq Ledger
    PROVE  LastHistory \in 0..MaxLedger
<1>1. CASE history = {}
    BY <1>1, BoundAssumption DEF LastHistory
<1>2. CASE history # {}
    <2>1. \E x \in history : \A y \in history : x >= y
        BY <1>2, LedgerMax
    <2>2. Max(history) \in history
        BY <2>1 DEF Max
    <2>3. LastHistory = Max(history)
        BY <1>2 DEF LastHistory
    <2> HIDE DEF Max
    <2>4. Max(history) \in 1..MaxLedger
        BY Zenon, <2>2 DEF Ledger
    <2> QED BY <2>3, <2>4, BoundAssumption
<1> QED BY <1>1, <1>2

\* The archive's latest checkpoint is a ledger.
LEMMA LastCheckpointType ==
    ASSUME closed \in 2 * CheckpointFrequency - 1 .. MaxLedger
    PROVE  LastCheckpoint \in 1..MaxLedger
<1> DEFINE r == (closed + 1) % CheckpointFrequency
<1>1. r \in 0 .. (CheckpointFrequency - 1)
    BY BoundAssumption
<1> HIDE DEF r
<1>2. closed - r \in 1..MaxLedger
    BY <1>1, BoundAssumption
<1> QED BY <1>2 DEF LastCheckpoint, r

StateOK(st) == st \in StateSet /\ FieldsOK(st)

\* Every state a process can be sent to has valid fields.
LEMMA FixedStates ==
    /\ StateOK(Start) /\ StateOK(Stop) /\ StateOK(Wait)
    /\ StateOK(St("restore", 0, 0))
BY BoundAssumption DEF StateOK, StateSet, FieldsOK, Start, Stop, Wait, St,
    StateNames, Locking

LEMMA StatesOK ==
    ASSUME TypeOK, FieldsValid, NEW n \in Node
    PROVE  /\ StateOK(fsm[n])
           /\ StateOK(Exit(n))
           /\ StateOK(FailNext(n))
<1>1. StateOK(fsm[n])
    BY DEF TypeOK, FieldsValid, StateOK, StateSet
<1>2. StateOK(Exit(n))
    BY FixedStates DEF Exit
<1>3. StateOK(FailNext(n))
    BY <1>1, <1>2, FixedStates DEF FailNext
<1> QED BY <1>1, <1>2, <1>3

LEMMA StartNextOK ==
    ASSUME TypeOK, NEW n \in Node, ~ResetNeeded(n)
    PROVE  StateOK(StartNext(n))
<1>1. LastHistory \in 0..MaxLedger
    BY LastHistoryType DEF TypeOK
<1>2. LastCheckpoint \in 1..MaxLedger
    BY LastCheckpointType DEF TypeOK
<1>3. last \in 0..MaxLedger
    BY DEF TypeOK
<1>4. ASSUME NEW to \in 1..MaxLedger, LastHistory < to
      PROVE  StateOK(HistoryRange(LastHistory + 1, to))
    BY <1>1, <1>4, BoundAssumption DEF StateOK, StateSet, FieldsOK, HistoryRange,
        St, StateNames, Locking
<1>5. ASSUME NEW ledger \in 1..MaxLedger
      PROVE  StateOK(Rebuild(ledger)) /\ StateOK(Resume(ledger))
    BY <1>5, BoundAssumption DEF StateOK, StateSet, FieldsOK, Rebuild, Resume, St,
        StateNames, Locking
<1>6. CASE DBState(n) \in {"empty", "needsRebuild"}
    <2>1. CASE LastHistory > LastCheckpoint
        <3>1. ~(LastHistory < LastCheckpoint)
            BY <1>1, <1>2, <2>1
        <3>2. StartNext(n) = Wait
            BY <1>6, <2>1, <3>1 DEF StartNext
        <3> QED BY <3>2, FixedStates
    <2>2. CASE LastHistory # 0 /\ LastHistory < LastCheckpoint
        <3>1. ~(LastHistory > LastCheckpoint)
            BY <1>1, <1>2, <2>2
        <3>2. StartNext(n) = HistoryRange(LastHistory + 1, LastCheckpoint)
            BY <1>6, <2>2, <3>1 DEF StartNext
        <3> QED BY <1>2, <1>4, <2>2, <3>2
    <2>3. CASE /\ ~(LastHistory > LastCheckpoint)
               /\ ~(LastHistory # 0 /\ LastHistory < LastCheckpoint)
        <3>1. StartNext(n) = Rebuild(LastCheckpoint)
            BY <1>6, <2>3 DEF StartNext
        <3> QED BY <1>2, <1>5, <3>1
    <2> QED BY <2>1, <2>2, <2>3
<1>7. CASE DBState(n) = "inconsistent"
    <2>1. last # 0 /\ LastHistory # last
        BY <1>7 DEF DBState
    <2>2. LastHistory < last
        BY <1>1, <1>3, <1>7, <2>1 DEF ResetNeeded
    <2>3. StartNext(n) = HistoryRange(LastHistory + 1, last)
        BY <1>7 DEF StartNext
    <2> QED BY <1>3, <1>4, <2>1, <2>2, <2>3
<1>8. CASE DBState(n) \notin {"empty", "needsRebuild", "inconsistent"}
    <2>1. last # 0
        BY <1>8 DEF DBState
    <2>2. StartNext(n) = Resume(last)
        BY <1>8 DEF StartNext
    <2> QED BY <1>3, <1>5, <2>1, <2>2
<1> QED BY <1>6, <1>7, <1>8

ProcType ==
    /\ lock \in Node \cup {NoNode}
    /\ fsm \in [Node -> StateSet]
    /\ phase \in [Node -> {"idle", "locked", "written"}]
    /\ runId \in [Node -> BOOLEAN]

\* Moving to a valid state keeps the process variables well typed.
LEMMA GotoOK ==
    ASSUME TypeOK, FieldsValid, NEW n \in Node, NEW next, StateOK(next), Goto(n, next)
    PROVE  /\ fsm' \in [Node -> StateSet]
           /\ runId' \in [Node -> BOOLEAN]
           /\ FieldsValid'
<1>1. fsm' \in [Node -> StateSet]
    BY DEF TypeOK, StateSet, StateOK, Goto
<1>2. runId' \in [Node -> BOOLEAN]
    BY DEF TypeOK, Goto
<1>3. FieldsValid'
    BY DEF TypeOK, StateSet, StateOK, Goto, FieldsValid
<1> QED BY <1>1, <1>2, <1>3

\* When the holder of the lock finishes, no process is in a transaction.
LEMMA FinishOK ==
    ASSUME TypeOK, FieldsValid, TransactionValid, NEW n \in Node, NEW next,
           StateOK(next), Finish(n, next)
    PROVE  /\ ProcType'
           /\ FieldsValid'
           /\ phase[n] # "idle" => TransactionValid'
<1>1. fsm' \in [Node -> StateSet] /\ runId' \in [Node -> BOOLEAN] /\ FieldsValid'
    BY GotoOK DEF Finish
<1>2. lock' \in Node \cup {NoNode} /\ phase' \in [Node -> {"idle", "locked", "written"}]
    BY DEF TypeOK, Finish
<1>3. ASSUME phase[n] # "idle" PROVE \A m \in Node : phase'[m] = "idle"
    BY <1>3 DEF TypeOK, TransactionValid, Finish
<1>4. phase[n] # "idle" => TransactionValid'
    BY <1>3 DEF TransactionValid
<1> QED BY <1>1, <1>2, <1>4 DEF ProcType

\* A step that touches neither the database nor the transactions of others
\* preserves the invariant.
LEMMA FinishUnchanged ==
    ASSUME Inv, NEW n \in Node, NEW next, StateOK(next), Finish(n, next),
           UNCHANGED <<closed, dbVars, histVars, upto, commands>>,
           faults' \in 0..MaxFaults
    PROVE  Inv'
<1> USE DEF Inv
<1>1. ProcType' /\ FieldsValid' /\ (phase[n] # "idle" => TransactionValid')
    BY FinishOK
<1>2. TypeOK'
    BY <1>1 DEF TypeOK, ProcType, StateSet, dbVars, histVars
<1>3. StateMatchesLastLedger'
    BY DEF StateMatchesLastLedger, dbVars
<1>4. ASSUME phase[n] = "idle" PROVE TransactionValid'
    <2>1. \A m \in Node : phase'[m] # "idle" =>
            m # n /\ phase'[m] = phase[m] /\ fsm'[m] = fsm[m]
        BY <1>4 DEF TypeOK, Finish, Goto
    <2>2. \A m \in Node : phase[m] # "idle" /\ m # n => lock' = lock
        BY DEF TransactionValid, Finish
    <2>3. UNCHANGED <<last, version, upto>>
        BY DEF dbVars
    <2> QED BY <2>1, <2>2, <2>3 DEF TransactionValid, BuildDone
<1> QED BY <1>1, <1>2, <1>3, <1>4

-----------------------------------------------------------------------------
LEMMA InitInv == Init => Inv
<1> SUFFICES ASSUME Init PROVE Inv
    OBVIOUS
<1> USE DEF Init
<1>1. \A n \in Node : fsm[n] = Start \/ fsm[n] = Stop
    OBVIOUS
<1>2. TypeOK
    <2>1. fsm \in [Node -> StateSet]
        BY FixedStates, <1>1 DEF StateOK
    <2>2. history \subseteq Ledger
        BY InitHistoryAssumption, BoundAssumption DEF Ledger
    <2>3. closed \in 2 * CheckpointFrequency - 1 .. MaxLedger
        BY BoundAssumption
    <2>4. restore \in [run : Node \cup {NoNode}, ledger : 0..MaxLedger]
        BY BoundAssumption DEF NoRestore
    <2>5. last \in 0..MaxLedger /\ stateAt \in -1..MaxLedger /\ commands \in 0..MaxCommands
          /\ faults \in 0..MaxFaults /\ version \in Nat /\ upto \in [Node -> Int]
        BY BoundAssumption
    <2>6. stateBy \subseteq Nat /\ fakeState \in BOOLEAN /\ fakeHistory \subseteq history
          /\ lock \in Node \cup {NoNode} /\ runId \in [Node -> BOOLEAN]
          /\ phase \in [Node -> {"idle", "locked", "written"}]
        BY Zenon
    <2> QED BY <2>1, <2>2, <2>3, <2>4, <2>5, <2>6 DEF TypeOK, StateSet
<1>3. FieldsValid
    BY <1>1, FixedStates DEF FieldsValid, StateOK
<1>4. TransactionValid
    BY DEF TransactionValid
<1>5. StateMatchesLastLedger
    BY DEF StateMatchesLastLedger
<1> QED BY <1>2, <1>3, <1>4, <1>5 DEF Inv

LEMMA CloseLedgerInv == Inv /\ CloseLedger => Inv'
<1> SUFFICES ASSUME Inv, CloseLedger PROVE Inv'
    OBVIOUS
<1> USE DEF Inv, CloseLedger, dbVars, histVars, procVars
<1>1. TypeOK'
    BY BoundAssumption DEF TypeOK
<1>2. FieldsValid' /\ TransactionValid' /\ StateMatchesLastLedger'
    BY DEF FieldsValid, TransactionValid, StateMatchesLastLedger, BuildDone
<1> QED BY <1>1, <1>2

\* Only the process that is granted the lock enters a transaction; the ledger
\* it is about to ingest is available, hence within the bound.
LEMMA LockInv ==
    ASSUME Inv, NEW n \in Node, Lock(n) PROVE Inv'
<1> USE DEF Inv, Lock, dbVars, histVars
<1>1. TypeOK'
    BY DEF TypeOK
<1>2. FieldsValid' /\ StateMatchesLastLedger'
    BY DEF FieldsValid, StateMatchesLastLedger
<1>3. fsm[n].name = "resume" => fsm[n].to < MaxLedger
    <2>1. closed <= MaxLedger /\ closed \in Int /\ fsm[n].to \in Int
        BY BoundAssumption DEF TypeOK
    <2> QED BY <2>1, BoundAssumption DEF Available
<1>4. \A m \in Node : m # n => phase'[m] = "idle"
    BY NodeAssumption DEF TypeOK, TransactionValid
<1>5. phase'[n] = "locked"
    BY DEF TypeOK
<1>6. TransactionValid'
    BY <1>3, <1>4, <1>5 DEF TransactionValid
<1> QED BY <1>1, <1>2, <1>6

\* A state that rolls back or writes without deciding anything new.
LEMMA RollbackInv ==
    ASSUME Inv, NEW n \in Node, NEW next, StateOK(next), Rollback(n, next)
    PROVE  Inv'
<1>1. faults' \in 0..MaxFaults
    BY DEF Rollback, Inv, TypeOK
<1> QED BY <1>1, FinishUnchanged DEF Rollback

\* A state that has issued all of its writes: its decision was taken from the
\* rows it holds locked.
LEMMA WrittenInv ==
    ASSUME Inv, NEW n \in Node, phase[n] = "locked", Written(n),
           upto' \in [Node -> Int], faults' \in 0..MaxFaults,
           fsm[n].name = "resume" => fsm[n].to = last /\ version \in {0, CurrentVersion[n]},
           fsm[n].name \in {"build", "buildStop"} => ~BuildDone(n),
           fsm[n].name \in {"history", "reingestForce"} => upto'[n] <= fsm[n].to
    PROVE  Inv'
<1> USE DEF Inv, Written, dbVars, histVars
<1>1. TypeOK'
    BY Zenon DEF TypeOK
<1>2. FieldsValid' /\ StateMatchesLastLedger'
    BY DEF FieldsValid, StateMatchesLastLedger
<1>3. \A m \in Node : m # n => phase'[m] = "idle"
    BY DEF TypeOK, TransactionValid
<1>4. TransactionValid'
    BY <1>3 DEF TransactionValid, BuildDone
<1> QED BY <1>1, <1>2, <1>4

-----------------------------------------------------------------------------
\* The batches stop at the end of the range or before it.
LEMMA FlushedOK ==
    ASSUME Inv, NEW n \in Node, Flushed(n)
    PROVE  /\ upto' \in [Node -> Int]
           /\ faults' \in 0..MaxFaults
           /\ upto'[n] <= fsm[n].to
<1> USE DEF Inv
<1>1. fsm[n].from \in Int /\ fsm[n].to \in Int
    BY BoundAssumption DEF TypeOK
<1>2. CASE upto' = [upto EXCEPT ![n] = fsm[n].to] /\ UNCHANGED faults
    BY <1>1, <1>2 DEF TypeOK
<1>3. ASSUME faults < MaxFaults, faults' = faults + 1,
             NEW ledger \in fsm[n].from - 1 .. fsm[n].to - 1,
             upto' = [upto EXCEPT ![n] = ledger]
      PROVE  /\ upto' \in [Node -> Int]
             /\ faults' \in 0..MaxFaults
             /\ upto'[n] <= fsm[n].to
    BY <1>1, <1>3, BoundAssumption DEF TypeOK
<1> QED BY <1>2, <1>3 DEF Flushed

LEMMA RunInv ==
    ASSUME Inv, NEW n \in Node, Run(n) PROVE Inv'
<1> USE DEF Inv
<1>ok. StateOK(fsm[n]) /\ StateOK(Exit(n)) /\ StateOK(FailNext(n))
    BY StatesOK
<1>same. ASSUME UNCHANGED <<upto, faults>>
         PROVE  upto' \in [Node -> Int] /\ faults' \in 0..MaxFaults
    BY <1>same DEF TypeOK
<1>1. CASE RunStart(n)
    <2>1. CASE Rollback(n, Start)
        BY <2>1, RollbackInv, FixedStates
    <2>2. CASE Rollback(n, Exit(n))
        BY <2>2, RollbackInv, <1>ok
    <2>3. CASE ~ResetNeeded(n) /\ Rollback(n, StartNext(n))
        BY <2>3, RollbackInv, StartNextOK
    <2>4. CASE Written(n) /\ UNCHANGED <<upto, faults>>
        BY <1>1, <2>4, <1>same, WrittenInv DEF RunStart, Running
    <2> QED BY <1>1, <2>1, <2>2, <2>3, <2>4 DEF RunStart
<1>2. CASE RunBuild(n)
    <2>1. CASE Rollback(n, FailNext(n))
        BY <2>1, RollbackInv, <1>ok
    <2>2. CASE ~BuildDone(n) /\ Written(n) /\ UNCHANGED <<upto, faults>>
        BY <1>2, <2>2, <1>same, WrittenInv DEF RunBuild, Running
    <2> QED BY <1>2, <2>1, <2>2 DEF RunBuild
<1>3. CASE RunResume(n)
    <2> DEFINE ledger == fsm[n].to + 1
    <2>0. fsm[n].to \in 1..MaxLedger /\ last \in 0..MaxLedger
        BY <1>3, BoundAssumption DEF RunResume, Running, TypeOK, FieldsValid, FieldsOK
    <2>1. CASE Rollback(n, Start)
        BY <2>1, RollbackInv, FixedStates
    <2>2. CASE ledger <= last /\ Rollback(n, Resume(last))
        <3>1. StateOK(Resume(last))
            BY <2>0, <2>2, BoundAssumption DEF StateOK, StateSet, FieldsOK, Resume,
                St, StateNames, Locking
        <3> QED BY <2>2, <3>1, RollbackInv
    <2>3. CASE Rollback(n, fsm[n])
        BY <2>3, RollbackInv, <1>ok
    <2>4. CASE /\ ledger = last + 1 /\ ResumeVersionOK(n)
               /\ Written(n) /\ UNCHANGED <<upto, faults>>
        <3>1. fsm[n].to = last
            BY <2>0, <2>4
        <3> QED BY <1>3, <2>4, <3>1, <1>same, WrittenInv
                DEF RunResume, Running, ResumeVersionOK
    <2> QED BY <1>3, <2>1, <2>2, <2>3, <2>4 DEF RunResume
<1>4. CASE RunHistoryRange(n)
    <2>1. CASE Rollback(n, Start)
        BY <2>1, RollbackInv, FixedStates
    <2>2. CASE Flushed(n) /\ Written(n)
        BY <1>4, <2>2, FlushedOK, WrittenInv DEF RunHistoryRange, Running
    <2> QED BY SMTT(60), <1>4, <2>1, <2>2 DEF RunHistoryRange
<1>5. CASE RunReingestForce(n)
    BY <1>5, FlushedOK, WrittenInv DEF RunReingestForce, Running
<1>6. CASE RunSave(n)
    <2>1. CASE Rollback(n, Stop)
        BY <2>1, RollbackInv, FixedStates
    <2>2. CASE Written(n) /\ UNCHANGED <<upto, faults>>
        BY <1>6, <2>2, <1>same, WrittenInv DEF RunSave, Running
    <2> QED BY <1>6, <2>1, <2>2 DEF RunSave
<1>7. CASE RunRestore(n)
    <2>1. CASE Rollback(n, Stop)
        BY <2>1, RollbackInv, FixedStates
    <2>2. CASE Written(n) /\ UNCHANGED <<upto, faults>>
        BY <1>7, <2>2, <1>same, WrittenInv DEF RunRestore, Running
    <2> QED BY <1>7, <2>1, <2>2 DEF RunRestore
<1> QED BY <1>1, <1>2, <1>3, <1>4, <1>5, <1>6, <1>7 DEF Run

-----------------------------------------------------------------------------
(* What each COMMIT does to the database.                                  *)

\* The state after an acknowledged COMMIT has valid fields.
LEMMA CommitNextOK ==
    ASSUME Inv, NEW n \in Node, phase[n] = "written"
    PROVE  StateOK(CommitNext(n))
<1> USE DEF Inv
<1>0. fsm[n] \in StateSet /\ FieldsOK(fsm[n])
    BY StatesOK DEF StateOK
<1>1. fsm[n].from \in 0..MaxLedger /\ fsm[n].to \in 0..MaxLedger
    BY <1>0 DEF StateSet
<1>2. CASE fsm[n].name = "build"
    <2>1. CommitNext(n) = Resume(fsm[n].to)
        BY <1>2 DEF CommitNext
    <2>2. fsm[n].to \in 1..MaxLedger
        BY <1>0, <1>1, <1>2, BoundAssumption DEF FieldsOK
    <2> QED BY <2>1, <2>2, BoundAssumption DEF StateOK, StateSet, FieldsOK, Resume, St,
            StateNames, Locking
<1>3. CASE fsm[n].name = "resume"
    <2>1. CommitNext(n) = Resume(fsm[n].to + 1)
        BY <1>3 DEF CommitNext
    <2>2. fsm[n].to + 1 \in 1..MaxLedger
        BY <1>1, <1>3, BoundAssumption DEF TransactionValid
    <2> QED BY <2>1, <2>2, BoundAssumption DEF StateOK, StateSet, FieldsOK, Resume, St,
            StateNames, Locking
<1>4. CASE fsm[n].name \in {"start", "history"}
    <2>1. CommitNext(n) = Start
        BY <1>4 DEF CommitNext
    <2> QED BY <2>1, FixedStates
<1>5. CASE fsm[n].name = "save"
    <2>1. CommitNext(n) = [fsm[n] EXCEPT !.name = "check"]
        BY <1>5 DEF CommitNext
    <2> QED BY <1>0, <2>1 DEF StateOK, StateSet, FieldsOK, StateNames, Locking
<1>6. CASE fsm[n].name \notin {"build", "resume", "start", "history", "save"}
    <2>1. CommitNext(n) = Stop
        BY <1>6 DEF CommitNext
    <2> QED BY <2>1, FixedStates
<1> QED BY <1>2, <1>3, <1>4, <1>5, <1>6

DBType ==
    /\ last \in 0..MaxLedger
    /\ version \in Nat
    /\ restore \in [run : Node \cup {NoNode}, ledger : 0..MaxLedger]
    /\ stateAt \in -1..MaxLedger
    /\ stateBy \subseteq Nat
    /\ fakeState \in BOOLEAN
    /\ history \subseteq Ledger
    /\ fakeHistory \subseteq history

LEMMA LedgerNumbers ==
    /\ \A x \in 0..MaxLedger : x \in -1..MaxLedger /\ x \in Nat
    /\ \A x \in Nat : x >= 1 => x > 0
    /\ \A x \in Nat : {x + 1} = (x + 1) .. (x + 1) /\ x + 1 \in Nat /\ x = (x + 1) - 1
BY BoundAssumption

\* Inserting ledgers into the history tables.
LEMMA InsertOK ==
    ASSUME history \subseteq Ledger, fakeHistory \subseteq history,
           NEW n \in Node, NEW ledgers \in SUBSET Ledger, Insert(n, ledgers)
    PROVE  history' \subseteq Ledger /\ fakeHistory' \subseteq history'
BY DEF Insert

\* What each COMMIT does to the database: it keeps the rows well typed and the
\* state tables in step with the last ledger.
LEMMA CommitDB ==
    ASSUME Inv, NEW n \in Node,
           \/ CommitStart(n) \/ CommitBuild(n) \/ CommitResume(n)
           \/ CommitHistoryRange(n) \/ CommitReingestForce(n)
           \/ CommitSave(n) \/ CommitRestore(n)
    PROVE  DBType' /\ StateMatchesLastLedger' /\ phase[n] = "written"
<1> USE DEF Inv, Committing
<1>0. phase[n] = "written"
    BY DEF CommitStart, CommitBuild, CommitResume, CommitHistoryRange,
        CommitReingestForce, CommitSave, CommitRestore
<1>1. fsm[n].from \in 0..MaxLedger /\ fsm[n].to \in 0..MaxLedger
    BY DEF TypeOK
<1>2. CurrentVersion[n] \in Nat \ {0}
    BY VersionAssumption
<1>type. DBType
    BY DEF TypeOK, DBType
<1>range. ASSUME fsm[n].name \in {"history", "reingestForce"}
          PROVE  fsm[n].from .. upto[n] \in SUBSET Ledger
    <2>1. 1 <= fsm[n].from
        BY <1>range DEF FieldsValid, FieldsOK
    <2>2. upto[n] <= fsm[n].to /\ upto[n] \in Int
        BY <1>0, <1>range DEF TransactionValid, TypeOK
    <2> QED BY <1>1, <2>1, <2>2, BoundAssumption DEF Ledger
<1>3. CASE CommitStart(n)
    BY <1>3, <1>type, BoundAssumption DEF CommitStart, DBType, histVars,
        StateMatchesLastLedger
<1>4. CASE CommitBuild(n)
    <2>1. DBType'
        <3>1. last' \in 0..MaxLedger /\ stateAt' \in -1..MaxLedger
            BY Zenon, <1>1, <1>4, LedgerNumbers DEF CommitBuild
        <3>2. version' \in Nat /\ stateBy' \subseteq Nat /\ fakeState' \in BOOLEAN
            BY Zenon, <1>2, <1>4 DEF CommitBuild
        <3> QED BY <1>4, <1>type, <3>1, <3>2 DEF CommitBuild, DBType, histVars
    <2>2. StateMatchesLastLedger'
        BY <1>4 DEF CommitBuild, StateMatchesLastLedger
    <2> QED BY <2>1, <2>2, <1>0
<1>5. CASE CommitResume(n)
    <2> DEFINE ledger == fsm[n].to + 1
    <2>1. fsm[n].to = last /\ last > 0 /\ last < MaxLedger /\ version \in {0, CurrentVersion[n]}
        <3>1. fsm[n].name = "resume"
            BY Zenon, <1>5 DEF CommitResume
        <3>2. /\ fsm[n].to = last /\ fsm[n].to < MaxLedger /\ version \in {0, CurrentVersion[n]}
              /\ fsm[n].to >= 1
            BY Zenon, <1>0, <3>1 DEF TransactionValid, FieldsValid, FieldsOK
        <3> QED BY Zenon, <1>1, <3>2, LedgerNumbers
    <2>2. stateAt = last /\ (version > 0 => stateBy = {version})
        BY <2>1 DEF StateMatchesLastLedger
    <2>3. ledger \in Ledger /\ last' = ledger /\ stateAt' = ledger
        <3>1. last' = ledger /\ stateAt' = (IF stateAt = ledger - 1 THEN ledger ELSE -1)
            BY <1>5 DEF CommitResume
        <3>2. last \in 0..MaxLedger /\ ledger = last + 1
            BY <1>type, <2>1 DEF DBType
        <3> QED BY <2>1, <2>2, <3>1, <3>2, BoundAssumption DEF Ledger
    <2>4. stateBy' = stateBy \cup {CurrentVersion[n]} /\ UNCHANGED <<version, restore>>
        BY <1>5 DEF CommitResume
    <2>5. history' \subseteq Ledger /\ fakeHistory' \subseteq history'
        BY <1>5, <1>type, <2>3, InsertOK DEF CommitResume, DBType
    <2>6. fakeState' \in BOOLEAN
        BY <1>5 DEF CommitResume
    <2>7. DBType'
        <3>1. last' \in 0..MaxLedger /\ stateAt' \in -1..MaxLedger
            BY <2>3, BoundAssumption DEF Ledger
        <3>2. stateBy' \subseteq Nat /\ UNCHANGED <<version, restore>>
            BY Zenon, <1>2, <1>type, <2>4 DEF DBType
        <3> QED BY <1>type, <2>5, <2>6, <3>1, <3>2 DEF DBType
    <2>8. StateMatchesLastLedger'
        BY <1>2, <2>1, <2>2, <2>3, <2>4 DEF StateMatchesLastLedger
    <2> QED BY <2>7, <2>8, <1>0
<1>6. CASE CommitHistoryRange(n)
    <2>1. history' \subseteq Ledger /\ fakeHistory' \subseteq history'
        BY Zenon, <1>6, <1>type, <1>range, InsertOK DEF CommitHistoryRange, DBType
    <2> QED BY <1>0, <1>6, <1>type, <2>1 DEF CommitHistoryRange, DBType, dbVars,
            StateMatchesLastLedger
<1>7. CASE CommitReingestForce(n)
    <2>1. history' \subseteq Ledger /\ fakeHistory' \subseteq history'
        BY <1>7, <1>type, <1>range DEF CommitReingestForce, DBType
    <2> QED BY <1>0, <1>7, <1>type, <2>1 DEF CommitReingestForce, DBType, dbVars,
            StateMatchesLastLedger
<1>8. CASE CommitSave(n)
    BY <1>0, <1>8, <1>type DEF CommitSave, DBType, histVars, StateMatchesLastLedger
<1>9. CASE CommitRestore(n)
    <2>1. DBType'
        <3>1. version' \in Nat
            <4>1. version \in Nat /\ 0 \in Nat
                BY <1>type DEF DBType
            <4>2. version' \in {0, version}
                BY Zenon, <1>9 DEF CommitRestore
            <4> QED BY Zenon, <4>1, <4>2
        <3>2. restore' \in [run : Node \cup {NoNode}, ledger : 0..MaxLedger]
            BY <1>9, BoundAssumption DEF CommitRestore, NoRestore
        <3>3. history' \subseteq Ledger /\ fakeHistory' \subseteq history'
            BY <1>9, <1>type DEF CommitRestore, DBType
        <3> QED BY <1>9, <1>type, <3>1, <3>2, <3>3 DEF CommitRestore, DBType
    <2>2. StateMatchesLastLedger'
        <3>1. UNCHANGED <<last, stateAt, stateBy>> /\ version' \in {0, version}
            BY Zenon, <1>9 DEF CommitRestore
        <3>2. StateMatchesLastLedger /\ ~(0 > 0)
            BY SMT
        <3>3. CASE version' = 0
            BY Zenon, <3>1, <3>2, <3>3 DEF StateMatchesLastLedger
        <3>4. CASE version' = version
            BY Zenon, <3>1, <3>2, <3>4 DEF StateMatchesLastLedger
        <3> QED BY Zenon, <3>1, <3>3, <3>4
    <2> QED BY <1>0, <2>1, <2>2
<1> QED BY <1>3, <1>4, <1>5, <1>6, <1>7, <1>8, <1>9

LEMMA CommitInv ==
    ASSUME Inv, NEW n \in Node, Commit(n) PROVE Inv'
<1> USE DEF Inv
<1>1. DBType' /\ StateMatchesLastLedger' /\ phase[n] = "written"
    BY CommitDB DEF Commit
<1>2. PICK next : StateOK(next) /\ Finish(n, next)
    BY Zenon, <1>1, CommitNextOK, StatesOK DEF Commit
<1>3. ProcType' /\ FieldsValid' /\ TransactionValid'
    BY <1>1, <1>2, FinishOK
<1>4. closed' = closed /\ upto' = upto /\ commands' = commands /\ faults' \in 0..MaxFaults
    BY BoundAssumption DEF Commit, TypeOK
<1>5. TypeOK'
    BY <1>1, <1>3, <1>4 DEF TypeOK, DBType, ProcType, StateSet
<1> QED BY <1>1, <1>3, <1>5

-----------------------------------------------------------------------------
(* Refinement: every step is a step of IngestedState or leaves its four     *)
(* variables alone.                                                         *)

LEMMA CommitPromise ==
    ASSUME Inv, NEW n \in Node, Commit(n)
    PROVE  [Promise!Next]_(Promise!absVars)
<1> USE DEF Inv, Committing, Promise!absVars
<1>0. last \in 0..MaxLedger /\ version \in Nat /\ stateAt \in -1..MaxLedger
    BY DEF TypeOK
<1>1. CASE CommitStart(n)
    BY <1>1 DEF CommitStart, Promise!Next, Promise!Discard
<1>2. CASE CommitBuild(n)
    <2>1. ~BuildDone(n) /\ fsm[n].to >= 1
        BY <1>2 DEF CommitBuild, TransactionValid, FieldsValid, FieldsOK
    <2>2. CurrentVersion[n] \in Nat \ {0} /\ fsm[n].to \in Int
        BY VersionAssumption, BoundAssumption DEF TypeOK
    <2>3. last = 0 \/ CurrentVersion[n] # version
        BY <1>0, <2>1, BoundAssumption DEF BuildDone
    <2>4. last' > 0 /\ version' > 0
        BY <1>2, <2>1, <2>2 DEF CommitBuild
    <2>5. stateAt' = last' /\ stateBy' = {version'} /\ version' = CurrentVersion[n]
        BY Zenon, <1>2 DEF CommitBuild
    <2> QED BY Zenon, <2>3, <2>4, <2>5 DEF Promise!Next, Promise!BuildAnew
<1>3. CASE CommitResume(n)
    <2>1. fsm[n].to = last /\ last > 0 /\ version \in {0, CurrentVersion[n]}
        BY <1>0, <1>3, BoundAssumption
        DEF CommitResume, TransactionValid, FieldsValid, FieldsOK
    <2>2. stateAt = last /\ (version > 0 => stateBy = {version})
        BY <2>1 DEF StateMatchesLastLedger
    <2>3. last' = last + 1 /\ stateAt' = last' /\ version' = version
          /\ stateBy' = stateBy \cup {CurrentVersion[n]}
        BY <1>0, <1>3, <2>1, <2>2 DEF CommitResume
    <2>4. version > 0 => stateBy' = {version}
        BY <2>1, <2>2, <2>3
    <2> QED BY <2>1, <2>3, <2>4 DEF Promise!Next, Promise!Advance
<1>4. CASE CommitHistoryRange(n) \/ CommitReingestForce(n) \/ CommitSave(n)
    BY <1>4 DEF CommitHistoryRange, CommitReingestForce, CommitSave, dbVars
<1>5. CASE CommitRestore(n)
    BY <1>5 DEF CommitRestore, Promise!Next, Promise!Outdate
<1> QED BY <1>1, <1>2, <1>3, <1>4, <1>5 DEF Commit

LEMMA NextPromise == Inv /\ [Next]_vars => [Promise!Next]_(Promise!absVars)
<1> SUFFICES ASSUME Inv, [Next]_vars PROVE [Promise!Next]_(Promise!absVars)
    OBVIOUS
<1> USE DEF Promise!absVars
<1>1. CASE UNCHANGED vars \/ CloseLedger
    <2>1. CASE UNCHANGED vars BY Zenon, <2>1 DEF vars, dbVars
    <2>2. CASE CloseLedger BY Zenon, <2>2 DEF dbVars, CloseLedger
    <2> QED BY <1>1, <2>1, <2>2
<1>2. ASSUME NEW n \in Node, Lock(n) \/ Abort(n) \/ Fail(n) \/ Crash(n) \/ StartCommand(n)
      PROVE  UNCHANGED dbVars
    BY Zenon, <1>2 DEF Lock, Abort, Rollback, Fail, Crash, StartCommand
<1>3. ASSUME NEW n \in Node, Run(n) PROVE UNCHANGED dbVars
    BY Zenon, <1>3 DEF Run, RunStart, RunBuild, RunResume, RunHistoryRange, RunReingestForce,
        RunSave, RunRestore, Rollback, Written
<1>4. ASSUME NEW n \in Node, TriggerRebuild(n) PROVE Promise!Next
    BY <1>4 DEF TriggerRebuild, Promise!Next, Promise!Outdate
<1>5. ASSUME NEW n \in Node, Step(n), ~TriggerRebuild(n)
      PROVE  UNCHANGED <<last, version, stateAt, stateBy>>
    BY <1>5 DEF Step, WaitForCheckpoint, ReingestCheck, ReingestDelete, ReingestBatch,
        LoadTestCheck, LoadTestFixtures, LoadTestDone, Unlocked, dbVars
<1>6. ASSUME NEW n \in Node, Commit(n) PROVE [Promise!Next]_(Promise!absVars)
    BY <1>6, CommitPromise
<1> QED BY <1>1, <1>2, <1>3, <1>4, <1>5, <1>6 DEF Next, dbVars

-----------------------------------------------------------------------------
(* Failures, and the steps of processes that hold no lock.                 *)

LEMMA AbortInv ==
    ASSUME Inv, NEW n \in Node, Abort(n) PROVE Inv'
BY RollbackInv, StatesOK DEF Abort, Inv

LEMMA FailInv ==
    ASSUME Inv, NEW n \in Node, Fail(n) PROVE Inv'
<1>1. PICK next : StateOK(next) /\ Finish(n, next)
    BY StatesOK, FixedStates DEF Fail, Inv
<1>2. faults' \in 0..MaxFaults
    BY BoundAssumption DEF Fail, Inv, TypeOK
<1> QED BY <1>1, <1>2, FinishUnchanged DEF Fail

LEMMA CrashInv ==
    ASSUME Inv, NEW n \in Node, Crash(n) PROVE Inv'
<1> USE DEF Inv, Crash, dbVars, histVars
<1>1. StateOK(IF n \in Live THEN Start ELSE Stop)
    BY FixedStates
<1>2. faults' \in 0..MaxFaults
    BY BoundAssumption DEF TypeOK
<1>3. TypeOK'
    BY <1>1, <1>2 DEF TypeOK, StateOK, StateSet
<1>4. FieldsValid'
    BY <1>1 DEF TypeOK, FieldsValid, StateOK
<1>5. StateMatchesLastLedger'
    BY DEF StateMatchesLastLedger
<1>6. \A m \in Node : phase'[m] # "idle" =>
        m # n /\ phase'[m] = phase[m] /\ fsm'[m] = fsm[m] /\ lock' = lock
    BY DEF TypeOK, TransactionValid
<1>7. TransactionValid'
    <2>1. UNCHANGED <<last, version, upto>>
        BY Zenon
    <2> QED BY Zenon, <1>6, <2>1 DEF TransactionValid, BuildDone
<1> QED BY <1>3, <1>4, <1>5, <1>7

\* A step of a process that holds no lock: it leaves the last ledger, the
\* state tables and every open transaction alone, and can only clear the
\* version.
LEMMA OutsideInv ==
    ASSUME Inv, NEW n \in Node, NEW next, StateOK(next), Goto(n, next),
           phase[n] = "idle",
           UNCHANGED <<closed, last, restore, stateAt, stateBy, lock, phase, upto, faults>>,
           version' \in {0, version}, fakeState' \in BOOLEAN,
           history' \subseteq Ledger, fakeHistory' \subseteq history',
           commands' \in 0..MaxCommands
    PROVE  Inv'
<1> USE DEF Inv
<1>1. /\ fsm' \in [Node -> StateSet]
      /\ runId' \in [Node -> BOOLEAN]
      /\ FieldsValid'
    BY GotoOK
<1>2. TypeOK'
    BY <1>1 DEF TypeOK, StateSet
<1>3. \A m \in Node : phase[m] # "idle" => m # n /\ fsm'[m] = fsm[m]
    BY DEF TypeOK, Goto
<1>4. \A m \in Node : CurrentVersion[m] # 0
    BY VersionAssumption
<1>5. TransactionValid'
    BY <1>3, <1>4 DEF TransactionValid, BuildDone
<1>6. StateMatchesLastLedger'
    BY DEF StateMatchesLastLedger
<1> QED BY <1>1, <1>2, <1>5, <1>6

LEMMA StartCommandInv ==
    ASSUME Inv, NEW n \in Node, StartCommand(n) PROVE Inv'
<1> USE DEF Inv
<1>1. PICK command \in Commands : Goto(n, command)
    BY DEF StartCommand
<1>2. StateOK(command)
    BY <1>1, CommandAssumption
    DEF StateOK, StateSet, FieldsOK, CommandNames, StateNames, Locking
<1>3. phase[n] = "idle"
    BY DEF StartCommand, Stop, St, TransactionValid, Locking, TypeOK
<1>4. commands' \in 0..MaxCommands
    BY BoundAssumption DEF StartCommand, TypeOK
<1>5. version' = version /\ fakeState' \in BOOLEAN /\ history' \subseteq Ledger
      /\ fakeHistory' \subseteq history'
    BY DEF StartCommand, dbVars, histVars, TypeOK
<1>6. UNCHANGED <<closed, last, restore, stateAt, stateBy, lock, phase, upto, faults>>
    BY DEF StartCommand, dbVars
<1> QED BY <1>1, <1>2, <1>3, <1>4, <1>5, <1>6, OutsideInv

\* Reingestion without --force deletes and inserts history rows of its range.
LEMMA ReingestOK ==
    ASSUME Inv, NEW n \in Node,
           ReingestCheck(n) \/ ReingestDelete(n) \/ ReingestBatch(n)
    PROVE  \E next : /\ StateOK(next) /\ Goto(n, next)
                     /\ history' \subseteq Ledger /\ fakeHistory' \subseteq history'
<1> USE DEF Inv, Unlocked
<1>0. fsm[n] \in StateSet /\ FieldsOK(fsm[n])
    BY StatesOK DEF StateOK
<1>1. fsm[n].from \in 0..MaxLedger /\ fsm[n].to \in 0..MaxLedger
    BY <1>0 DEF StateSet
<1>2. history \subseteq Ledger /\ fakeHistory \subseteq history
    BY DEF TypeOK
<1>3. CASE ReingestCheck(n)
    <2>1. StateOK([fsm[n] EXCEPT !.name = "delete"])
        BY <1>0, <1>3 DEF ReingestCheck, StateOK, StateSet, FieldsOK, StateNames, Locking
    <2>2. history' \subseteq Ledger /\ fakeHistory' \subseteq history'
        BY <1>2, <1>3 DEF ReingestCheck, histVars
    <2> QED BY <1>3, <2>1, <2>2, FixedStates DEF ReingestCheck
<1>4. CASE ReingestDelete(n)
    <2>1. StateOK([fsm[n] EXCEPT !.name = "insert"])
        BY <1>0, <1>4 DEF ReingestDelete, StateOK, StateSet, FieldsOK, StateNames, Locking
    <2>2. history' \subseteq Ledger /\ fakeHistory' \subseteq history'
        BY <1>2, <1>4 DEF ReingestDelete
    <2> QED BY <1>4, <2>1, <2>2 DEF ReingestDelete
<1>5. CASE ReingestBatch(n)
    <2> DEFINE end == Min({fsm[n].from + MaxLedgerPerFlush - 1, fsm[n].to})
    <2>1. 1 <= fsm[n].from /\ fsm[n].from <= fsm[n].to
        BY <1>0, <1>5 DEF ReingestBatch, FieldsOK
    <2>2. end \in fsm[n].from .. fsm[n].to
        <3>1. fsm[n].from + MaxLedgerPerFlush - 1 \in Int /\ fsm[n].to \in Int
              /\ fsm[n].from <= fsm[n].from + MaxLedgerPerFlush - 1
            BY <1>1, BoundAssumption
        <3>2. \A x, y \in Int : Min({x, y}) \in {x, y} /\ Min({x, y}) <= x /\ Min({x, y}) <= y
            <4> TAKE x, y \in Int
            <4>1. \E z \in {x, y} : \A w \in {x, y} : z <= w
                OBVIOUS
            <4> QED BY <4>1 DEF Min
        <3>3. end \in {fsm[n].from + MaxLedgerPerFlush - 1, fsm[n].to} /\ end <= fsm[n].to
            BY Zenon, <3>1, <3>2
        <3> HIDE DEF end
        <3> QED BY <1>1, <2>1, <3>1, <3>3
    <2> HIDE DEF end
    <2>3. fsm[n].from .. end \in SUBSET Ledger
        BY <1>1, <2>1, <2>2, BoundAssumption DEF Ledger
    <2>4. end # fsm[n].to => StateOK([fsm[n] EXCEPT !.from = end + 1])
        <3> SUFFICES ASSUME end # fsm[n].to
                     PROVE  StateOK([fsm[n] EXCEPT !.from = end + 1])
            OBVIOUS
        <3>1. end + 1 \in 0..MaxLedger /\ 1 <= end + 1 /\ end + 1 <= fsm[n].to
            BY <1>1, <2>1, <2>2, BoundAssumption
        <3>2. fsm[n].name = "insert"
            BY <1>5 DEF ReingestBatch
        <3> QED BY <1>0, <3>1, <3>2 DEF StateOK, StateSet, FieldsOK
    <2>5. CASE Goto(n, Stop) /\ UNCHANGED histVars
        BY <1>2, <2>5, FixedStates DEF histVars
    <2>6. CASE /\ Insert(n, fsm[n].from .. end)
               /\ Goto(n, IF end = fsm[n].to THEN Stop
                          ELSE [fsm[n] EXCEPT !.from = end + 1])
        BY Zenon, <1>2, <2>3, <2>4, <2>6, InsertOK, FixedStates
    <2> QED BY <1>5, <2>5, <2>6 DEF ReingestBatch, end
<1> QED BY <1>3, <1>4, <1>5

LEMMA StepInv ==
    ASSUME Inv, NEW n \in Node, Step(n) PROVE Inv'
<1> USE DEF Inv, Unlocked
<1>0. fsm[n] \in StateSet /\ FieldsOK(fsm[n]) /\ StateOK(Exit(n))
    BY StatesOK DEF StateOK
<1>idle. phase[n] = "idle"
    BY DEF Step, WaitForCheckpoint, ReingestCheck, ReingestDelete, ReingestBatch,
        LoadTestCheck, LoadTestFixtures, LoadTestDone, TriggerRebuild,
        TransactionValid, Locking
<1>same. history \subseteq Ledger /\ fakeHistory \subseteq history /\ fakeState \in BOOLEAN
         /\ commands \in 0..MaxCommands
    BY DEF TypeOK
<1>1. CASE WaitForCheckpoint(n)
    BY <1>1, <1>idle, <1>same, FixedStates, OutsideInv
    DEF WaitForCheckpoint, dbVars, histVars
<1>2. CASE ReingestCheck(n) \/ ReingestDelete(n) \/ ReingestBatch(n)
    <2>1. PICK next : /\ StateOK(next) /\ Goto(n, next)
                      /\ history' \subseteq Ledger /\ fakeHistory' \subseteq history'
        BY <1>2, ReingestOK
    <2>2. UNCHANGED <<closed, dbVars, lock, phase, upto, commands, faults>>
        BY <1>2 DEF ReingestCheck, ReingestDelete, ReingestBatch
    <2> QED BY <1>idle, <1>same, <2>1, <2>2, OutsideInv DEF dbVars
<1>3. CASE LoadTestCheck(n)
    <2>1. StateOK([fsm[n] EXCEPT !.name = IF fsm[n].from = 1 THEN "fixtures" ELSE "start"])
        BY <1>0, <1>3 DEF StateOK, StateSet, FieldsOK, StateNames, Locking
    <2>2. PICK next : StateOK(next) /\ Goto(n, next)
        BY <1>0, <1>3, <2>1 DEF LoadTestCheck
    <2>3. UNCHANGED <<closed, dbVars, histVars, lock, phase, upto, commands, faults>>
        BY <1>3 DEF LoadTestCheck
    <2> QED BY <1>idle, <1>same, <2>2, <2>3, OutsideInv DEF dbVars, histVars
<1>4. CASE LoadTestFixtures(n)
    BY <1>4, <1>idle, <1>same, FixedStates, OutsideInv DEF LoadTestFixtures, histVars
<1>5. CASE LoadTestDone(n)
    BY <1>0, <1>5, <1>idle, <1>same, OutsideInv DEF LoadTestDone, dbVars, histVars
<1>6. CASE TriggerRebuild(n)
    BY <1>6, <1>idle, <1>same, FixedStates, OutsideInv DEF TriggerRebuild, histVars
<1> QED BY <1>1, <1>2, <1>3, <1>4, <1>5, <1>6 DEF Step

-----------------------------------------------------------------------------
LEMMA NextInv == Inv /\ [Next]_vars => Inv'
<1> SUFFICES ASSUME Inv, [Next]_vars PROVE Inv'
    OBVIOUS
<1>1. CASE UNCHANGED vars
    BY <1>1 DEF vars, dbVars, histVars, procVars, Inv, TypeOK, FieldsValid, TransactionValid,
        BuildDone, StateMatchesLastLedger
<1>2. CASE CloseLedger
    BY <1>2, CloseLedgerInv
<1>3. ASSUME NEW n \in Node,
             \/ Lock(n) \/ Run(n) \/ Commit(n) \/ Abort(n)
             \/ Step(n) \/ Fail(n) \/ Crash(n) \/ StartCommand(n)
      PROVE  Inv'
    BY <1>3, LockInv, RunInv, CommitInv, AbortInv, StepInv, FailInv, CrashInv,
        StartCommandInv
<1> QED BY <1>1, <1>2, <1>3 DEF Next

\* Every reachable database state is well typed, the fields of every state
\* struct pass the validation at the top of its run, and a transaction's
\* decision still holds when it commits.
THEOREM ProcessesCorrect == Spec => []ProcessesValid
<1>1. Inv => ProcessesValid
    BY DEF Inv, ProcessesValid
<1> QED BY <1>1, InitInv, NextInv, PTL DEF Spec

\* The state tables always reflect exactly the ledger and the version that
\* the key-value rows claim, for any number of processes and releases.
THEOREM StateCorrect == Spec => []StateMatchesLastLedger
<1>1. Inv => StateMatchesLastLedger
    BY DEF Inv
<1> QED BY <1>1, InitInv, NextInv, PTL DEF Spec

-----------------------------------------------------------------------------
\* The ingestion processes implement the promise of IngestedState, whatever
\* their number, their versions, the faults and the operator commands.
THEOREM Refinement == Spec => ImplementsIngestedState
<1>1. Init => Promise!Init
    BY DEF Init, Promise!Init
<1> QED BY <1>1, InitInv, NextInv, NextPromise, PTL
        DEF Spec, ImplementsIngestedState, Promise!Spec

-----------------------------------------------------------------------------
(* The history tables, as long as only live ingestion writes to them.      *)

LiveNames == {"start", "build", "resume", "history", "wait", "stop"}
OnlyLive == \A n \in Node : ~runId[n] /\ fsm[n].name \in LiveNames

\* What a process is about to insert follows what is there.
InsertsFollow ==
    \A n \in Node : phase[n] = "written" =>
        /\ fsm[n].name = "resume" => LastHistory \in {0, last}
        /\ fsm[n].name = "history" => LastHistory = fsm[n].from - 1

HistoryInv == Inv /\ (commands = 0 => OnlyLive /\ NoHistoryGap /\ InsertsFollow)

LEMMA LastHistoryMax ==
    ASSUME history \subseteq Ledger
    PROVE  /\ \A l \in history : l <= LastHistory
           /\ history # {} => LastHistory \in history
           /\ LastHistory = 0 <=> history = {}
<1>1. CASE history = {}
    BY <1>1 DEF LastHistory
<1>2. CASE history # {}
    <2>1. \E x \in history : \A y \in history : x >= y
        BY <1>2, LedgerMax
    <2>2. Max(history) \in history /\ \A y \in history : Max(history) >= y
        BY <2>1 DEF Max
    <2>3. LastHistory = Max(history)
        BY <1>2 DEF LastHistory
    <2> HIDE DEF Max
    <2>4. \A l \in history : l \in Int /\ l >= 1
        BY BoundAssumption DEF Ledger
    <2> QED BY <1>2, <2>2, <2>3, <2>4
<1> QED BY <1>1, <1>2

LEMMA NothingTwice ==
    ASSUME HistoryInv, commands = 0 PROVE NoDuplicateIngest
<1> SUFFICES ASSUME NEW n \in Node, phase[n] = "written" PROVE ~Conflict(n)
    BY DEF NoDuplicateIngest
<1>1. history \subseteq Ledger /\ fsm[n].name \in LiveNames /\ last \in Nat /\ fsm[n].from \in Nat
    BY DEF HistoryInv, Inv, TypeOK, OnlyLive
<1>2. \A l \in history : l \in Nat /\ l <= LastHistory
    <2>1. \A l \in history : l <= LastHistory
        BY Zenon, <1>1, LastHistoryMax
    <2>2. \A l \in history : l \in Nat
        BY <1>1, BoundAssumption DEF Ledger
    <2> QED BY <2>1, <2>2
<1>3. LastHistory \in Nat
    BY <1>1, LastHistoryType
<1>4. CASE fsm[n].name = "resume"
    <2>1. fsm[n].to = last /\ LastHistory \in {0, last}
        BY <1>4 DEF HistoryInv, Inv, TransactionValid, InsertsFollow
    <2>2. Inserted(n) = {last + 1}
        BY <1>4, <2>1 DEF Inserted
    <2>3. last + 1 \notin history
        BY <1>1, <1>2, <2>1
    <2> QED BY <2>2, <2>3 DEF Conflict
<1>5. CASE fsm[n].name = "history"
    <2>1. LastHistory = fsm[n].from - 1
        BY <1>5 DEF HistoryInv, InsertsFollow
    <2>2. Inserted(n) = fsm[n].from .. upto[n]
        BY <1>5 DEF Inserted
    <2>3. upto[n] \in Int
        BY DEF HistoryInv, Inv, TypeOK
    <2>4. \A l \in fsm[n].from .. upto[n] : l \notin history
        BY <1>1, <1>2, <2>1, <2>3
    <2> QED BY <2>2, <2>4 DEF Conflict
<1>6. CASE fsm[n].name \notin {"resume", "history"}
    BY <1>1, <1>6 DEF Inserted, Conflict, LiveNames
<1> QED BY <1>4, <1>5, <1>6

\* Inserting right behind the last ledger, or anything that starts a history.
LEMMA ExtendsHistory ==
    ASSUME history \subseteq Ledger, NoHistoryGap, NEW from \in Nat, NEW to \in Int,
           LastHistory = 0 \/ LastHistory = from - 1, history' = history \cup (from .. to)
    PROVE  NoHistoryGap'
<1> SUFFICES ASSUME NEW a \in history', NEW b \in history', NEW x \in a .. b PROVE x \in history'
    BY DEF NoHistoryGap
<1>1. \A l \in history : l \in Nat
    BY BoundAssumption DEF Ledger
<1>2. CASE history = {}
    BY <1>2
<1>3. CASE history # {} /\ LastHistory = from - 1
    <2>1. from - 1 \in history /\ \A l \in history : l <= from - 1
        BY <1>3, LastHistoryMax
    <2>2. CASE b \in history
        <3>1. a \in history
            BY <1>1, <2>1, <2>2
        <3> QED BY <2>2, <3>1 DEF NoHistoryGap
    <2>3. CASE b \notin history
        <3>1. b \in from .. to
            BY <2>3
        <3>2. CASE x >= from
            BY <1>1, <3>1, <3>2
        <3>3. CASE x < from
            <4>1. a \in history /\ x \in a .. (from - 1)
                BY <1>1, <3>1, <3>3
            <4> QED BY <2>1, <4>1 DEF NoHistoryGap
        <3> QED BY <1>1, <3>1, <3>2, <3>3
    <2> QED BY <2>2, <2>3
<1> QED BY <1>2, <1>3, LastHistoryMax

-----------------------------------------------------------------------------
LEMMA InitHistoryInv == Init => HistoryInv
<1> SUFFICES ASSUME Init PROVE HistoryInv
    OBVIOUS
<1>1. OnlyLive
    BY DEF Init, OnlyLive, LiveNames, Start, Stop, St
<1>2. NoHistoryGap
    BY InitHistoryAssumption DEF Init, NoHistoryGap
<1>3. InsertsFollow
    BY DEF Init, InsertsFollow
<1> QED BY <1>1, <1>2, <1>3, InitInv DEF HistoryInv

\* Where live processes go, they stay live processes.
LEMMA LiveStates ==
    ASSUME OnlyLive, NEW n \in Node
    PROVE  /\ Start.name \in LiveNames /\ fsm[n].name \in LiveNames
           /\ Exit(n).name \in LiveNames /\ FailNext(n).name \in LiveNames
           /\ CommitNext(n).name \in LiveNames /\ StartNext(n).name \in LiveNames
           /\ \A ledger : Resume(ledger).name \in LiveNames
<1>1. fsm[n].name \in LiveNames /\ ~runId[n]
    BY DEF OnlyLive
<1>2. Start.name = "start" /\ Stop.name = "stop" /\ Wait.name = "wait"
    BY DEF Start, Stop, Wait, St
<1>3. \A x, y : Resume(x).name = "resume" /\ Rebuild(x).name = "build" /\ HistoryRange(x, y).name = "history"
    BY DEF Resume, Rebuild, HistoryRange, St
<1>4. Exit(n) = Stop
    BY <1>1 DEF Exit
<1>5. FailNext(n).name \in LiveNames
    BY <1>1, <1>2, <1>4 DEF FailNext, LiveNames
<1>6. CommitNext(n).name \in LiveNames
    BY <1>1, <1>2, <1>3 DEF CommitNext, LiveNames
<1>7. StartNext(n).name \in LiveNames
    BY <1>2, <1>3 DEF StartNext, LiveNames
<1> QED BY <1>1, <1>2, <1>3, <1>4, <1>5, <1>6, <1>7 DEF LiveNames

LEMMA GotoLive ==
    ASSUME TypeOK, OnlyLive, NEW n \in Node, NEW next, next.name \in LiveNames,
           Goto(n, next)
    PROVE  OnlyLive'
<1>1. next.name # "check" /\ ~runId[n]
    BY DEF OnlyLive, LiveNames
<1>2. \A m \in Node : fsm'[m] = IF m = n THEN next ELSE fsm[m]
    BY DEF Goto, TypeOK
<1>3. \A m \in Node : ~runId'[m]
    BY <1>1 DEF Goto, TypeOK, OnlyLive
<1> QED BY <1>2, <1>3 DEF OnlyLive

\* A process that ends its run leaves the transactions of the others alone.
LEMMA FinishFollows ==
    ASSUME TypeOK, NoHistoryGap, InsertsFollow, NEW n \in Node, NEW next,
           fsm' = [fsm EXCEPT ![n] = next], phase' = [phase EXCEPT ![n] = "idle"],
           UNCHANGED <<last, history>>
    PROVE  NoHistoryGap' /\ InsertsFollow'
<1>1. NoHistoryGap'
    BY DEF NoHistoryGap
<1>2. LastHistory' = LastHistory
    BY DEF LastHistory
<1>3. ASSUME NEW m \in Node, phase'[m] = "written"
      PROVE  phase[m] = "written" /\ fsm'[m] = fsm[m]
    BY <1>3 DEF TypeOK
<1> QED BY <1>1, <1>2, <1>3 DEF InsertsFollow

LEMMA RollbackHistory ==
    ASSUME TypeOK, OnlyLive, NoHistoryGap, InsertsFollow, NEW n \in Node, NEW next,
           next.name \in LiveNames, Finish(n, next), UNCHANGED <<last, history>>
    PROVE  OnlyLive' /\ NoHistoryGap' /\ InsertsFollow'
<1>1. OnlyLive'
    BY GotoLive DEF Finish
<1>2. NoHistoryGap' /\ InsertsFollow'
    BY Zenon, FinishFollows DEF Finish, Goto
<1> QED BY <1>1, <1>2

LEMMA WrittenHistory ==
    ASSUME TypeOK, OnlyLive, NoHistoryGap, InsertsFollow, NEW n \in Node, Written(n),
           fsm[n].name = "resume" => LastHistory \in {0, last},
           fsm[n].name = "history" => LastHistory = fsm[n].from - 1
    PROVE  OnlyLive' /\ NoHistoryGap' /\ InsertsFollow'
<1>1. /\ fsm' = fsm /\ runId' = runId /\ history' = history /\ last' = last
      /\ phase' = [phase EXCEPT ![n] = "written"]
    BY DEF Written, dbVars, histVars
<1>2. LastHistory' = LastHistory
    BY <1>1 DEF LastHistory
<1>3. ASSUME NEW m \in Node, phase'[m] = "written"
      PROVE  m = n \/ phase[m] = "written"
    BY <1>1, <1>3 DEF TypeOK
<1>4. InsertsFollow'
    BY <1>1, <1>2, <1>3 DEF InsertsFollow
<1> QED BY <1>1, <1>4 DEF OnlyLive, NoHistoryGap

LEMMA RunHistory ==
    ASSUME TypeOK, OnlyLive, NoHistoryGap, InsertsFollow, NEW n \in Node, Run(n)
    PROVE  OnlyLive' /\ NoHistoryGap' /\ InsertsFollow'
<1>0. fsm[n].name \in LiveNames
    BY DEF OnlyLive
<1>r. ASSUME NEW next, next.name \in LiveNames, Rollback(n, next)
      PROVE  OnlyLive' /\ NoHistoryGap' /\ InsertsFollow'
    <2>1. Finish(n, next) /\ UNCHANGED <<last, history>>
        BY <1>r DEF Rollback, dbVars, histVars
    <2> QED BY <1>r, <2>1, RollbackHistory
<1>1. CASE RunStart(n)
    <2>1. fsm[n].name = "start"
        BY <1>1 DEF RunStart, Running
    <2>2. CASE Written(n)
        BY <2>1, <2>2, WrittenHistory
    <2>3. CASE Rollback(n, Start) \/ Rollback(n, Exit(n)) \/ Rollback(n, StartNext(n))
        BY <1>r, <2>3, LiveStates
    <2> QED BY <1>1, <2>2, <2>3 DEF RunStart
<1>2. CASE RunBuild(n)
    <2>1. fsm[n].name \notin {"resume", "history"}
        BY <1>2 DEF RunBuild, Running
    <2>2. CASE Written(n)
        BY <2>1, <2>2, WrittenHistory
    <2>3. CASE Rollback(n, FailNext(n))
        BY <1>r, <2>3, LiveStates
    <2> QED BY <1>2, <2>2, <2>3 DEF RunBuild
<1>3. CASE RunResume(n)
    <2>1. fsm[n].name = "resume"
        BY <1>3 DEF RunResume, Running
    <2>2. CASE LastHistory \in {0, last} /\ Written(n)
        BY <2>1, <2>2, WrittenHistory
    <2>3. CASE Rollback(n, Start) \/ Rollback(n, Resume(last)) \/ Rollback(n, fsm[n])
        BY <1>r, <2>3, LiveStates
    <2> QED BY Zenon, <1>3, <2>2, <2>3 DEF RunResume
<1>4. CASE RunHistoryRange(n)
    <2>1. fsm[n].name = "history"
        BY <1>4 DEF RunHistoryRange, Running
    <2>2. CASE LastHistory = fsm[n].from - 1 /\ Written(n)
        BY <2>1, <2>2, WrittenHistory
    <2>3. CASE Rollback(n, Start)
        BY <1>r, <2>3, LiveStates
    <2> QED BY Zenon, <1>4, <2>2, <2>3 DEF RunHistoryRange
<1>5. ~RunReingestForce(n) /\ ~RunSave(n) /\ ~RunRestore(n)
    BY <1>0 DEF RunReingestForce, RunSave, RunRestore, Running, LiveNames
<1> QED BY <1>1, <1>2, <1>3, <1>4, <1>5 DEF Run

\* What a live process commits to the history tables follows what is there.
LEMMA CommitHistory ==
    ASSUME Inv, OnlyLive, NoHistoryGap, InsertsFollow, NEW n \in Node, Commit(n)
    PROVE  OnlyLive' /\ NoHistoryGap' /\ InsertsFollow'
<1>type. TypeOK /\ history \subseteq Ledger
    BY DEF Inv, TypeOK
<1>name. fsm[n].name \in LiveNames
    BY DEF OnlyLive
<1>1. PICK next \in {CommitNext(n), FailNext(n)} : Finish(n, next)
    BY DEF Commit
<1>2. next.name \in LiveNames
    BY Zenon, <1>1, LiveStates
<1>3. OnlyLive'
    BY <1>type, <1>1, <1>2, GotoLive DEF Finish
<1>4. phase[n] = "written"
    BY Zenon DEF Commit, CommitStart, CommitBuild, CommitResume, CommitHistoryRange,
        CommitReingestForce, CommitSave, CommitRestore, Committing
<1>5. InsertsFollow'
    <2>1. \A m \in Node : phase[m] # "idle" => lock = m
        BY DEF Inv, TransactionValid
    <2>2. \A m \in Node : m # n => phase[m] = "idle"
        BY <1>4, <2>1
    <2>3. \A m \in Node : phase'[m] = "idle"
        BY <1>type, <1>1, <2>2 DEF Finish, TypeOK
    <2> QED BY Zenon, <2>3 DEF InsertsFollow
<1>6. CASE CommitResume(n)
    <2>1. fsm[n].name = "resume"
        BY <1>6 DEF CommitResume, Committing
    <2>2. fsm[n].to = last /\ LastHistory \in {0, last} /\ last \in Nat
        BY <1>4, <2>1, BoundAssumption DEF Inv, TransactionValid, InsertsFollow, TypeOK
    <2>3. history' = history \cup {last + 1}
        BY <1>6, <2>2 DEF CommitResume, Insert
    <2>4. last + 1 \in Nat /\ {last + 1} = (last + 1) .. (last + 1)
        BY Zenon, <2>2, LedgerNumbers
    <2>5. LastHistory = 0 \/ LastHistory = (last + 1) - 1
        BY Zenon, <2>2, LedgerNumbers
    <2>6. NoHistoryGap'
        BY <1>type, <2>3, <2>4, <2>5, ExtendsHistory
    <2> QED BY <1>3, <1>5, <2>6
<1>7. CASE CommitHistoryRange(n)
    <2>1. fsm[n].name = "history"
        BY Zenon, <1>7 DEF CommitHistoryRange, Committing
    <2>2. LastHistory = fsm[n].from - 1
        BY <1>4, <2>1 DEF InsertsFollow
    <2>3. fsm[n].from \in Nat /\ upto[n] \in Int
        BY <1>type, BoundAssumption DEF TypeOK
    <2>4. history' = history \cup (fsm[n].from .. upto[n])
        BY <1>7 DEF CommitHistoryRange, Insert
    <2>5. NoHistoryGap'
        BY <1>type, <2>2, <2>3, <2>4, ExtendsHistory
    <2> QED BY <1>3, <1>5, <2>5
<1>8. CASE CommitStart(n) \/ CommitBuild(n)
    <2>1. history' = history
        BY <1>8 DEF CommitStart, CommitBuild, histVars
    <2> QED BY <1>3, <1>5, <2>1 DEF NoHistoryGap
<1>9. ~CommitReingestForce(n) /\ ~CommitSave(n) /\ ~CommitRestore(n)
    BY Zenon, <1>name DEF CommitReingestForce, CommitSave, CommitRestore, Committing, LiveNames
<1> QED BY <1>6, <1>7, <1>8, <1>9 DEF Commit

LEMMA NextHistoryInv == HistoryInv /\ [Next]_vars => HistoryInv'
<1> SUFFICES ASSUME HistoryInv, [Next]_vars PROVE HistoryInv'
    OBVIOUS
<1>inv. Inv /\ Inv' /\ TypeOK
    BY NextInv DEF HistoryInv, Inv
<1> SUFFICES ASSUME commands' = 0 PROVE OnlyLive' /\ NoHistoryGap' /\ InsertsFollow'
    BY <1>inv DEF HistoryInv
<1>live. ASSUME commands = 0 PROVE OnlyLive /\ NoHistoryGap /\ InsertsFollow
    BY <1>live DEF HistoryInv
<1>1. CASE UNCHANGED vars \/ CloseLedger
    <2>1. UNCHANGED <<last, history, fsm, phase, runId, commands>>
        BY <1>1 DEF vars, CloseLedger, dbVars, histVars, procVars
    <2>2. LastHistory' = LastHistory
        BY <2>1 DEF LastHistory
    <2> QED BY <1>live, <2>1, <2>2 DEF OnlyLive, NoHistoryGap, InsertsFollow
<1>2. ASSUME NEW n \in Node, Lock(n) PROVE OnlyLive' /\ NoHistoryGap' /\ InsertsFollow'
    <2>1. /\ UNCHANGED <<last, history, fsm, runId, commands>>
          /\ phase' = [phase EXCEPT ![n] = "locked"]
        BY Zenon, <1>2 DEF Lock, dbVars, histVars
    <2>2. LastHistory' = LastHistory
        BY <2>1 DEF LastHistory
    <2>3. \A m \in Node : phase'[m] = "written" => phase[m] = "written"
        BY <1>inv, <2>1 DEF TypeOK
    <2> QED BY <1>live, <2>1, <2>2, <2>3 DEF OnlyLive, NoHistoryGap, InsertsFollow
<1>3. ASSUME NEW n \in Node, Run(n) PROVE OnlyLive' /\ NoHistoryGap' /\ InsertsFollow'
    <2>1. commands' = commands
        BY Zenon, <1>3 DEF Run, RunStart, RunBuild, RunResume, RunHistoryRange, RunReingestForce,
            RunSave, RunRestore, Rollback, Written
    <2> QED BY <1>inv, <1>live, <1>3, <2>1, RunHistory
<1>4. ASSUME NEW n \in Node, Commit(n) PROVE OnlyLive' /\ NoHistoryGap' /\ InsertsFollow'
    <2>1. commands' = commands
        BY <1>4 DEF Commit
    <2> QED BY <1>inv, <1>live, <1>4, <2>1, CommitHistory
<1>5. ASSUME NEW n \in Node, Abort(n) PROVE OnlyLive' /\ NoHistoryGap' /\ InsertsFollow'
    <2>1. UNCHANGED <<last, history, commands>> /\ Finish(n, FailNext(n))
        BY <1>5 DEF Abort, Rollback, dbVars, histVars
    <2> QED BY Zenon, <1>inv, <1>live, <2>1, LiveStates, RollbackHistory
<1>6. ASSUME NEW n \in Node, Step(n) PROVE OnlyLive' /\ NoHistoryGap' /\ InsertsFollow'
    <2>1. commands' = commands
        BY <1>6 DEF Step, WaitForCheckpoint, ReingestCheck, ReingestDelete, ReingestBatch,
            LoadTestCheck, LoadTestFixtures, LoadTestDone, TriggerRebuild, Unlocked
    <2>2. OnlyLive /\ NoHistoryGap /\ InsertsFollow
        BY <1>live, <2>1
    <2>3. fsm[n].name \in LiveNames /\ ~runId[n]
        BY <2>2 DEF OnlyLive
    <2>4. WaitForCheckpoint(n)
        BY <1>6, <2>3 DEF Step, ReingestCheck, ReingestDelete, ReingestBatch,
            LoadTestCheck, LoadTestFixtures, LoadTestDone, TriggerRebuild, Unlocked, LiveNames
    <2>5. Goto(n, Start) /\ UNCHANGED <<last, history, phase>>
        BY <2>4 DEF WaitForCheckpoint, dbVars, histVars
    <2>6. OnlyLive'
        BY <1>inv, <2>2, <2>5, LiveStates, GotoLive
    <2>7. LastHistory' = LastHistory
        BY <2>5 DEF LastHistory
    <2>8. \A m \in Node : fsm'[m] = fsm[m] \/ fsm'[m].name = "start"
        BY <1>inv, <2>5 DEF Goto, Start, St, TypeOK
    <2> QED BY <2>2, <2>5, <2>6, <2>7, <2>8 DEF NoHistoryGap, InsertsFollow
<1>7. ASSUME NEW n \in Node, Fail(n) PROVE OnlyLive' /\ NoHistoryGap' /\ InsertsFollow'
    <2>1. UNCHANGED <<last, history, commands>> /\ (Finish(n, Start) \/ Finish(n, FailNext(n)))
        BY <1>7 DEF Fail, dbVars, histVars
    <2> QED BY Zenon, <1>inv, <1>live, <2>1, LiveStates, RollbackHistory
<1>8. ASSUME NEW n \in Node, Crash(n) PROVE OnlyLive' /\ NoHistoryGap' /\ InsertsFollow'
    <2> DEFINE next == IF n \in Live THEN Start ELSE Stop
    <2>1. /\ UNCHANGED <<last, history, commands>>
          /\ fsm' = [fsm EXCEPT ![n] = next] /\ phase' = [phase EXCEPT ![n] = "idle"]
          /\ runId' = [runId EXCEPT ![n] = FALSE]
        BY <1>8 DEF Crash, dbVars, histVars
    <2>2. OnlyLive /\ NoHistoryGap /\ InsertsFollow
        BY <1>live, <2>1
    <2>3. next.name \in LiveNames
        BY DEF Start, Stop, St, LiveNames
    <2> HIDE DEF next
    <2>4. OnlyLive'
        BY <1>inv, <2>1, <2>2, <2>3 DEF OnlyLive, TypeOK
    <2>5. NoHistoryGap' /\ InsertsFollow'
        BY Zenon, <1>inv, <2>1, <2>2, FinishFollows
    <2> QED BY <2>4, <2>5
<1>9. ASSUME NEW n \in Node, StartCommand(n) PROVE FALSE
    BY <1>inv, <1>9 DEF StartCommand, TypeOK
<1> QED BY <1>1, <1>2, <1>3, <1>4, <1>5, <1>6, <1>7, <1>8, <1>9 DEF Next

\* As long as only live processes run, the history tables have no hole and no
\* process ever runs into their unique index, whatever its checks raced with.
THEOREM HistoryKept == Spec => []HistoryIntact
<1>1. HistoryInv => HistoryIntact
    BY NothingTwice DEF HistoryInv, HistoryIntact
<1> QED BY <1>1, InitHistoryInv, NextHistoryInv, PTL DEF Spec
=============================================================================
