---------------------------- MODULE TxSubProofs ----------------------------
(***************************************************************************)
(* Transaction submission, for any requests, hashes and bounds.            *)
(*                                                                         *)
(* That nobody gets two results rests on what Submit and the ticks know of *)
(* each other only through the list: who waits in it has been sent nothing *)
(* (CallInv).  That results are true rests on the database only growing,   *)
(* with one transaction for each sequence number (OrderInv, ToldTrue).     *)
(* That nothing is timed out unseen rests on what was in the list when the *)
(* tick began: everything else is younger than the tick (TickInv).         *)
(***************************************************************************)
EXTENDS TxSub, TLAPS

\* A request that waits in the list has been sent nothing, and neither has one
\* that has not come so far.
WaitersUnsent ==
    \A h \in Hash : \A r \in listeners[h] :
        HashOf[r] = h /\ channel[r] = <<>> /\ pc[r] \in {"select", "done"}
CallersUnsent == \A r \in Request : pc[r] \notin {"select", "done"} => channel[r] = <<>>
RefusedFirst == \A r \in Request : pc[r] \in {"wait", "recheck"} => submitErr[r] = "badSeq"
CallInv == OneResult /\ WaitersUnsent /\ CallersUnsent /\ RefusedFirst

\* The ledgers apply the transactions of the account in the order of their
\* sequence numbers, one for each.
SeqsAt(ledger) == {0} \cup {SeqOf[h] : h \in {g \in Hash : applied[g] \in 1..ledger}}
HasLast == \A l \in 0..MaxClosed : \E m \in SeqsAt(l) : \A s \in SeqsAt(l) : s <= m
InOrder ==
    \A g, h \in Hash : applied[g] > 0 /\ applied[h] > 0 =>
        (SeqOf[g] = SeqOf[h] => g = h) /\ (SeqOf[g] <= SeqOf[h] => applied[g] <= applied[h])
OrderInv == HasLast /\ InOrder /\ \A h \in Hash : applied[h] <= closed

\* What was told, or is about to be, is what the database holds.
TrueOf(stored, succ, res) ==
    /\ res = "success" => stored \cap succ # {}
    /\ res = "failed" => stored # {} /\ stored \cap succ = {}
IsTrue(r, res) == TrueOf(StoredUnder(HashOf[r], 1, ingested), succeeded, res)
ToldTrue ==
    \A r \in Request : IsTrue(r, response[r]) /\ (channel[r] # <<>> => IsTrue(r, channel[r][1]))

\* A tick has found what it is going to finish.  What it is not is not there,
\* or has come to the list since the tick began.
FoundStored == txTick = "finish" => \A h \in found : StoredUnder(h, 1, latest) # {}
Since(ledger) == Max({0, ledger - SinceWindow})
LookedFor ==
    /\ txTick = "query" => \A h \in Open : h \in found \/ age[h] <= tickAge
    /\ txTick = "finish" =>
        \A h \in Open : h \in found \/ age[h] <= tickAge \/ StoredUnder(h, Since(latest), latest) = {}
TickInv == FoundStored /\ LookedFor

SubmissionInv == TxTypeOK /\ CallInv /\ OrderInv /\ ToldTrue /\ TickInv

-----------------------------------------------------------------------------
LEMMA TxConstants ==
    /\ \A r \in Request : HashOf[r] \in Hash
    /\ \A h \in Hash : SeqOf[h] \in Nat /\ SeqOf[h] > 0
    /\ \A h \in Hash : InnerOf[h] \in Hash => SeqOf[InnerOf[h]] = SeqOf[h]
    /\ SinceWindow \in Nat /\ SubmissionTimeout \in Nat /\ TickMax \in Nat /\ MaxClosed \in Nat
    /\ MaxClosed > 0 /\ TickMax < SubmissionTimeout
BY SubmissionsConfig DEF TxSubAssumption

LEMMA TxNumbers ==
    ASSUME TxTypeOK
    PROVE  /\ ingested \in Nat /\ tickAge \in Nat
           /\ \A h \in Hash : applied[h] \in Nat
<1>1. closed \in 1..MaxClosed /\ ingested \in 1..closed /\ tickAge \in 0..TickMax
    BY Zenon DEF TxTypeOK
<1>2. applied \in [Hash -> 0..MaxClosed]
    BY Zenon DEF TxTypeOK
<1>3. ingested \in Nat /\ tickAge \in Nat
    BY <1>1, TxConstants
<1>4. \A n \in 0..MaxClosed : n \in Nat
    BY TxConstants
<1> QED
    BY Zenon, <1>2, <1>3, <1>4

LEMMA GreatestOf ==
    ASSUME NEW S \in SUBSET Int, NEW m \in S, \A s \in S : s <= m
    PROVE  Max(S) \in S /\ \A s \in S : s <= Max(S)
<1>1. \E x \in S : \A y \in S : x >= y
    BY SMT
<1>2. Max(S) \in S /\ \A y \in S : Max(S) >= y
    BY <1>1, Zenon DEF Max
<1> QED
    BY <1>2, SMT

LEMMA MinOfTwo ==
    ASSUME NEW a \in Int, NEW b \in Int
    PROVE  Min({a, b}) \in {a, b} /\ Min({a, b}) <= a /\ Min({a, b}) <= b
<1>1. \E x \in {a, b} : \A y \in {a, b} : x <= y
    BY SMT
<1>2. Min({a, b}) \in {a, b} /\ \A y \in {a, b} : Min({a, b}) <= y
    BY <1>1, Zenon DEF Min
<1> QED
    BY <1>2

LEMMA SinceType == \A l \in Nat : Since(l) \in Int
<1> TAKE l \in Nat
<1>1. SinceWindow \in Nat
    BY TxConstants
<1>2. l - SinceWindow \in Int
    BY <1>1
<1>3. \E m \in {0, l - SinceWindow} : \A x \in {0, l - SinceWindow} : x <= m
    BY <1>2
<1>4. Max({0, l - SinceWindow}) \in {0, l - SinceWindow}
    BY SMTT(60), <1>2, <1>3, GreatestOf
<1> QED
    BY <1>2, <1>4 DEF Since

LEMMA SeqsAtType ==
    ASSUME NEW l PROVE SeqsAt(l) \in SUBSET Int
BY TxConstants DEF SeqsAt

\* The last sequence number of the account that the ledgers up to l have used.
LEMMA LastSeq ==
    ASSUME HasLast, NEW l \in 0..MaxClosed
    PROVE  SeqAt(l) \in SeqsAt(l) /\ \A s \in SeqsAt(l) : s <= SeqAt(l)
<1>1. PICK m \in SeqsAt(l) : \A s \in SeqsAt(l) : s <= m
    BY DEF HasLast
<1>2. SeqAt(l) = Max(SeqsAt(l))
    BY DEF SeqAt, SeqsAt
<1> QED
    BY <1>1, <1>2, SeqsAtType, GreatestOf, Zenon

LEMMA LastSeqNat ==
    ASSUME HasLast, NEW l \in 0..MaxClosed PROVE SeqAt(l) \in Nat
BY LastSeq, TxConstants DEF SeqsAt

\* A transaction that a ledger may apply next is newer than all before it.
LEMMA NextIsNewer ==
    ASSUME TxTypeOK, OrderInv, NEW h \in Hash, SeqOf[h] = SeqAt(closed) + 1
    PROVE  applied[h] = 0 /\ \A g \in Hash : applied[g] > 0 => SeqOf[g] < SeqOf[h]
<1>1. closed \in 0..MaxClosed /\ \A g \in Hash : applied[g] \in Nat /\ applied[g] <= closed
    BY DEF TxTypeOK, OrderInv
<1>2. \A g \in Hash : applied[g] > 0 => SeqOf[g] \in SeqsAt(closed)
    BY <1>1, TxConstants DEF SeqsAt
<1>3. SeqAt(closed) \in Nat /\ \A s \in SeqsAt(closed) : s <= SeqAt(closed)
    BY <1>1, LastSeq, LastSeqNat DEF OrderInv
<1>4. \A g \in Hash : applied[g] > 0 => SeqOf[g] < SeqOf[h]
    BY <1>2, <1>3, TxConstants
<1> QED
    BY <1>1, <1>4, TxConstants

\* At most one transaction is stored under a hash.
LEMMA StoredAlone ==
    ASSUME TxTypeOK, InOrder, NEW h \in Hash, NEW l \in Int, NEW k \in Int,
           NEW a \in StoredUnder(h, 1, l), NEW b \in StoredUnder(h, 1, k)
    PROVE  a = b
<1>1. a \in Hash /\ b \in Hash /\ applied[a] > 0 /\ applied[b] > 0 /\ h \in {a, InnerOf[a]} /\ h \in {b, InnerOf[b]}
    BY DEF StoredUnder
<1>2. SeqOf[a] = SeqOf[h] /\ SeqOf[b] = SeqOf[h]
    BY <1>1, TxConstants
<1> QED
    BY <1>1, <1>2 DEF InOrder

-----------------------------------------------------------------------------
\* Types.
LEMMA TxTypeInit == TxInit => TxTypeOK
BY TxConstants DEF TxInit, TxTypeOK, Results

LEMMA CoreKeepsType ==
    ASSUME TxTypeOK,
           CloseTxLedger \/ (\E h \in Hash : DropTransaction(h)) \/ IngestTxLedger
             \/ UpdateCoreLedgerState \/ UpdateHorizonLedgerState
    PROVE  TxTypeOK'
<1>1. UNCHANGED <<callVars, openList, tickVars>>
    BY DEF CloseTxLedger, DropTransaction, IngestTxLedger, UpdateCoreLedgerState, UpdateHorizonLedgerState
<1>2. /\ pc' \in [Request -> {"start", "lookup", "submit", "wait", "recheck", "add", "select", "done"}]
      /\ submitErr' \in [Request -> {"none", "badSeq"}] /\ channel' \in [Request -> Seq(Results)]
      /\ response' \in [Request -> Results \cup {"none"}]
      /\ listeners' \in [Hash -> SUBSET Request] /\ age' \in [Hash -> 0..SubmissionTimeout + 1]
      /\ txTick' \in {"idle", "query", "finish"} /\ found' \subseteq Hash /\ tickAge' \in 0..TickMax
    BY <1>1 DEF TxTypeOK, callVars, openList, tickVars
<1>3. MaxClosed \in Nat /\ closed \in 1..MaxClosed /\ ingested \in 1..closed /\ latest \in 0..ingested
      /\ coreSeen \in 0..MaxClosed /\ histSeen \in 0..ingested /\ latest' = latest
    BY <1>1, TxConstants DEF TxTypeOK, tickVars
<1>4. /\ closed' \in 1..MaxClosed /\ ingested' \in 1..closed'
      /\ coreSeen' \in 0..MaxClosed /\ histSeen' \in 0..ingested' /\ latest' \in 0..ingested'
    BY <1>3 DEF CloseTxLedger, DropTransaction, IngestTxLedger, UpdateCoreLedgerState, UpdateHorizonLedgerState,
                coreVars, ledgerState
<1>5. queue' \subseteq Hash /\ succeeded' \subseteq Hash /\ applied' \in [Hash -> 0..MaxClosed]
  <2>1. queue \subseteq Hash /\ succeeded \subseteq Hash /\ applied \in [Hash -> 0..MaxClosed]
    BY DEF TxTypeOK
  <2>2. CASE CloseTxLedger
    BY <1>3, <2>1, <2>2 DEF CloseTxLedger
  <2>3. CASE ~CloseTxLedger
    BY <2>1, <2>3 DEF DropTransaction, IngestTxLedger, UpdateCoreLedgerState, UpdateHorizonLedgerState, coreVars
  <2> QED
    BY <2>2, <2>3
<1> QED
    BY SMTT(60), <1>2, <1>4, <1>5 DEF TxTypeOK

\* What the other steps leave alone.
LEMMA OutsideCore ==
    ASSUME TxTypeOK, UNCHANGED <<closed, applied, succeeded, ingested, ledgerState>>
    PROVE  /\ closed' \in 1..MaxClosed /\ ingested' \in 1..closed' /\ succeeded' \subseteq Hash
           /\ applied' \in [Hash -> 0..MaxClosed] /\ coreSeen' \in 0..MaxClosed /\ histSeen' \in 0..ingested'
BY DEF TxTypeOK, ledgerState

LEMMA AdvanceKeepsType ==
    ASSUME TxTypeOK, Advance PROVE TxTypeOK'
<1>1. /\ UNCHANGED <<closed, applied, succeeded, ingested, ledgerState>> /\ UNCHANGED <<queue, callVars>>
      /\ UNCHANGED <<listeners, txTick, found, latest>>
    BY DEF Advance, coreVars
<1>2. TickMax \in Nat /\ SubmissionTimeout \in Nat /\ tickAge \in 0..TickMax /\ age \in [Hash -> 0..SubmissionTimeout + 1]
    BY TxConstants DEF TxTypeOK
<1>3. tickAge' \in 0..TickMax
    BY <1>2 DEF Advance
<1>4. \A h \in Hash : Min({age[h] + 1, SubmissionTimeout + 1}) \in 0..SubmissionTimeout + 1
  <2> TAKE h \in Hash
  <2>1. age[h] + 1 \in Nat /\ SubmissionTimeout + 1 \in Nat /\ age[h] + 1 \in Int /\ SubmissionTimeout + 1 \in Int
    BY <1>2
  <2>2. /\ Min({age[h] + 1, SubmissionTimeout + 1}) \in {age[h] + 1, SubmissionTimeout + 1}
        /\ Min({age[h] + 1, SubmissionTimeout + 1}) <= SubmissionTimeout + 1
    BY <2>1, MinOfTwo, Zenon
  <2> QED
    BY <2>1, <2>2
<1>5. age' \in [Hash -> 0..SubmissionTimeout + 1]
  <2>1. 0 \in 0..SubmissionTimeout + 1
    BY <1>2
  <2> QED
    BY <1>4, <2>1, Zenon DEF Advance
<1> QED
    BY SMTT(60), <1>1, <1>3, <1>5, OutsideCore DEF TxTypeOK, callVars

LEMMA ResultType ==
    ASSUME NEW h, NEW l, NEW k PROVE ResultOf(h, l, k) \in Results
BY DEF ResultOf, Results

LEMMA FinishKeepsType ==
    ASSUME TxTypeOK, NEW r \in Request, NEW res \in Results, Finish(r, res)
    PROVE  /\ pc' \in [Request -> {"start", "lookup", "submit", "wait", "recheck", "add", "select", "done"}]
           /\ channel' \in [Request -> Seq(Results)]
<1>1. channel[r] \in Seq(Results)
    BY DEF TxTypeOK
<1>2. Append(channel[r], res) \in Seq(Results)
    BY <1>1
<1> QED
    BY <1>2 DEF Finish, TxTypeOK

LEMMA SubmitKeepsType ==
    ASSUME TxTypeOK, CallInv, NEW r \in Request, Submit(r) \/ ContextDone(r) PROVE TxTypeOK'
<1> DEFINE h == HashOf[r]
           Places == {"start", "lookup", "submit", "wait", "recheck", "add", "select", "done"}
<1>1. /\ UNCHANGED <<closed, applied, succeeded, ingested, ledgerState>> /\ UNCHANGED tickVars
    BY DEF Submit, ContextDone, CheckSequence, LookUp, SubmitFails, SubmitOnce, WaitUntilAccountSequence,
           WaitEnds, Recheck, PendingAdd, Respond, coreVars, tickVars
<1>2. h \in Hash
    BY TxConstants
<1>3. queue' \subseteq Hash /\ submitErr' \in [Request -> {"none", "badSeq"}]
  <2>1. queue \subseteq Hash /\ submitErr \in [Request -> {"none", "badSeq"}]
    BY DEF TxTypeOK
  <2>2. CASE SubmitOnce(r)
    BY <1>2, <2>1, <2>2 DEF SubmitOnce
  <2>3. CASE ~SubmitOnce(r)
    BY <2>1, <2>3 DEF Submit, ContextDone, CheckSequence, LookUp, SubmitFails, WaitUntilAccountSequence,
           WaitEnds, Recheck, PendingAdd, Respond, coreVars
  <2> QED
    BY <2>2, <2>3
<1>4. listeners' \in [Hash -> SUBSET Request] /\ age' \in [Hash -> 0..SubmissionTimeout + 1]
  <2>1. listeners \in [Hash -> SUBSET Request] /\ age \in [Hash -> 0..SubmissionTimeout + 1] /\ SubmissionTimeout \in Nat
    BY TxConstants DEF TxTypeOK
  <2>2. CASE PendingAdd(r)
    BY <1>2, <2>1, <2>2 DEF PendingAdd
  <2>3. CASE ~PendingAdd(r)
    BY <2>1, <2>3 DEF Submit, ContextDone, CheckSequence, LookUp, SubmitFails, SubmitOnce, WaitUntilAccountSequence,
           WaitEnds, Recheck, Respond, openList
  <2> QED
    BY <2>2, <2>3
<1>5. pc' \in [Request -> Places] /\ channel' \in [Request -> Seq(Results)]
  <2>1. pc \in [Request -> Places] /\ channel \in [Request -> Seq(Results)]
    BY DEF TxTypeOK
  <2>2. CASE \E res \in Results : Finish(r, res)
    BY <2>2, FinishKeepsType
  <2>3. CASE UNCHANGED channel
    BY Zenon, <2>1, <2>3 DEF Submit, ContextDone, CheckSequence, LookUp, SubmitFails, SubmitOnce, WaitUntilAccountSequence,
           WaitEnds, Recheck, PendingAdd, Respond, Finish
  <2>4. \/ \E res \in Results : Finish(r, res)
        \/ UNCHANGED channel
    <3>1. {"badSeq", "error", "timeout", "success"} \subseteq Results
        BY DEF Results
    <3>2. pc[r] = "recheck" => submitErr[r] = "badSeq"
        BY DEF CallInv, RefusedFirst
    <3>3. CASE Recheck(r)
        BY <3>1, <3>2, <3>3 DEF Recheck
    <3>4. CASE LookUp(r)
        BY <3>4, ResultType DEF LookUp
    <3>5. CASE CheckSequence(r) \/ SubmitFails(r) \/ WaitEnds(r)
        BY <3>1, <3>5 DEF CheckSequence, SubmitFails, WaitEnds
    <3> QED
        BY <3>3, <3>4, <3>5
           DEF Submit, ContextDone, SubmitOnce, WaitUntilAccountSequence, PendingAdd, Respond
  <2> QED
    BY <2>2, <2>3, <2>4
<1>6. response' \in [Request -> Results \cup {"none"}]
  <2>1. response \in [Request -> Results \cup {"none"}] /\ "timeout" \in Results
    BY DEF TxTypeOK, Results
  <2>2. CASE Respond(r)
    <3>1. channel[r] \in Seq(Results) /\ channel[r] # <<>>
        BY <2>2 DEF Respond, TxTypeOK
    <3>2. Head(channel[r]) \in Results
        BY <3>1
    <3> QED
        BY <2>1, <2>2, <3>2 DEF Respond
  <2>3. CASE ~Respond(r)
    BY <2>1, <2>3 DEF Submit, ContextDone, CheckSequence, LookUp, SubmitFails, SubmitOnce, WaitUntilAccountSequence,
           WaitEnds, Recheck, PendingAdd
  <2> QED
    BY <2>2, <2>3
<1>7. txTick' \in {"idle", "query", "finish"} /\ found' \subseteq Hash /\ latest' \in 0..ingested' /\ tickAge' \in 0..TickMax
    BY <1>1 DEF TxTypeOK, tickVars
<1> QED
    BY SMTT(60), <1>1, <1>3, <1>4, <1>5, <1>6, <1>7, OutsideCore DEF TxTypeOK

LEMMA SendKeepsType ==
    ASSUME TxTypeOK, NEW hs, NEW res \in Results, SendTo(hs, res)
    PROVE  channel' \in [Request -> Seq(Results)]
<1>1. \A r \in Request : channel[r] \in Seq(Results) /\ Append(channel[r], res) \in Seq(Results)
    BY DEF TxTypeOK
<1> QED
    BY <1>1, Zenon DEF SendTo

LEMMA TickKeepsType ==
    ASSUME TxTypeOK, Tick \/ TickFails PROVE TxTypeOK'
<1>1. /\ UNCHANGED <<closed, applied, succeeded, ingested, ledgerState>> /\ UNCHANGED <<queue, pc, submitErr, response, age>>
    BY Zenon DEF Tick, TickStarts, TickQueries, TickFinishes, TickCleans, TickFails, coreVars, callVars, openList
<1>2. /\ txTick' \in {"idle", "query", "finish"} /\ found' \subseteq Hash /\ latest' \in 0..ingested' /\ tickAge' \in 0..TickMax
  <2>1. /\ TickMax \in Nat /\ ingested \in Nat /\ found \subseteq Hash /\ latest \in 0..ingested /\ tickAge \in 0..TickMax
        /\ ingested' = ingested
    BY <1>1, TxConstants DEF TxTypeOK
  <2>2. txTick' \in {"idle", "query", "finish"}
    BY Zenon DEF Tick, TickStarts, TickQueries, TickFinishes, TickCleans, TickFails
  <2>3. found' \subseteq Hash
    BY Zenon, <2>1 DEF Tick, TickStarts, TickQueries, TickFinishes, TickCleans, TickFails, Open
  <2>4. latest' \in 0..ingested' /\ tickAge' \in 0..TickMax
    <3>1. latest' \in {latest, ingested, 0} /\ tickAge' \in {tickAge, 0}
        BY Zenon DEF Tick, TickStarts, TickQueries, TickFinishes, TickCleans, TickFails
    <3> QED
        BY <2>1, <3>1
  <2> QED
    BY <2>2, <2>3, <2>4
<1>3. channel' \in [Request -> Seq(Results)] /\ listeners' \in [Hash -> SUBSET Request]
  <2>1. channel \in [Request -> Seq(Results)] /\ listeners \in [Hash -> SUBSET Request]
    BY DEF TxTypeOK
  <2>2. CASE TickCleans
    <3>1. channel' \in [Request -> Seq(Results)]
        BY <2>2, SendKeepsType DEF TickCleans, Results
    <3>2. listeners' \in [Hash -> SUBSET Request]
        BY <2>1, <2>2 DEF TickCleans
    <3> QED
        BY <3>1, <3>2
  <2>3. CASE \E h \in Hash : TickFinishes(h)
    <3> PICK h \in Hash : TickFinishes(h)
        BY <2>3
    <3>1. channel' \in [Request -> Seq(Results)]
        BY SendKeepsType, ResultType DEF TickFinishes
    <3>2. listeners' \in [Hash -> SUBSET Request]
        BY <2>1 DEF TickFinishes
    <3> QED
        BY <3>1, <3>2
  <2>4. CASE TickStarts \/ TickQueries \/ TickFails
    BY <2>1, <2>4 DEF TickStarts, TickQueries, TickFails, callVars, openList
  <2> QED
    BY <2>2, <2>3, <2>4 DEF Tick
<1> QED
    BY SMTT(60), <1>1, <1>2, <1>3, OutsideCore DEF TxTypeOK

-----------------------------------------------------------------------------
\* The order of the ledgers.
LEMMA OrderInit == TxInit => OrderInv
<1> SUFFICES ASSUME TxInit PROVE OrderInv
    OBVIOUS
<1>1. closed = 1 /\ \A h \in Hash : applied[h] = 0
    BY DEF TxInit
<1>2. \A l \in 0..MaxClosed : SeqsAt(l) = {0}
    BY <1>1 DEF SeqsAt
<1> QED
    BY <1>1, <1>2 DEF OrderInv, HasLast, InOrder

LEMMA OrderKept ==
    ASSUME OrderInv, UNCHANGED <<closed, applied>> PROVE OrderInv'
BY DEF OrderInv, HasLast, InOrder, SeqsAt

\* What CloseTxLedger does to the applied transactions.
Applies(h) ==
    /\ h \in Hash /\ applied[h] = 0 /\ applied' = [applied EXCEPT ![h] = closed + 1]
    /\ SeqOf[h] = SeqAt(closed) + 1 /\ succeeded' \in {succeeded, succeeded \cup {h}}
    /\ \A g \in Hash : applied[g] > 0 => SeqOf[g] < SeqOf[h]

LEMMA CloseApplies ==
    ASSUME TxTypeOK, OrderInv, CloseTxLedger
    PROVE  UNCHANGED <<applied, succeeded>> \/ \E h \in Hash : Applies(h)
<1>1. CASE UNCHANGED <<queue, applied, succeeded>>
    BY <1>1
<1>2. CASE ~UNCHANGED <<queue, applied, succeeded>>
  <2>1. PICK h \in queue, ok \in BOOLEAN :
            /\ SeqOf[h] = SeqAt(closed) + 1
            /\ applied' = [applied EXCEPT ![h] = closed + 1]
            /\ succeeded' = IF ok THEN succeeded \cup {h} ELSE succeeded
    BY <1>2 DEF CloseTxLedger
  <2>2. h \in Hash
    BY DEF TxTypeOK
  <2>3. applied[h] = 0 /\ \A g \in Hash : applied[g] > 0 => SeqOf[g] < SeqOf[h]
    BY <2>1, <2>2, NextIsNewer
  <2> QED
    BY Zenon, <2>1, <2>2, <2>3 DEF Applies
<1> QED
    BY <1>1, <1>2

LEMMA OrderClose ==
    ASSUME TxTypeOK, OrderInv, CloseTxLedger PROVE OrderInv'
<1>1. closed' = closed + 1 /\ closed \in Nat /\ closed < MaxClosed /\ MaxClosed \in Nat
    BY TxConstants DEF CloseTxLedger, TxTypeOK
<1>2. applied \in [Hash -> Nat] /\ \A g \in Hash : applied[g] <= closed
    BY TxConstants DEF TxTypeOK, OrderInv
<1>3. CASE UNCHANGED applied
    BY <1>1, <1>2, <1>3 DEF OrderInv, HasLast, InOrder, SeqsAt
<1>4. ASSUME NEW h \in Hash, Applies(h) PROVE OrderInv'
  <2>1. \A g \in Hash : applied'[g] = IF g = h THEN closed + 1 ELSE applied[g]
    BY <1>2, <1>4 DEF Applies
  <2>2. \A g \in Hash : applied'[g] <= closed'
    BY <1>1, <1>2, <2>1
  <2>3. InOrder'
    <3> SUFFICES ASSUME NEW f \in Hash, NEW g \in Hash, applied'[f] > 0, applied'[g] > 0
                 PROVE  (SeqOf[f] = SeqOf[g] => f = g) /\ (SeqOf[f] <= SeqOf[g] => applied'[f] <= applied'[g])
        BY DEF InOrder
    <3>1. SeqOf[f] \in Nat /\ SeqOf[g] \in Nat /\ SeqOf[h] \in Nat /\ applied[f] \in Nat /\ applied[g] \in Nat
        BY <1>2, TxConstants
    <3>2. CASE f = h \/ g = h
        BY <1>1, <1>2, <1>4, <2>1, <3>1, <3>2 DEF Applies
    <3>3. CASE f # h /\ g # h
        BY <2>1, <3>3 DEF OrderInv, InOrder
    <3> QED
        BY <3>2, <3>3
  <2>4. HasLast'
    <3> SUFFICES ASSUME NEW l \in 0..MaxClosed PROVE \E m \in SeqsAt(l)' : \A s \in SeqsAt(l)' : s <= m
        BY DEF HasLast
    <3>1. CASE l <= closed
        <4>1. SeqsAt(l)' = SeqsAt(l)
            BY <1>1, <1>4, <2>1, <3>1 DEF SeqsAt, Applies
        <4> QED
            BY <4>1 DEF OrderInv, HasLast
    <3>2. CASE l > closed
        <4>1. SeqOf[h] \in SeqsAt(l)'
            BY <1>1, <2>1, <3>2 DEF SeqsAt
        <4>2. \A s \in SeqsAt(l)' : s <= SeqOf[h]
            <5>1. \A g \in Hash : SeqOf[g] \in Nat
                BY TxConstants
            <5>2. \A g \in Hash : applied'[g] \in 1..l => SeqOf[g] <= SeqOf[h]
                BY <1>2, <1>4, <2>1, <5>1 DEF Applies
            <5> QED
                BY <5>1, <5>2 DEF SeqsAt
        <4> QED
            BY <4>1, <4>2
    <3> QED
        BY <1>1, <3>1, <3>2
  <2> QED
    BY <2>2, <2>3, <2>4 DEF OrderInv
<1> QED
    BY <1>3, <1>4, CloseApplies

-----------------------------------------------------------------------------
\* Who has been sent what.
LEMMA CallInit == TxInit => CallInv
BY DEF TxInit, CallInv, OneResult, WaitersUnsent, CallersUnsent, RefusedFirst

LEMMA CallKept ==
    ASSUME CallInv, UNCHANGED <<callVars, listeners>> PROVE CallInv'
BY DEF CallInv, OneResult, WaitersUnsent, CallersUnsent, RefusedFirst, callVars

\* The waiters are requests, and a request that does not wait is in no list.
LEMMA NotListed ==
    ASSUME TxTypeOK, CallInv, NEW r \in Request, pc[r] \notin {"select", "done"}
    PROVE  channel[r] = <<>> /\ \A h \in Hash : r \notin listeners[h]
BY DEF CallInv, CallersUnsent, WaitersUnsent

LEMMA CallFinish ==
    ASSUME TxTypeOK, CallInv, NEW r \in Request, NEW res \in Results, pc[r] \notin {"select", "done"},
           Finish(r, res), UNCHANGED <<submitErr, listeners>>
    PROVE  CallInv' /\ channel'[r] = <<res>> /\ \A q \in Request : q # r => channel'[q] = channel[q]
<1>1. channel[r] = <<>> /\ \A h \in Hash : r \notin listeners[h]
    BY NotListed
<1>2. /\ channel \in [Request -> Seq(Results)]
      /\ pc \in [Request -> {"start", "lookup", "submit", "wait", "recheck", "add", "select", "done"}]
    BY DEF TxTypeOK
<1>3. channel'[r] = <<res>> /\ pc'[r] = "select"
    BY <1>1, <1>2 DEF Finish
<1>4. \A q \in Request : q # r => channel'[q] = channel[q] /\ pc'[q] = pc[q]
    BY <1>2 DEF Finish
<1>5. OneResult'
  <2>1. Len(<<res>>) <= 1
    OBVIOUS
  <2>2. \A q \in Request : Len(channel[q]) <= 1
    BY DEF OneResult, CallInv
  <2>3. \A q \in Request : Len(channel'[q]) <= 1
    BY <1>3, <1>4, <2>1, <2>2, Zenon
  <2> QED
    BY <2>3 DEF OneResult
<1>6. WaitersUnsent'
  <2> SUFFICES ASSUME NEW h \in Hash, NEW q \in listeners[h]
               PROVE  HashOf[q] = h /\ channel'[q] = <<>> /\ pc'[q] \in {"select", "done"}
    BY DEF WaitersUnsent
  <2>1. q \in Request /\ q # r
    BY <1>1 DEF TxTypeOK
  <2>2. HashOf[q] = h /\ channel[q] = <<>> /\ pc[q] \in {"select", "done"}
    BY DEF WaitersUnsent, CallInv
  <2> QED
    BY <1>4, <2>1, <2>2
<1>7. CallersUnsent'
    BY <1>3, <1>4 DEF CallersUnsent, CallInv
<1>8. RefusedFirst'
    BY <1>3, <1>4 DEF RefusedFirst, CallInv
<1> QED
    BY <1>3, <1>4, <1>5, <1>6, <1>7, <1>8 DEF CallInv

\* What SendTo does when it empties the list of the hashes.
LEMMA CallSend ==
    ASSUME TxTypeOK, CallInv, NEW hs \in SUBSET Hash, NEW res \in Results, SendTo(hs, res),
           listeners' \in [Hash -> SUBSET Request], \A h \in Hash : listeners'[h] = IF h \in hs THEN {} ELSE listeners[h],
           UNCHANGED <<pc, submitErr>>
    PROVE  /\ CallInv'
           /\ \A r \in Request : \/ channel'[r] = channel[r]
                                 \/ channel'[r] = <<res>> /\ \E h \in hs : HashOf[r] = h
<1>1. \A r \in Request : channel'[r] = IF \E h \in hs : r \in listeners[h] THEN Append(channel[r], res) ELSE channel[r]
    BY DEF SendTo
<1>2. \A r \in Request : \A h \in hs : r \in listeners[h] => HashOf[r] = h /\ channel[r] = <<>> /\ pc[r] \in {"select", "done"}
    BY DEF CallInv, WaitersUnsent
<1>3. Append(<<>>, res) = <<res>> /\ Len(<<res>>) = 1
    OBVIOUS
<1>4. \A r \in Request : \/ channel'[r] = channel[r]
                         \/ channel'[r] = <<res>> /\ (\E h \in hs : HashOf[r] = h) /\ pc[r] \in {"select", "done"}
    BY <1>1, <1>2, <1>3, Zenon
<1>5. OneResult'
  <2>1. Len(<<res>>) <= 1
    OBVIOUS
  <2>2. \A r \in Request : Len(channel[r]) <= 1
    BY DEF OneResult, CallInv
  <2>3. \A r \in Request : Len(channel'[r]) <= 1
    BY <1>4, <2>1, <2>2, Zenon
  <2> QED
    BY <2>3 DEF OneResult
<1>6. WaitersUnsent'
  <2> SUFFICES ASSUME NEW h \in Hash, NEW r \in listeners'[h]
               PROVE  HashOf[r] = h /\ channel'[r] = <<>> /\ pc'[r] \in {"select", "done"}
    BY DEF WaitersUnsent
  <2>1. h \notin hs /\ r \in listeners[h] /\ r \in Request
    BY DEF TxTypeOK
  <2>2. HashOf[r] = h /\ channel[r] = <<>> /\ pc[r] \in {"select", "done"}
    BY <2>1 DEF CallInv, WaitersUnsent
  <2>3. ~\E g \in hs : r \in listeners[g]
    BY <1>2, <2>1, <2>2
  <2> QED
    BY <1>1, <2>1, <2>2, <2>3
<1>7. CallersUnsent' /\ RefusedFirst'
    BY <1>4 DEF CallInv, CallersUnsent, RefusedFirst
<1> QED
    BY <1>4, <1>5, <1>6, <1>7 DEF CallInv

\* A handler returns from Submit with a true result, or sends nothing.
Returns(r) ==
    /\ pc[r] \notin {"select", "done"} /\ UNCHANGED <<submitErr, listeners, response>>
    /\ \E res \in Results : Finish(r, res) /\ IsTrue(r, res)

LEMMA ResultIsTrue ==
    ASSUME TxTypeOK, InOrder, NEW r \in Request, NEW l \in Nat, l <= ingested,
           StoredUnder(HashOf[r], 1, l) # {}
    PROVE  IsTrue(r, ResultOf(HashOf[r], 1, l))
<1> DEFINE h == HashOf[r]
<1>1. h \in Hash /\ ingested \in Nat /\ \A g \in Hash : applied[g] \in Nat
    BY TxConstants DEF TxTypeOK
<1>2. StoredUnder(h, 1, l) \subseteq StoredUnder(h, 1, ingested)
    BY <1>1 DEF StoredUnder
<1>3. \A a \in StoredUnder(h, 1, l), b \in StoredUnder(h, 1, ingested) : a = b
    BY <1>1, StoredAlone
<1>4. CASE StoredUnder(h, 1, l) \cap succeeded # {}
    BY <1>2, <1>4 DEF ResultOf, IsTrue, TrueOf
<1>5. CASE StoredUnder(h, 1, l) \cap succeeded = {}
  <2>1. StoredUnder(h, 1, ingested) # {} /\ StoredUnder(h, 1, ingested) \cap succeeded = {}
    BY <1>2, <1>3, <1>5
  <2> QED
    BY <1>5, <2>1 DEF ResultOf, IsTrue, TrueOf
<1> QED
    BY <1>4, <1>5

LEMMA SubmitReturns ==
    ASSUME TxTypeOK, CallInv, OrderInv, NEW r \in Request, Submit(r) \/ ContextDone(r)
    PROVE  Returns(r) \/ UNCHANGED channel
<1>1. {"badSeq", "error", "timeout", "success"} \subseteq Results /\ ingested \in Nat /\ ingested <= ingested
    BY DEF Results, TxTypeOK
<1>2. IsTrue(r, "badSeq") /\ IsTrue(r, "error") /\ IsTrue(r, "timeout")
    BY DEF IsTrue, TrueOf
<1>3. ASSUME pc[r] \in {"start", "lookup", "submit", "wait", "recheck"}, UNCHANGED <<submitErr, listeners, response>>,
             NEW res \in Results, Finish(r, res), IsTrue(r, res)
      PROVE  Returns(r)
    BY <1>3 DEF Returns
<1>4. CASE CheckSequence(r)
    BY <1>1, <1>2, <1>3, <1>4 DEF CheckSequence, openList
<1>5. CASE LookUp(r)
    BY <1>1, <1>3, <1>5, ResultIsTrue, ResultType DEF LookUp, openList, OrderInv
<1>6. CASE SubmitFails(r)
    BY <1>1, <1>2, <1>3, <1>6 DEF SubmitFails, openList
<1>7. CASE WaitEnds(r)
    BY <1>1, <1>2, <1>3, <1>7 DEF WaitEnds, openList
<1>8. CASE Recheck(r)
  <2>1. submitErr[r] = "badSeq" /\ pc[r] = "recheck" /\ UNCHANGED <<submitErr, listeners, response>>
    BY <1>8 DEF Recheck, CallInv, RefusedFirst, openList
  <2>2. CASE StoredUnder(HashOf[r], 1, ingested) # {} /\ ResultOf(HashOf[r], 1, ingested) = "success"
    <3>1. Finish(r, "success") /\ IsTrue(r, "success")
        BY <1>1, <1>8, <2>2, ResultIsTrue DEF Recheck, OrderInv
    <3> QED
        BY <1>1, <1>3, <2>1, <3>1
  <2>3. CASE ~(StoredUnder(HashOf[r], 1, ingested) # {} /\ ResultOf(HashOf[r], 1, ingested) = "success")
    <3>1. Finish(r, "badSeq")
        BY <1>8, <2>1, <2>3 DEF Recheck
    <3> QED
        BY <1>1, <1>2, <1>3, <2>1, <3>1
  <2> QED
    BY <2>2, <2>3
<1> QED
    BY Zenon, <1>4, <1>5, <1>6, <1>7, <1>8
       DEF Submit, ContextDone, SubmitOnce, WaitUntilAccountSequence, PendingAdd, Respond

LEMMA CallSubmit ==
    ASSUME TxTypeOK, CallInv, NEW r \in Request, Submit(r) \/ ContextDone(r), UNCHANGED channel
    PROVE  CallInv'
<1>1. OneResult'
    BY DEF CallInv, OneResult
<1>2. /\ pc \in [Request -> {"start", "lookup", "submit", "wait", "recheck", "add", "select", "done"}]
      /\ submitErr \in [Request -> {"none", "badSeq"}]
    BY DEF TxTypeOK
<1>3. \A q \in Request : q # r => pc'[q] = pc[q] /\ submitErr'[q] = submitErr[q]
    BY <1>2 DEF Submit, ContextDone, CheckSequence, LookUp, SubmitFails, SubmitOnce, WaitUntilAccountSequence,
           WaitEnds, Recheck, PendingAdd, Respond, Finish
<1>4. pc[r] \in {"select", "done"} => pc'[r] \in {"select", "done"} /\ UNCHANGED listeners
    BY <1>2 DEF Submit, ContextDone, CheckSequence, LookUp, SubmitFails, SubmitOnce, WaitUntilAccountSequence,
           WaitEnds, Recheck, PendingAdd, Respond, Finish, openList
<1>5. CallersUnsent'
    BY <1>3, <1>4 DEF CallInv, CallersUnsent
<1>6. pc'[r] \in {"wait", "recheck"} => submitErr'[r] = "badSeq"
  <2>1. pc[r] \in {"wait", "recheck"} => submitErr[r] = "badSeq"
    BY DEF CallInv, RefusedFirst
  <2> QED
    BY <1>2, <2>1 DEF Submit, ContextDone, CheckSequence, LookUp, SubmitFails, SubmitOnce, WaitUntilAccountSequence,
           WaitEnds, Recheck, PendingAdd, Respond, Finish
<1>7. RefusedFirst'
    BY <1>3, <1>6 DEF CallInv, RefusedFirst
<1>8. WaitersUnsent'
  <2> SUFFICES ASSUME NEW h \in Hash, NEW q \in listeners'[h]
               PROVE  HashOf[q] = h /\ channel'[q] = <<>> /\ pc'[q] \in {"select", "done"}
    BY DEF WaitersUnsent
  <2>1. listeners \in [Hash -> SUBSET Request] /\ HashOf[r] \in Hash
    BY TxConstants DEF TxTypeOK
  <2>2. CASE q \in listeners[h]
    <3>1. HashOf[q] = h /\ channel[q] = <<>> /\ pc[q] \in {"select", "done"} /\ q \in Request
        BY <2>1, <2>2 DEF CallInv, WaitersUnsent
    <3> QED
        BY <1>3, <1>4, <3>1
  <2>3. CASE q \notin listeners[h]
    <3>1. PendingAdd(r)
        BY <2>3 DEF Submit, ContextDone, CheckSequence, LookUp, SubmitFails, SubmitOnce, WaitUntilAccountSequence,
               WaitEnds, Recheck, Respond, openList
    <3>2. q = r /\ h = HashOf[r] /\ pc[r] = "add" /\ pc'[r] = "select"
        BY <1>2, <2>1, <2>3, <3>1 DEF PendingAdd
    <3>3. channel[r] = <<>>
        BY <3>2 DEF CallInv, CallersUnsent
    <3> QED
        BY <3>2, <3>3
  <2> QED
    BY <2>2, <2>3
<1> QED
    BY <1>1, <1>5, <1>7, <1>8 DEF CallInv

-----------------------------------------------------------------------------
\* What was told stays true.
LEMMA StoredFixed ==
    ASSUME TxTypeOK, OrderInv, CloseTxLedger \/ UNCHANGED applied,
           NEW h, NEW lo \in Int, NEW l \in Nat, l <= closed
    PROVE  {g \in Hash : applied'[g] \in lo..l /\ applied'[g] > 0 /\ h \in {g, InnerOf[g]}} = StoredUnder(h, lo, l)
<1>1. CASE UNCHANGED applied
    BY <1>1 DEF StoredUnder
<1>2. ASSUME NEW f \in Hash, Applies(f)
      PROVE  {g \in Hash : applied'[g] \in lo..l /\ applied'[g] > 0 /\ h \in {g, InnerOf[g]}} = StoredUnder(h, lo, l)
  <2>1. closed \in Nat /\ applied \in [Hash -> Nat] /\ applied[f] = 0
    BY <1>2, TxConstants DEF TxTypeOK, Applies
  <2>2. \A g \in Hash : applied'[g] = IF g = f THEN closed + 1 ELSE applied[g]
    BY <1>2, <2>1 DEF Applies
  <2> QED
    BY <2>1, <2>2 DEF StoredUnder
<1> QED
    BY <1>1, <1>2, CloseApplies

LEMMA TruthStays ==
    ASSUME TxTypeOK, OrderInv, CloseTxLedger \/ IngestTxLedger \/ UNCHANGED <<applied, succeeded, ingested>>,
           NEW r \in Request, NEW res, IsTrue(r, res)
    PROVE  TrueOf(StoredUnder(HashOf[r], 1, ingested)', succeeded', res)
<1> DEFINE h == HashOf[r]
           Was == StoredUnder(h, 1, ingested)
           Is == {g \in Hash : applied'[g] \in 1..ingested' /\ applied'[g] > 0 /\ h \in {g, InnerOf[g]}}
<1>1. h \in Hash /\ ingested \in Nat /\ closed \in Nat /\ ingested <= closed /\ \A g \in Hash : applied[g] \in Nat
    BY SMTT(60), TxConstants DEF TxTypeOK
<1>2. StoredUnder(HashOf[r], 1, ingested)' = Is
    BY Zenon DEF StoredUnder
<1>3. CASE UNCHANGED <<applied, succeeded, ingested>>
    BY <1>3 DEF IsTrue, TrueOf, StoredUnder
<1>4. CASE IngestTxLedger
  <2>1. ingested' = ingested + 1 /\ applied' = applied /\ succeeded' = succeeded
    BY <1>4 DEF IngestTxLedger, coreVars
  <2>2. Is = StoredUnder(h, 1, ingested + 1)
    BY <2>1 DEF StoredUnder
  <2>3. Was \subseteq Is
    BY <1>1, <2>2 DEF StoredUnder
  <2>4. \A a \in Was, b \in Is : a = b
    BY <1>1, <2>2, StoredAlone DEF OrderInv
  <2>5. TrueOf(Was, succeeded, res)
    BY DEF IsTrue
  <2> HIDE DEF Was, Is
  <2> QED
    BY <1>2, <2>1, <2>3, <2>4, <2>5 DEF TrueOf
<1>5. CASE CloseTxLedger
  <2>1. ingested' = ingested
    BY <1>5 DEF CloseTxLedger
  <2>2. Is = Was
    BY <1>1, <1>5, <2>1, StoredFixed
  <2>3. Was \cap succeeded' = Was \cap succeeded
    <3>1. CASE UNCHANGED succeeded
        BY <3>1
    <3>2. ASSUME NEW f \in Hash, Applies(f) PROVE Was \cap succeeded' = Was \cap succeeded
        <4>1. f \notin Was
            BY <3>2 DEF Applies, StoredUnder
        <4> HIDE DEF Was
        <4> QED
            BY <3>2, <4>1 DEF Applies
    <3> QED
        BY <1>5, <3>1, <3>2, CloseApplies
  <2>4. TrueOf(Was, succeeded, res)
    BY DEF IsTrue
  <2> HIDE DEF Was, Is
  <2> QED
    BY <1>2, <2>2, <2>3, <2>4 DEF TrueOf
<1> QED
    BY <1>3, <1>4, <1>5

LEMMA ToldInit == TxInit => ToldTrue
BY DEF TxInit, ToldTrue, IsTrue, TrueOf

LEMMA ToldStays ==
    ASSUME TxTypeOK, OrderInv, ToldTrue, CloseTxLedger \/ IngestTxLedger \/ UNCHANGED <<applied, succeeded, ingested>>,
           \A r \in Request : response'[r] = response[r] \/ IsTrue(r, response'[r]),
           \A r \in Request : channel'[r] = channel[r] \/ \E res \in Results : channel'[r] = <<res>> /\ IsTrue(r, res)
    PROVE  ToldTrue'
<1> SUFFICES ASSUME NEW r \in Request
             PROVE  /\ TrueOf(StoredUnder(HashOf[r], 1, ingested)', succeeded', response'[r])
                    /\ channel'[r] # <<>> => TrueOf(StoredUnder(HashOf[r], 1, ingested)', succeeded', channel'[r][1])
    BY DEF ToldTrue, IsTrue
<1>1. IsTrue(r, response'[r])
    BY DEF ToldTrue
<1>2. channel'[r] # <<>> => IsTrue(r, channel'[r][1])
    BY DEF ToldTrue
<1> QED
    BY <1>1, <1>2, TruthStays

-----------------------------------------------------------------------------
\* What the tick knows.
LEMMA TickInit == TxInit => TickInv
BY DEF TxInit, TickInv, FoundStored, LookedFor

\* A ledger that closes holds nothing the tick could have found.
LEMMA TickCore ==
    ASSUME TxTypeOK, OrderInv, TickInv, CloseTxLedger \/ UNCHANGED applied, UNCHANGED <<openList, tickVars>>
    PROVE  TickInv'
<1>1. latest \in Nat /\ latest <= closed /\ Since(latest) \in Int
    BY SinceType DEF TxTypeOK
<1>2. UNCHANGED <<listeners, age, txTick, found, latest, tickAge>> /\ Open' = Open /\ Since(latest)' = Since(latest)
    BY DEF openList, tickVars, Open, Since
<1>3. \A h \in Hash : /\ StoredUnder(h, 1, latest)' = StoredUnder(h, 1, latest)
                      /\ StoredUnder(h, Since(latest), latest)' = StoredUnder(h, Since(latest), latest)
  <2> TAKE h \in Hash
  <2>1. /\ {g \in Hash : applied'[g] \in 1..latest /\ applied'[g] > 0 /\ h \in {g, InnerOf[g]}} = StoredUnder(h, 1, latest)
        /\ {g \in Hash : applied'[g] \in Since(latest)..latest /\ applied'[g] > 0 /\ h \in {g, InnerOf[g]}}
             = StoredUnder(h, Since(latest), latest)
    BY <1>1, StoredFixed
  <2> QED
    BY <1>2, <2>1 DEF StoredUnder
<1>4. found \subseteq Hash /\ Open \subseteq Hash
    BY DEF TxTypeOK, Open
<1> QED
    BY <1>2, <1>3, <1>4 DEF TickInv, FoundStored, LookedFor

LEMMA TickAdvance ==
    ASSUME TxTypeOK, TickInv, Advance PROVE TickInv'
<1>1. /\ UNCHANGED <<applied, listeners, txTick, found, latest>> /\ Open' = Open /\ Open \subseteq Hash
    BY DEF Advance, coreVars, Open
<1>2. \A h \in Hash : /\ StoredUnder(h, 1, latest)' = StoredUnder(h, 1, latest)
                      /\ StoredUnder(h, Since(latest), latest)' = StoredUnder(h, Since(latest), latest)
    BY <1>1 DEF StoredUnder, Since
<1>3. txTick # "idle" => \A h \in Open : age[h] <= tickAge => age'[h] <= tickAge'
  <2> SUFFICES ASSUME txTick # "idle", NEW h \in Open, age[h] <= tickAge PROVE age'[h] <= tickAge'
    OBVIOUS
  <2>1. /\ age[h] \in Nat /\ tickAge \in Nat /\ tickAge' = tickAge + 1
        /\ age[h] + 1 \in Int /\ SubmissionTimeout + 1 \in Int
    BY <1>1, TxConstants DEF Advance, TxTypeOK
  <2>2. age'[h] = Min({age[h] + 1, SubmissionTimeout + 1})
    BY <1>1 DEF Advance
  <2>3. age'[h] <= age[h] + 1 /\ age'[h] \in {age[h] + 1, SubmissionTimeout + 1}
    BY <2>1, <2>2, MinOfTwo, Zenon
  <2> QED
    BY <2>1, <2>3
<1>4. found \subseteq Hash
    BY DEF TxTypeOK
<1> QED
    BY <1>1, <1>2, <1>3, <1>4 DEF TickInv, FoundStored, LookedFor

\* A submission that comes to the list while a tick is under way is new.
LEMMA TickSubmit ==
    ASSUME TxTypeOK, TickInv, NEW r \in Request, Submit(r) \/ ContextDone(r) PROVE TickInv'
<1>1. UNCHANGED <<applied, txTick, found, latest, tickAge>>
    BY Zenon DEF Submit, ContextDone, CheckSequence, LookUp, SubmitFails, SubmitOnce, WaitUntilAccountSequence,
           WaitEnds, Recheck, PendingAdd, Respond, coreVars, tickVars
<1>2. \A h \in Hash : /\ StoredUnder(h, 1, latest)' = StoredUnder(h, 1, latest)
                      /\ StoredUnder(h, Since(latest), latest)' = StoredUnder(h, Since(latest), latest)
    BY <1>1 DEF StoredUnder, Since
<1>3. \A h \in Open' : (h \in Open /\ age'[h] = age[h]) \/ age'[h] <= tickAge
  <2>1. listeners \in [Hash -> SUBSET Request] /\ age \in [Hash -> 0..SubmissionTimeout + 1] /\ tickAge \in Nat
        /\ HashOf[r] \in Hash
    BY Zenon, TxConstants, TxNumbers DEF TxTypeOK
  <2>2. CASE PendingAdd(r)
    <3>1. \A h \in Hash : h # HashOf[r] => listeners'[h] = listeners[h] /\ age'[h] = age[h]
        <4>1. \A h \in Hash : h # HashOf[r] => listeners'[h] = listeners[h]
            BY <2>1, <2>2 DEF PendingAdd
        <4>2. \A h \in Hash : h # HashOf[r] => age'[h] = age[h]
            BY <2>1, <2>2 DEF PendingAdd
        <4> QED
            BY Zenon, <4>1, <4>2
    <3>2. CASE listeners[HashOf[r]] = {}
        <4>1. age'[HashOf[r]] = 0
            BY <2>1, <2>2, <3>2 DEF PendingAdd
        <4> QED
            BY <2>1, <3>1, <4>1 DEF Open
    <3>3. CASE listeners[HashOf[r]] # {}
        BY <2>1, <2>2, <3>1, <3>3 DEF PendingAdd, Open
    <3> QED
        BY <3>2, <3>3
  <2>3. CASE ~PendingAdd(r)
    <3>1. UNCHANGED <<listeners, age>>
        BY Zenon, <2>3 DEF Submit, ContextDone, CheckSequence, LookUp, SubmitFails, SubmitOnce, WaitUntilAccountSequence,
               WaitEnds, Recheck, Respond, openList
    <3> QED
        BY <3>1 DEF Open
  <2> QED
    BY <2>2, <2>3
<1>4. found \subseteq Hash /\ Open' \subseteq Hash
    BY DEF TxTypeOK, Open
<1> QED
    BY <1>1, <1>2, <1>3, <1>4 DEF TickInv, FoundStored, LookedFor

LEMMA TickTick ==
    ASSUME TxTypeOK, TickInv, Tick \/ TickFails PROVE TickInv'
<1>1. UNCHANGED <<applied, ingested, age>>
    BY Zenon DEF Tick, TickStarts, TickQueries, TickFinishes, TickCleans, TickFails, coreVars, openList
<1>2. \A h \in Hash : StoredUnder(h, 1, ingested)' = StoredUnder(h, 1, ingested)
    BY <1>1 DEF StoredUnder
<1>3. CASE TickStarts
    BY <1>3 DEF TickStarts, TickInv, FoundStored, LookedFor, openList, Open
<1>4. CASE TickQueries
  <2>1. txTick = "query" /\ txTick' = "finish" /\ latest' = ingested /\ UNCHANGED <<listeners, tickAge>>
        /\ found' = {h \in found : StoredUnder(h, SinceLedger, ingested) # {}}
    BY <1>4 DEF TickQueries, openList
  <2>2. ingested \in Nat /\ SinceLedger = Since(ingested) /\ SinceLedger \in Int /\ (\A g \in Hash : applied[g] \in Nat)
        /\ found \subseteq Hash /\ Open' = Open /\ Open \subseteq Hash
    <3>1. ingested \in Nat /\ found \subseteq Hash /\ \A g \in Hash : applied[g] \in Nat
        BY Zenon, TxNumbers DEF TxTypeOK
    <3>2. SinceLedger = Since(ingested)
        BY DEF SinceLedger, Since
    <3>3. SinceLedger \in Int
        BY <3>1, <3>2, SinceType
    <3>4. Open' = Open /\ Open \subseteq Hash
        BY <2>1 DEF Open
    <3> QED
        BY <3>1, <3>2, <3>3, <3>4
  <2>3. \A h \in Hash : /\ StoredUnder(h, 1, latest)' = StoredUnder(h, 1, ingested)
                        /\ StoredUnder(h, Since(latest), latest)' = StoredUnder(h, SinceLedger, ingested)
    BY <1>1, <2>1 DEF StoredUnder, Since, SinceLedger
  <2>4. \A h \in Hash : StoredUnder(h, SinceLedger, ingested) \subseteq StoredUnder(h, 1, ingested)
    BY <2>2 DEF StoredUnder
  <2>5. FoundStored'
    BY <2>1, <2>2, <2>3, <2>4 DEF FoundStored
  <2>6. LookedFor'
    BY <1>1, <2>1, <2>2, <2>3 DEF TickInv, LookedFor
  <2> QED
    BY <2>5, <2>6 DEF TickInv
<1>5. ASSUME NEW h \in Hash, TickFinishes(h) PROVE TickInv'
  <2>1. UNCHANGED <<txTick, latest, tickAge>> /\ txTick = "finish" /\ found' = found \ {h}
        /\ listeners' = [listeners EXCEPT ![h] = {}]
    BY <1>5 DEF TickFinishes
  <2>2. Open' \subseteq Open \ {h} /\ Open \subseteq Hash /\ found \subseteq Hash
    BY <2>1 DEF Open, TxTypeOK
  <2>3. \A g \in Hash : /\ StoredUnder(g, 1, latest)' = StoredUnder(g, 1, latest)
                        /\ StoredUnder(g, Since(latest), latest)' = StoredUnder(g, Since(latest), latest)
    BY <1>1, <2>1 DEF StoredUnder, Since
  <2> QED
    BY <1>1, <2>1, <2>2, <2>3 DEF TickInv, FoundStored, LookedFor
<1>6. CASE TickCleans \/ TickFails
  <2>1. txTick' = "idle"
    BY <1>6 DEF TickCleans, TickFails
  <2> QED
    BY <2>1 DEF TickInv, FoundStored, LookedFor
<1> QED
    BY <1>3, <1>4, <1>5, <1>6 DEF Tick

-----------------------------------------------------------------------------
LEMMA SubmissionStart == TxInit => SubmissionInv
BY TxTypeInit, CallInit, OrderInit, ToldInit, TickInit DEF SubmissionInv

LEMMA SubmissionStep == SubmissionInv /\ [TxNext]_txVars => SubmissionInv'
<1> SUFFICES ASSUME SubmissionInv, [TxNext]_txVars PROVE SubmissionInv'
    OBVIOUS
<1> USE DEF SubmissionInv
<1>1. CASE UNCHANGED txVars
  <2>1. UNCHANGED <<coreVars, ingested, ledgerState, callVars, openList, tickVars>>
    BY <1>1 DEF txVars
  <2>2. UNCHANGED <<applied, succeeded, ingested>> /\ UNCHANGED <<closed, applied>> /\ UNCHANGED <<callVars, listeners>>
        /\ UNCHANGED <<openList, tickVars>>
    BY <2>1 DEF coreVars, openList
  <2>3. TxTypeOK'
    BY <2>1 DEF TxTypeOK, coreVars, ledgerState, callVars, openList, tickVars
  <2>4. ToldTrue'
    BY <2>2, ToldStays DEF callVars
  <2> QED
    BY <2>2, <2>3, <2>4, CallKept, OrderKept, TickCore
<1>2. CASE \/ CloseTxLedger \/ (\E h \in Hash : DropTransaction(h)) \/ IngestTxLedger
           \/ UpdateCoreLedgerState \/ UpdateHorizonLedgerState
  <2>1. UNCHANGED <<callVars, openList, tickVars>>
    BY <1>2 DEF CloseTxLedger, DropTransaction, IngestTxLedger, UpdateCoreLedgerState, UpdateHorizonLedgerState
  <2>2. CloseTxLedger \/ UNCHANGED <<closed, applied>>
    BY <1>2 DEF DropTransaction, IngestTxLedger, UpdateCoreLedgerState, UpdateHorizonLedgerState, coreVars
  <2>3. CloseTxLedger \/ IngestTxLedger \/ UNCHANGED <<applied, succeeded, ingested>>
    BY <1>2 DEF DropTransaction, UpdateCoreLedgerState, UpdateHorizonLedgerState, coreVars
  <2>4. CallInv' /\ TickInv'
    BY <2>1, <2>2, CallKept, TickCore DEF openList
  <2>5. OrderInv'
    BY <2>2, OrderClose, OrderKept
  <2>6. ToldTrue'
    BY <2>1, <2>3, ToldStays DEF callVars
  <2> QED
    BY <1>2, <2>4, <2>5, <2>6, CoreKeepsType
<1>3. CASE Advance
  <2>1. UNCHANGED <<applied, succeeded, ingested>> /\ UNCHANGED <<closed, applied>> /\ UNCHANGED <<callVars, listeners>>
    BY <1>3 DEF Advance, coreVars
  <2>2. ToldTrue'
    BY <2>1, ToldStays DEF callVars
  <2> QED
    BY <1>3, <2>1, <2>2, AdvanceKeepsType, CallKept, OrderKept, TickAdvance
<1>4. ASSUME NEW r \in Request, Submit(r) \/ ContextDone(r) PROVE SubmissionInv'
  <2>1. UNCHANGED <<applied, succeeded, ingested>> /\ UNCHANGED <<closed, applied>>
    BY Zenon, <1>4 DEF Submit, ContextDone, CheckSequence, LookUp, SubmitFails, SubmitOnce, WaitUntilAccountSequence,
           WaitEnds, Recheck, PendingAdd, Respond, coreVars
  <2>2. TxTypeOK' /\ TickInv' /\ OrderInv'
    BY <1>4, <2>1, SubmitKeepsType, TickSubmit, OrderKept
  <2>3. CallInv' /\ \A q \in Request :
            channel'[q] = channel[q] \/ \E res \in Results : channel'[q] = <<res>> /\ IsTrue(q, res)
    <3>1. CASE Returns(r)
        <4> PICK res \in Results : Finish(r, res) /\ IsTrue(r, res)
            BY <3>1 DEF Returns
        <4>1. CallInv' /\ channel'[r] = <<res>> /\ \A q \in Request : q # r => channel'[q] = channel[q]
            BY <3>1, CallFinish DEF Returns
        <4> QED
            BY <4>1
    <3>2. CASE UNCHANGED channel
        BY <1>4, <3>2, CallSubmit
    <3> QED
        BY <1>4, <3>1, <3>2, SubmitReturns
  <2>4. \A q \in Request : response'[q] = response[q] \/ IsTrue(q, response'[q])
    <3>1. response \in [Request -> Results \cup {"none"}] /\ channel[r] \in Seq(Results)
        BY DEF TxTypeOK
    <3>2. CASE Respond(r)
        <4>1. channel[r] # <<>> /\ Head(channel[r]) = channel[r][1]
            BY <3>1, <3>2 DEF Respond
        <4>2. IsTrue(r, channel[r][1])
            BY <4>1 DEF ToldTrue
        <4>3. response' = [response EXCEPT ![r] = channel[r][1]]
            BY <3>2, <4>1 DEF Respond
        <4> QED
            BY <3>1, <4>2, <4>3
    <3>3. CASE ContextDone(r)
        <4>1. response' = [response EXCEPT ![r] = "timeout"] /\ IsTrue(r, "timeout")
            BY <3>3 DEF ContextDone, IsTrue, TrueOf
        <4> QED
            BY <3>1, <4>1
    <3>4. CASE ~Respond(r) /\ ~ContextDone(r)
        BY Zenon, <1>4, <3>4 DEF Submit, CheckSequence, LookUp, SubmitFails, SubmitOnce, WaitUntilAccountSequence,
               WaitEnds, Recheck, PendingAdd
    <3> QED
        BY <3>2, <3>3, <3>4
  <2>5. ToldTrue'
    BY <2>1, <2>3, <2>4, ToldStays
  <2> QED
    BY <2>2, <2>3, <2>5
<1>5. CASE Tick \/ TickFails
  <2>1. UNCHANGED <<applied, succeeded, ingested>> /\ UNCHANGED <<closed, applied>> /\ UNCHANGED <<pc, submitErr, response>>
    BY Zenon, <1>5 DEF Tick, TickStarts, TickQueries, TickFinishes, TickCleans, TickFails, coreVars, callVars
  <2>2. TxTypeOK' /\ TickInv' /\ OrderInv'
    BY <1>5, <2>1, TickKeepsType, TickTick, OrderKept
  <2>3. listeners' \in [Hash -> SUBSET Request]
    BY SMTT(60), <2>2 DEF TxTypeOK
  <2>4. CallInv' /\ \A q \in Request :
            channel'[q] = channel[q] \/ \E res \in Results : channel'[q] = <<res>> /\ IsTrue(q, res)
    <3>1. ASSUME NEW h \in Hash, TickFinishes(h)
          PROVE  CallInv' /\ \A q \in Request :
                    channel'[q] = channel[q] \/ \E res \in Results : channel'[q] = <<res>> /\ IsTrue(q, res)
        <4> DEFINE res == ResultOf(h, 1, latest)
        <4>1. SendTo({h}, res) /\ res \in Results /\ {h} \in SUBSET Hash
            BY <3>1, ResultType DEF TickFinishes
        <4>2. \A g \in Hash : listeners'[g] = IF g \in {h} THEN {} ELSE listeners[g]
            BY <3>1 DEF TickFinishes, TxTypeOK
        <4>3. StoredUnder(h, 1, latest) # {} /\ latest \in Nat /\ latest <= ingested
            BY <3>1 DEF TickFinishes, TickInv, FoundStored, TxTypeOK
        <4>4. \A q \in Request : HashOf[q] = h => IsTrue(q, res)
            BY <4>3, ResultIsTrue DEF OrderInv
        <4> HIDE DEF res
        <4>5. CallInv' /\ \A q \in Request : channel'[q] = channel[q] \/ (channel'[q] = <<res>> /\ \E g \in {h} : HashOf[q] = g)
            BY Zenon, <2>1, <2>3, <4>1, <4>2, CallSend
        <4> QED
            BY <4>1, <4>4, <4>5
    <3>2. CASE TickCleans
        <4> DEFINE old == {h \in Open : TooOld(h)}
        <4>1. SendTo(old, "timeout") /\ "timeout" \in Results /\ old \in SUBSET Hash
            BY <3>2 DEF TickCleans, Results, Open
        <4>2. \A g \in Hash : listeners'[g] = IF g \in old THEN {} ELSE listeners[g]
            BY <3>2 DEF TickCleans
        <4>3. \A q \in Request : IsTrue(q, "timeout")
            BY DEF IsTrue, TrueOf
        <4> HIDE DEF old
        <4>4. CallInv' /\ \A q \in Request : channel'[q] = channel[q] \/ channel'[q] = <<"timeout">>
            BY Zenon, <2>1, <2>3, <4>1, <4>2, CallSend
        <4> QED
            BY <4>1, <4>3, <4>4
    <3>3. CASE TickStarts \/ TickQueries \/ TickFails
        <4>1. UNCHANGED <<callVars, listeners>> /\ UNCHANGED channel
            BY <3>3 DEF TickStarts, TickQueries, TickFails, openList, callVars
        <4> QED
            BY <4>1, CallKept
    <3> QED
        BY <1>5, <3>1, <3>2, <3>3 DEF Tick
  <2>5. ToldTrue'
    BY <2>1, <2>4, ToldStays
  <2> QED
    BY <2>2, <2>4, <2>5
<1> QED
    BY <1>1, <1>2, <1>3, <1>4, <1>5 DEF TxNext

LEMMA SubmissionSafe == SubmissionInv => OneTruthfulResult
BY DEF SubmissionInv, OneTruthfulResult, CallInv, ToldTrue, IsTrue, TrueOf, Truthful

\* For any requests, hashes and bounds: nobody is sent two results, so that neither
\* Submit nor a tick blocks on a channel, and a client that is told that its
\* transaction succeeded or failed finds it so in the database.
THEOREM ResultsTruthful == TxSpec => []OneTruthfulResult
<1>1. TxInit => SubmissionInv
    BY SubmissionStart
<1>2. SubmissionInv /\ [TxNext]_txVars => SubmissionInv'
    BY SubmissionStep
<1> QED
    BY <1>1, <1>2, SubmissionSafe, PTL DEF TxSpec

LEMMA CleansWhatItSought ==
    ASSUME SubmissionInv, TxNext, txTick = "finish", txTick' = "idle", NEW h \in Open, listeners'[h] = {}
    PROVE  StoredUnder(h, Max({0, latest - SinceWindow}), latest) = {}
<1>1. TickCleans
    BY Zenon DEF TxNext, CloseTxLedger, DropTransaction, IngestTxLedger, UpdateCoreLedgerState, UpdateHorizonLedgerState,
           Advance, Submit, ContextDone, CheckSequence, LookUp, SubmitFails, SubmitOnce, WaitUntilAccountSequence,
           WaitEnds, Recheck, PendingAdd, Respond, Tick, TickStarts, TickQueries, TickFinishes, TickFails, tickVars
<1>2. h \in Hash /\ listeners[h] # {} /\ TooOld(h) /\ h \notin found
    BY Zenon, <1>1 DEF TickCleans, Open
<1>3. age[h] \in Nat /\ tickAge \in Nat /\ tickAge <= TickMax /\ TickMax \in Nat /\ SubmissionTimeout \in Nat
      /\ TickMax < SubmissionTimeout
  <2>1. age \in [Hash -> 0..SubmissionTimeout + 1] /\ tickAge \in 0..TickMax
    BY Zenon DEF SubmissionInv, TxTypeOK
  <2>2. TickMax \in Nat /\ SubmissionTimeout \in Nat /\ TickMax < SubmissionTimeout
    BY TxConstants, Zenon
  <2>3. age[h] \in 0..SubmissionTimeout + 1
    BY <1>2, <2>1, Zenon
  <2> QED
    BY <2>1, <2>2, <2>3, SMT
<1>4. ~(age[h] <= tickAge)
  <2>1. age[h] > SubmissionTimeout
    BY <1>2, Zenon DEF TooOld
  <2> QED
    BY <1>3, <2>1, SMT
<1> QED
    BY SMTT(60), <1>2, <1>4 DEF SubmissionInv, TickInv, LookedFor, Since

LEMMA WaitsForIngestion ==
    ASSUME SubmissionInv, TxNext, NEW r \in Request, pc[r] = "wait", pc'[r] = "recheck", coreSeen = closed
    PROVE  applied[HashOf[r]] = 0 \/ StoredUnder(HashOf[r], 1, ingested) # {}
<1> DEFINE h == HashOf[r]
<1>1. pc \in [Request -> {"start", "lookup", "submit", "wait", "recheck", "add", "select", "done"}]
    BY DEF SubmissionInv, TxTypeOK
<1>2. CaughtUpFor(r)
  <2>1. \E q \in Request : Submit(q) \/ ContextDone(q)
    BY Zenon DEF TxNext, CloseTxLedger, DropTransaction, IngestTxLedger, UpdateCoreLedgerState, UpdateHorizonLedgerState,
           Advance, Tick, TickStarts, TickQueries, TickFinishes, TickCleans, TickFails, callVars
  <2>2. PICK q \in Request : Submit(q) \/ ContextDone(q)
    BY <2>1
  <2>3. q = r
    BY Zenon, <1>1, <2>2 DEF Submit, ContextDone, CheckSequence, LookUp, SubmitFails, SubmitOnce, WaitUntilAccountSequence,
           WaitEnds, Recheck, PendingAdd, Respond, Finish
  <2> QED
    BY Zenon, <1>1, <2>2, <2>3 DEF Submit, ContextDone, CheckSequence, LookUp, SubmitFails, SubmitOnce, WaitUntilAccountSequence,
           WaitEnds, Recheck, PendingAdd, Respond, Finish
<1>3. h \in Hash /\ SeqOf[h] \in Nat /\ SeqOf[h] > 0 /\ \A g \in Hash : applied[g] \in Nat
  <2>1. h \in Hash /\ SeqOf[h] \in Nat /\ SeqOf[h] > 0 /\ MaxClosed \in Nat
    BY TxConstants, Zenon
  <2>2. applied \in [Hash -> 0..MaxClosed]
    BY Zenon DEF SubmissionInv, TxTypeOK
  <2> QED
    BY <2>1, <2>2, SMT
<1>4. ingested \in Nat /\ ingested <= closed /\ closed \in Nat /\ histSeen \in Nat /\ histSeen <= ingested
      /\ ingested \in 0..MaxClosed /\ applied[h] <= closed
  <2>1. closed \in 1..MaxClosed /\ ingested \in 1..closed /\ histSeen \in 0..ingested
    BY Zenon DEF SubmissionInv, TxTypeOK
  <2>2. MaxClosed \in Nat
    BY TxConstants, Zenon
  <2>3. applied[h] <= closed
    BY <1>3, Zenon DEF SubmissionInv, OrderInv
  <2> QED
    BY <2>1, <2>2, <2>3, SMT
<1> SUFFICES ASSUME applied[h] > 0 PROVE applied[h] <= ingested
  <2>1. applied[h] > 0 /\ applied[h] <= ingested => applied[h] \in 1..ingested
    <3>1. \A m, n \in Nat : m > 0 /\ m <= n => m \in 1..n
        OBVIOUS
    <3> QED
        BY Zenon, <1>3, <1>4, <3>1
  <2>2. applied[h] > 0 /\ applied[h] <= ingested => h \in StoredUnder(h, 1, ingested)
    BY <1>3, <2>1, Zenon DEF StoredUnder
  <2>3. applied[h] = 0 \/ applied[h] > 0
    BY <1>3, SMT
  <2> QED
    BY <2>2, <2>3, Zenon
<1> HIDE DEF h
<1>5. CASE IsSyncedUp
    BY <1>3, <1>4, <1>5 DEF IsSyncedUp
<1>6. CASE SeqAt(ingested) >= SeqOf[h]
  <2>1. SeqAt(ingested) \in SeqsAt(ingested) /\ SeqAt(ingested) \in Nat
    BY <1>4, LastSeq, LastSeqNat DEF SubmissionInv, OrderInv
  <2>2. SeqAt(ingested) # 0
    BY <1>3, <1>6, <2>1
  <2>3. PICK g \in Hash : applied[g] \in 1..ingested /\ SeqOf[g] = SeqAt(ingested)
    BY <2>1, <2>2 DEF SeqsAt
  <2>4. SeqOf[h] <= SeqOf[g] /\ applied[g] > 0 /\ applied[g] <= ingested
    BY <1>3, <1>6, <2>1, <2>3
  <2>5. applied[h] <= applied[g]
    BY <1>3, <2>4 DEF SubmissionInv, OrderInv, InOrder
  <2> QED
    BY <1>3, <1>4, <2>4, <2>5
<1> QED
    BY <1>2, <1>5, <1>6 DEF CaughtUpFor, h

\* For any requests, hashes and bounds: Clean times out only what the tick has
\* looked for in vain, and with an up-to-date view of stellar-core a request waits
\* until its second look-up would find what was applied.
THEOREM WaitsAreLongEnough == TxSpec => WaitsLongEnough
<1>1. TxInit => SubmissionInv
    BY SubmissionStart
<1>2. SubmissionInv /\ [TxNext]_txVars => SubmissionInv'
    BY SubmissionStep
<1>3. SubmissionInv /\ [TxNext]_txVars => [CleansUnseen /\ StopsWaitingInTime]_txVars
  <2> SUFFICES ASSUME SubmissionInv, TxNext PROVE CleansUnseen /\ StopsWaitingInTime
    OBVIOUS
  <2>1. CleansUnseen
    BY SMTT(60), CleansWhatItSought DEF CleansUnseen
  <2>2. StopsWaitingInTime
    BY WaitsForIngestion DEF StopsWaitingInTime
  <2> QED
    BY <2>1, <2>2
<1> QED
    BY <1>1, <1>2, <1>3, PTL DEF TxSpec, WaitsLongEnough
=============================================================================
