------------------------------- MODULE TxSub -------------------------------
(***************************************************************************)
(* Transaction submission (internal/txsub, the handler of POST             *)
(* /transactions).  A request looks the transaction up in the database,    *)
(* gives it to stellar-core and then waits on a channel of its own; a      *)
(* periodic tick looks for the open transactions among the ingested ones,  *)
(* answers everyone who waits for them and times out the rest.             *)
(***************************************************************************)
EXTENDS Integers, Sequences, FiniteSets, FiniteSetsExt

CONSTANTS
    Request,      \* HTTP requests
    Hash,         \* transaction hashes
    HashOf,       \* HashOf[r]: the hash of the transaction request r submits
    SeqOf,        \* SeqOf[h]: its sequence number, all of one source account
    Malformed,    \* hashes whose sequence numbers make no sense
    InnerOf,      \* InnerOf[h]: the inner hash of a fee bump, NoHash otherwise
    NoHash,
    SinceWindow,  \* ledgers that a tick looks back (60)
    SubmissionTimeout,
    TickMax,      \* tickerMaxDuration
    MaxClosed,    \* bound on the ledgers that are closed
    MaxCalls      \* bound on the requests that arrive

TxSubAssumption ==
    /\ \A r \in Request : HashOf[r] \in Hash
    /\ NoHash \notin Hash
    /\ \A h \in Hash : SeqOf[h] \in Nat \ {0} /\ InnerOf[h] \in Hash \cup {NoHash}
    /\ \A h \in Hash : InnerOf[h] # NoHash => SeqOf[InnerOf[h]] = SeqOf[h]
    /\ {SinceWindow, SubmissionTimeout, TickMax, MaxClosed, MaxCalls} \subseteq Nat /\ MaxClosed > 0
    /\ TickMax < SubmissionTimeout
ASSUME SubmissionsConfig == TxSubAssumption

VARIABLES
    closed,     \* stellar-core: the last closed ledger,
    queue,      \*   the transactions it is considering,
    applied,    \*   applied[h]: the ledger of h, 0 when in none,
    succeeded,  \*   the transactions that were applied with success
    ingested,   \* the last ledger in the history database
    coreSeen,   \* ledger.State: CoreLatest and
    histSeen,   \*   HistoryLatest
    pc,         \* where each request is
    submitErr,  \* sr.Err of the request
    channel,    \* the results sent to the request's channel, a sequence
    response,   \* what the client was told
    listeners,  \* the open submission list: who waits for each hash
    age,        \*   time since SubmittedAt, up to SubmissionTimeout + 1
    txTick,     \* where the tick is
    found,      \* tick: the hashes of `pending` it has still to finish
    latest,     \* tick: latestLedger
    tickAge     \* tick: time since it began

coreVars == <<closed, queue, applied, succeeded>>
ledgerState == <<coreSeen, histSeen>>
callVars == <<pc, submitErr, channel, response>>
openList == <<listeners, age>>
tickVars == <<txTick, found, latest, tickAge>>
txVars == <<coreVars, ingested, ledgerState, callVars, openList, tickVars>>

Open == {h \in Hash : listeners[h] # {}}

TxInit ==
    /\ closed = 1 /\ ingested = 1
    /\ queue = {}
    /\ applied = [h \in Hash |-> 0]
    /\ succeeded = {}
    /\ coreSeen = 0 /\ histSeen = 0
    /\ pc = [r \in Request |-> "start"]
    /\ submitErr = [r \in Request |-> "none"]
    /\ channel = [r \in Request |-> <<>>]
    /\ response = [r \in Request |-> "none"]
    /\ listeners = [h \in Hash |-> {}]
    /\ age = [h \in Hash |-> 0]
    /\ txTick = "idle"
    /\ found = {}
    /\ latest = 0
    /\ tickAge = 0
-----------------------------------------------------------------------------
\* stellar-core and ingestion.
SeqAt(ledger) ==
    Max({0} \cup {SeqOf[h] : h \in {g \in Hash : applied[g] \in 1..ledger}})

CloseTxLedger ==
    /\ closed < MaxClosed
    /\ closed' = closed + 1
    /\ \/ UNCHANGED <<queue, applied, succeeded>>
       \/ \E h \in queue, ok \in BOOLEAN :
            /\ SeqOf[h] = SeqAt(closed) + 1
            /\ applied' = [applied EXCEPT ![h] = closed + 1]
            /\ succeeded' = IF ok THEN succeeded \cup {h} ELSE succeeded
            /\ queue' = {g \in queue : SeqOf[g] > SeqOf[h]}
    /\ UNCHANGED <<ingested, ledgerState, callVars, openList, tickVars>>

DropTransaction(h) ==
    /\ h \in queue
    /\ queue' = queue \ {h}
    /\ UNCHANGED <<closed, applied, succeeded, ingested, ledgerState, callVars, openList, tickVars>>

IngestTxLedger ==
    /\ ingested < closed
    /\ ingested' = ingested + 1
    /\ UNCHANGED <<coreVars, ledgerState, callVars, openList, tickVars>>

UpdateCoreLedgerState ==
    /\ coreSeen # closed
    /\ coreSeen' = closed
    /\ UNCHANGED <<coreVars, ingested, histSeen, callVars, openList, tickVars>>

UpdateHorizonLedgerState ==
    /\ histSeen # ingested
    /\ histSeen' = ingested
    /\ UNCHANGED <<coreVars, ingested, coreSeen, callVars, openList, tickVars>>

Advance ==
    /\ txTick # "idle" => tickAge < TickMax
    /\ tickAge' = IF txTick = "idle" THEN 0 ELSE tickAge + 1
    /\ age' = [h \in Hash |-> IF h \in Open THEN Min({age[h] + 1, SubmissionTimeout + 1}) ELSE 0]
    /\ UNCHANGED <<coreVars, ingested, ledgerState, callVars, listeners, txTick, found, latest>>
-----------------------------------------------------------------------------
\* The transactions that the database holds in ledgers low..high under hash h,
\* its own or that of its inner transaction.
StoredUnder(h, low, high) ==
    {g \in Hash : applied[g] \in low..high /\ applied[g] > 0 /\ h \in {g, InnerOf[g]}}

\* Mutant: a failed transaction is a result like any other.
ResultOfAny(h, low, high) == "success"

\* txResultFromHistory
ResultOf(h, low, high) ==
    IF StoredUnder(h, low, high) \cap succeeded # {} THEN "success" ELSE "failed"

\* System.finish, and the handler returns.
Finish(r, result) ==
    /\ channel' = [channel EXCEPT ![r] = Append(@, result)]
    /\ pc' = [pc EXCEPT ![r] = "select"]

\* Submit, from its start to the answer of stellar-core.
CheckSequence(r) ==
    /\ pc[r] = "start"
    /\ Cardinality({q \in Request : pc[q] # "start"}) < MaxCalls
    /\ IF HashOf[r] \in Malformed
       THEN Finish(r, "badSeq")
       ELSE pc' = [pc EXCEPT ![r] = "lookup"] /\ UNCHANGED channel
    /\ UNCHANGED <<coreVars, ingested, ledgerState, submitErr, response, openList, tickVars>>

LookUp(r) ==
    LET h == HashOf[r] IN
    /\ pc[r] = "lookup"
    /\ IF StoredUnder(h, 1, ingested) # {}
       THEN Finish(r, ResultOf(h, 1, ingested))
       ELSE pc' = [pc EXCEPT ![r] = "submit"] /\ UNCHANGED channel
    /\ UNCHANGED <<coreVars, ingested, ledgerState, submitErr, response, openList, tickVars>>

\* Errors of the database and of the connection to stellar-core, and every
\* error status but txBAD_SEQ.
SubmitFails(r) ==
    /\ pc[r] \in {"lookup", "submit"}
    /\ Finish(r, "error")
    /\ UNCHANGED <<coreVars, ingested, ledgerState, submitErr, response, openList, tickVars>>

\* stellar-core: a transaction must be the next of its account.  PENDING and
\* DUPLICATE leave it in the queue, TRY_AGAIN_LATER does not.
Accepts(h) == SeqOf[h] = SeqAt(closed) + 1

SubmitOnce(r) ==
    LET h == HashOf[r] IN
    /\ pc[r] = "submit"
    /\ IF Accepts(h)
       THEN /\ queue' \in {queue, queue \cup {h}}
            /\ pc' = [pc EXCEPT ![r] = "add"]
            /\ UNCHANGED submitErr
       ELSE /\ submitErr' = [submitErr EXCEPT ![r] = "badSeq"]
            /\ pc' = [pc EXCEPT ![r] = "wait"]
            /\ UNCHANGED queue
    /\ UNCHANGED <<closed, applied, succeeded, ingested, ledgerState, channel, response, openList, tickVars>>

IsSyncedUp == coreSeen <= histSeen

\* Mutant: the second look-up does not wait for ingestion.
CaughtUpAtOnce(r) == TRUE

CaughtUpFor(r) == SeqAt(ingested) >= SeqOf[HashOf[r]] \/ IsSyncedUp

WaitUntilAccountSequence(r) ==
    /\ pc[r] = "wait"
    /\ CaughtUpFor(r)
    /\ pc' = [pc EXCEPT ![r] = "recheck"]
    /\ UNCHANGED <<coreVars, ingested, ledgerState, submitErr, channel, response, openList, tickVars>>

\* The request's context ends while it polls.
WaitEnds(r) ==
    /\ pc[r] = "wait"
    /\ Finish(r, "timeout")
    /\ UNCHANGED <<coreVars, ingested, ledgerState, submitErr, response, openList, tickVars>>

\* Only a transaction that was applied with success is a result here.
Recheck(r) ==
    LET h == HashOf[r] IN
    /\ pc[r] = "recheck"
    /\ Finish(r, IF StoredUnder(h, 1, ingested) # {} /\ ResultOf(h, 1, ingested) = "success"
                 THEN "success" ELSE submitErr[r])
    /\ UNCHANGED <<coreVars, ingested, ledgerState, submitErr, response, openList, tickVars>>

\* Mutant: a new listener starts the time of the submission again, and the old
\* ones are forgotten.
PendingAddReplaces(r) ==
    LET h == HashOf[r] IN
    /\ pc[r] = "add"
    /\ listeners' = [listeners EXCEPT ![h] = {r}]
    /\ age' = [age EXCEPT ![h] = 0]
    /\ pc' = [pc EXCEPT ![r] = "select"]
    /\ UNCHANGED <<coreVars, ingested, ledgerState, submitErr, channel, response, tickVars>>

PendingAdd(r) ==
    LET h == HashOf[r] IN
    /\ pc[r] = "add"
    /\ listeners' = [listeners EXCEPT ![h] = @ \cup {r}]
    /\ age' = IF listeners[h] = {} THEN [age EXCEPT ![h] = 0] ELSE age
    /\ pc' = [pc EXCEPT ![r] = "select"]
    /\ UNCHANGED <<coreVars, ingested, ledgerState, submitErr, channel, response, tickVars>>

\* The handler: the first of the result and the end of the context.
Respond(r) ==
    /\ pc[r] = "select"
    /\ channel[r] # <<>>
    /\ response' = [response EXCEPT ![r] = Head(channel[r])]
    /\ pc' = [pc EXCEPT ![r] = "done"]
    /\ UNCHANGED <<coreVars, ingested, ledgerState, submitErr, channel, openList, tickVars>>

ContextDone(r) ==
    /\ pc[r] = "select"
    /\ response' = [response EXCEPT ![r] = "timeout"]
    /\ pc' = [pc EXCEPT ![r] = "done"]
    /\ UNCHANGED <<coreVars, ingested, ledgerState, submitErr, channel, openList, tickVars>>
-----------------------------------------------------------------------------
\* System.Tick
TickStarts ==
    /\ txTick = "idle"
    /\ txTick' = "query"
    /\ found' = Open
    /\ UNCHANGED <<coreVars, ingested, ledgerState, callVars, openList, latest, tickAge>>

SinceLedger == Max({0, ingested - SinceWindow})

\* Its snapshot is taken by the first query, after the list was read.
TickQueries ==
    /\ txTick = "query"
    /\ found' = {h \in found : StoredUnder(h, SinceLedger, ingested) # {}}
    /\ latest' = ingested
    /\ txTick' = "finish"
    /\ UNCHANGED <<coreVars, ingested, ledgerState, callVars, openList, tickAge>>

TickFails ==
    /\ txTick = "query"
    /\ txTick' = "idle"
    /\ found' = {}
    /\ tickAge' = 0
    /\ UNCHANGED <<coreVars, ingested, ledgerState, callVars, openList, latest>>

\* Sends a result to everyone who waits for the hashes hs.
SendTo(hs, result) ==
    channel' = [r \in Request |->
        IF \E h \in hs : r \in listeners[h]
        THEN Append(channel[r], result)
        ELSE channel[r]]

\* Mutant: the submission stays in the list.
TickFinishesKeeps(h) ==
    /\ txTick = "finish"
    /\ h \in found
    /\ SendTo({h}, ResultOf(h, 1, latest))
    /\ found' = found \ {h}
    /\ UNCHANGED <<coreVars, ingested, ledgerState, pc, submitErr, response, openList, txTick, latest, tickAge>>

\* Mutant: an empty result is sent.
TickFinishesEmpty(h) ==
    /\ txTick = "finish"
    /\ h \in found
    /\ SendTo({h}, "none")
    /\ listeners' = [listeners EXCEPT ![h] = {}]
    /\ found' = found \ {h}
    /\ UNCHANGED <<coreVars, ingested, ledgerState, pc, submitErr, response, age, txTick, latest, tickAge>>

\* submissionList.Finish for one hash; its result cannot change any more.
TickFinishes(h) ==
    /\ txTick = "finish"
    /\ h \in found
    /\ SendTo({h}, ResultOf(h, 1, latest))
    /\ listeners' = [listeners EXCEPT ![h] = {}]
    /\ found' = found \ {h}
    /\ UNCHANGED <<coreVars, ingested, ledgerState, pc, submitErr, response, age, txTick, latest, tickAge>>

\* Mutant: the age is compared without the limit.
TooOldAlways(h) == age[h] >= 0

TooOld(h) == age[h] > SubmissionTimeout

\* submissionList.Clean
TickCleans ==
    LET old == {h \in Open : TooOld(h)} IN
    /\ txTick = "finish"
    /\ found = {}
    /\ SendTo(old, "timeout")
    /\ listeners' = [h \in Hash |-> IF h \in old THEN {} ELSE listeners[h]]
    /\ txTick' = "idle"
    /\ latest' = 0
    /\ tickAge' = 0
    /\ UNCHANGED <<coreVars, ingested, ledgerState, pc, submitErr, response, age, found>>

Tick == TickStarts \/ TickQueries \/ (\E h \in Hash : TickFinishes(h)) \/ TickCleans

Submit(r) ==
    \/ CheckSequence(r) \/ LookUp(r) \/ SubmitFails(r) \/ SubmitOnce(r)
    \/ WaitUntilAccountSequence(r) \/ WaitEnds(r) \/ Recheck(r) \/ PendingAdd(r)
    \/ Respond(r)

TxNext ==
    \/ CloseTxLedger \/ (\E h \in Hash : DropTransaction(h)) \/ IngestTxLedger
    \/ UpdateCoreLedgerState \/ UpdateHorizonLedgerState \/ Advance
    \/ \E r \in Request : Submit(r) \/ ContextDone(r)
    \/ Tick \/ TickFails

TxSpec == TxInit /\ [][TxNext]_txVars

\* Time passes, the ticker runs every second, its queries do not fail for
\* ever, and a goroutine that can run does.
TxFairSpec ==
    /\ TxSpec
    /\ SF_txVars(Advance) /\ WF_txVars(TickStarts) /\ SF_txVars(TickQueries)
    /\ WF_txVars(\E h \in Hash : TickFinishes(h)) /\ WF_txVars(TickCleans)
    /\ \A r \in Request : WF_txVars(PendingAdd(r))
-----------------------------------------------------------------------------
Results == {"success", "failed", "badSeq", "timeout", "error"}

TxTypeOK ==
    /\ closed \in 1..MaxClosed /\ ingested \in 1..closed
    /\ queue \subseteq Hash /\ succeeded \subseteq Hash
    /\ applied \in [Hash -> 0..MaxClosed]
    /\ coreSeen \in 0..MaxClosed /\ histSeen \in 0..ingested
    /\ pc \in [Request ->
        {"start", "lookup", "submit", "wait", "recheck", "add", "select", "done"}]
    /\ submitErr \in [Request -> {"none", "badSeq"}]
    /\ channel \in [Request -> Seq(Results)]
    /\ response \in [Request -> Results \cup {"none"}]
    /\ listeners \in [Hash -> SUBSET Request]
    /\ age \in [Hash -> 0..SubmissionTimeout + 1]
    /\ txTick \in {"idle", "query", "finish"}
    /\ found \subseteq Hash /\ latest \in 0..ingested /\ tickAge \in 0..TickMax

\* Every channel gets at most one result, from Submit, Finish or Clean.  A
\* second one would block its sender, who holds the lock of the list.
OneResult == \A r \in Request : Len(channel[r]) <= 1

\* Whoever is told that the transaction succeeded or failed reads it in the
\* database, under its own hash or that of the fee bump around it.
Truthful ==
    \A r \in Request :
        LET stored == StoredUnder(HashOf[r], 1, ingested) IN
        /\ response[r] = "success" => stored \cap succeeded # {}
        /\ response[r] = "failed" => stored # {} /\ stored \cap succeeded = {}

\* Nobody is sent two results (OneResult), and what a client is told of its
\* transaction, or of a fee bump of it, is in the database (Truthful).
OneTruthfulResult == TxTypeOK /\ OneResult /\ Truthful

\* Clean times out only transactions that the same tick has looked for and not
\* found, and nothing that came to the list meanwhile.
CleansUnseen ==
    txTick = "finish" /\ txTick' = "idle" =>
        \A h \in Open : listeners'[h] = {} => StoredUnder(h, Max({0, latest - SinceWindow}), latest) = {}

\* With an up-to-date view of stellar-core, a request stops waiting for
\* ingestion only when the second look-up would find a transaction that has
\* been applied.
StopsWaitingInTime ==
    \A r \in Request :
        pc[r] = "wait" /\ pc'[r] = "recheck" /\ coreSeen = closed =>
            applied[HashOf[r]] = 0 \/ StoredUnder(HashOf[r], 1, ingested) # {}

\* A submission is timed out only by a tick that has looked for it, and a request
\* waits for ingestion as long as that can help (CleansUnseen, StopsWaitingInTime).
WaitsLongEnough == [][CleansUnseen /\ StopsWaitingInTime]_txVars
=============================================================================
