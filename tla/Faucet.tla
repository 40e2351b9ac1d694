------------------------------- MODULE Faucet -------------------------------
(***************************************************************************)
(* The faucet of pi-dapp-suite: requests that share one signing account    *)
(* submit a payment, or a transaction that creates the account, again and  *)
(* again until the network takes it, and wait for the outcome.             *)
(*                                                                         *)
(* A transaction is what makes its hash: operation, destination, sequence  *)
(* number, fee (by the attempt) and the second it was built in.  The clock *)
(* counts the 300 seconds of its time bounds and of the waits.             *)
(***************************************************************************)
EXTENDS Integers, FiniteSets, FiniteSetsExt

CONSTANTS
    Requests, Destination,  \* requests and the account each is for
    Limit,                  \* of pLimit
    MaxAttempts,            \* attempts of sendClassicTx
    Seconds,                \* seconds of a period a transaction may be built in
    MaxSequence, MaxClock,  \* bounds
    NoTx

\* The accounts that requests are for, and the transactions built for them.
Destinations == {Destination[r] : r \in Requests}
Transactions == [op : {"payment", "createAccount"}, to : Destinations, sequence : Nat, attempt : Nat,
                 period : Nat, second : Seconds]

ASSUME FaucetAssumption ==
    /\ {Limit, MaxAttempts} \subseteq Nat \ {0} /\ {MaxSequence, MaxClock} \subseteq Nat
    /\ NoTx \notin Transactions

VARIABLES
    clock,
    sequence,       \* of the faucet's account
    accounts,       \* accounts that exist
    queued,         \* the transaction of the account that waits for a ledger
    outcome,        \* SUCCESS or FAILED of the transactions in ledgers
    request, up

network == <<clock, sequence, accounts, queued, outcome>>
faucetVars == <<network, request, up>>

\* taken: the transactions of the request that the network took.
Idle == [at |-> "new", op |-> "", again |-> FALSE, attempt |-> 0, tx |-> NoTx, taken |-> {},
         final |-> FALSE, caught |-> FALSE, ok |-> FALSE]
Succeeded == {t \in DOMAIN outcome : outcome[t] = "SUCCESS"}
Serving == {r \in Requests : request[r].at \notin {"new", "answered", "lost"}}

FaucetInit ==
    /\ clock = 0 /\ sequence = 0 /\ queued = NoTx /\ outcome = [t \in {} |-> ""]
    /\ accounts \in {{}, Destinations}
    /\ request = [r \in Requests |-> Idle] /\ up = TRUE

RequestType ==
    [at : {"new", "check", "build", "send", "wait", "confirm", "answered", "lost"},
     op : {"", "payment", "createAccount"}, again : BOOLEAN, attempt : 0 .. MaxAttempts,
     tx : {NoTx} \union Transactions, taken : SUBSET Transactions,
     final : BOOLEAN, caught : BOOLEAN, ok : BOOLEAN]

FaucetTypeOK ==
    /\ clock \in 0 .. MaxClock /\ sequence \in 0 .. MaxSequence /\ accounts \subseteq Destinations
    /\ queued \in {NoTx} \union Transactions /\ DOMAIN outcome \subseteq Transactions
    /\ request \in [Requests -> RequestType] /\ up \in BOOLEAN

Go(r, step) == request' = [request EXCEPT ![r] = step]
To(r, place) == Go(r, [request[r] EXCEPT !.at = place])
Answer(r, ok) == Go(r, [request[r] EXCEPT !.at = "answered", !.ok = ok])

-----------------------------------------------------------------------------
\* The network: one transaction of an account waits at a time.
CloseLedger ==
    /\ queued # NoTx
    /\ LET fits == (queued.op = "payment") <=> (queued.to \in accounts)
       IN  /\ outcome' = [t \in DOMAIN outcome \union {queued} |->
                             IF t # queued THEN outcome[t] ELSE IF fits THEN "SUCCESS" ELSE "FAILED"]
           /\ accounts' = IF fits THEN accounts \union {queued.to} ELSE accounts
    /\ sequence' = queued.sequence /\ queued' = NoTx
    /\ UNCHANGED <<clock, request, up>>

Drop ==
    /\ queued # NoTx
    /\ queued' = NoTx
    /\ UNCHANGED <<clock, sequence, accounts, outcome, request, up>>

\* The time bounds of what was built so far pass.
Tick ==
    /\ clock < MaxClock
    /\ clock' = clock + 1 /\ queued' = NoTx
    /\ UNCHANGED <<sequence, accounts, outcome, request, up>>

\* sendTransaction, by the answer it gives.
Status(t) ==
    IF queued = t THEN {"DUPLICATE"}
    ELSE IF queued # NoTx THEN {"TRY_AGAIN_LATER"}
    ELSE IF t.sequence # sequence + 1 \/ t.period < clock THEN {"ERROR"}
    ELSE {"PENDING", "TRY_AGAIN_LATER"}

-----------------------------------------------------------------------------
\* /faucet/fund.
Accept(r) ==
    /\ up /\ request[r].at = "new" /\ Cardinality(Serving) < Limit
    /\ To(r, "check")
    /\ UNCHANGED <<network, up>>

\* destinationAccountExists, which takes a failed request for no; an attempt of
\* sendClassicTx begins.
CheckDestination(r) ==
    /\ request[r].at = "check"
    /\ \E exists \in {Destination[r] \in accounts, FALSE} :
          Go(r, [request[r] EXCEPT !.at = "build", !.attempt = 1,
                                   !.op = IF exists THEN "payment" ELSE "createAccount"])
    /\ UNCHANGED <<network, up>>

\* buildClassicTx.
Build(r) ==
    /\ request[r].at = "build" /\ sequence < MaxSequence
    /\ \E second \in Seconds :
          Go(r, [request[r] EXCEPT !.at = "send",
                    !.tx = [op |-> request[r].op, to |-> Destination[r], sequence |-> sequence + 1,
                            attempt |-> request[r].attempt, period |-> clock, second |-> second]])
    /\ UNCHANGED <<network, up>>

Taken(r) == [request[r] EXCEPT !.taken = @ \union {request[r].tx}]
Queue(t) == queued' = t /\ UNCHANGED <<clock, sequence, accounts, outcome, up>>

\* sendTransaction and what sendClassicTx makes of its status; an error of the first
\* transaction leads to a second call, with a payment.
Send(r) ==
    LET q == request[r] IN
    /\ q.at = "send"
    /\ \E status \in Status(q.tx) :
          \/ /\ status \in {"PENDING", "DUPLICATE"}
             /\ Go(r, [Taken(r) EXCEPT !.at = "wait"]) /\ Queue(q.tx)
          \/ /\ status = "TRY_AGAIN_LATER"
             /\ IF q.attempt < MaxAttempts
                THEN Go(r, [q EXCEPT !.at = "build", !.attempt = @ + 1])
                ELSE To(r, "confirm")
             /\ UNCHANGED <<network, up>>
          \/ /\ status = "ERROR"
             /\ IF q.op = "createAccount"
                THEN Go(r, [q EXCEPT !.at = "build", !.attempt = 1, !.op = "payment", !.again = TRUE])
                ELSE Answer(r, FALSE)
             /\ UNCHANGED <<network, up>>

\* waitForSubmittedTx: the outcome, or none after as long as the time bounds.
\* Mutant: it waits for less than the time bounds.
WaitShort(r) ==
    /\ request[r].at = "wait"
    /\ Go(r, [request[r] EXCEPT !.at = "confirm", !.final = request[r].tx \in Succeeded])
    /\ UNCHANGED <<network, up>>
Wait(r) ==
    /\ request[r].at = "wait" /\ (request[r].tx \in DOMAIN outcome \/ request[r].tx.period < clock)
    /\ Go(r, [request[r] EXCEPT !.at = "confirm", !.final = request[r].tx \in Succeeded])
    /\ UNCHANGED <<network, up>>

\* waitForDestinationAccount: it is found, or not in time; accepted is either of the
\* two results.
\* Mutant: accepted is the confirmation of the account alone.
ConfirmAlone(r) ==
    /\ request[r].at = "confirm"
    /\ \E confirmed \in {Destination[r] \in accounts, FALSE} : Answer(r, confirmed)
    /\ UNCHANGED <<network, up>>
Confirm(r) ==
    /\ request[r].at = "confirm"
    /\ \E confirmed \in {Destination[r] \in accounts, FALSE} : Answer(r, request[r].final \/ confirmed)
    /\ UNCHANGED <<network, up>>

\* A call of the RPC server throws, perhaps after it has taken the transaction.  In
\* the second call of sendClassicTx that is caught; otherwise nobody handles the
\* rejection, and the process ends.
Throw(r) ==
    /\ request[r].at \in {"build", "send", "wait"}
    /\ \E q \in {request[r]} \union
                  (IF request[r].at = "send" /\ Status(request[r].tx) # {"ERROR"} THEN {Taken(r)} ELSE {}) :
          /\ q # request[r] => queued \in {NoTx, q.tx}
          /\ queued' = IF q # request[r] THEN q.tx ELSE queued
          /\ IF q.again
             THEN Go(r, [q EXCEPT !.at = "answered", !.caught = TRUE]) /\ UNCHANGED up
             ELSE /\ request' = [s \in Requests |-> IF s \notin Serving THEN request[s]
                                    ELSE [(IF s = r THEN q ELSE request[s]) EXCEPT !.at = "lost"]]
                  /\ up' = FALSE
    /\ UNCHANGED <<clock, sequence, accounts, outcome>>

Restart ==
    /\ ~up /\ up' = TRUE
    /\ UNCHANGED <<network, request>>

FaucetNext ==
    \/ CloseLedger \/ Drop \/ Tick \/ Restart
    \/ \E r \in Requests :
          \/ Accept(r) \/ CheckDestination(r) \/ Build(r) \/ Send(r) \/ Wait(r) \/ Confirm(r) \/ Throw(r)

FaucetSpec == FaucetInit /\ [][FaucetNext]_faucetVars

-----------------------------------------------------------------------------
\* However often a request tries, and whatever the others do to the sequence number,
\* it pays at most once.
PaysOnce == \A r \in Requests : Cardinality(request[r].taken \intersect Succeeded) <= 1

\* A request that is told it failed has not paid and does not pay later, unless the
\* error of its second call was dropped; one that is told it was accepted has an
\* account (not necessarily the money: a failed payment to an account that exists
\* is accepted too, and two requests may share one transaction).
AnswersHold ==
    \A r \in Requests : request[r].at = "answered" =>
        IF request[r].ok THEN Destination[r] \in accounts
        ELSE request[r].caught \/ request[r].taken \intersect (Succeeded \union {queued}) = {}

\* A request pays at most once, and its answer can be relied on (PaysOnce, AnswersHold;
\* sendClassicTx, waitForSubmittedTx and the answer of /faucet/fund).
PaymentsKept == FaucetTypeOK /\ PaysOnce /\ AnswersHold
=============================================================================
