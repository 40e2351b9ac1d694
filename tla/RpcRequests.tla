---------------------------- MODULE RpcRequests ----------------------------
(***************************************************************************)
(* simulateTransaction requests of stellar-rpc on their way through the    *)
(* duration limiter, the backlog queue limiter and the preflight worker    *)
(* pool, until the daemon is closed.                                       *)
(*                                                                         *)
(* The duration limiter answers the caller at the time limit, but the      *)
(* handler it started goes on: caller and handler of a request are two     *)
(* processes.                                                              *)
(***************************************************************************)
EXTENDS Integers, FiniteSets, Sequences

CONSTANTS
    Requests, Workers,
    Limit,          \* of the backlog queue limiter
    QueueSize,       \* of the channel of the pool
    Idle, Exited    \* states of a worker

RequestsConfig ==
    /\ Limit \in Nat \ {0} /\ QueueSize \in Nat \ {0} /\ Workers # {}
    /\ IsFiniteSet(Requests) /\ Idle \notin Requests /\ Exited \notin Requests
ASSUME RequestsAssumption == RequestsConfig

VARIABLES
    caller,         \* what the caller of each request was answered
    handler,        \* where the handler of each request is
    pending,        \* backlogQLimiter.pending
    requestChan,    \* of the pool
    worker,         \* the request each worker runs
    isClosed,       \* of the pool
    daemon,         \* how far the daemon is closed
    panics          \* requests whose handler panicked

requestVars == <<caller, handler, pending, requestChan, worker, isClosed, daemon, panics>>

RequestsInit ==
    /\ caller = [r \in Requests |-> "none"]
    /\ handler = [r \in Requests |-> "none"]
    /\ pending = 0
    /\ requestChan = <<>>
    /\ worker = [w \in Workers |-> Idle]
    /\ isClosed = FALSE /\ daemon = "up" /\ panics = {}

\* The duration limiter passes an answer on unless it gave up before.
Answer(r, a) == caller' = [caller EXCEPT ![r] = IF @ = "waiting" THEN a ELSE @]
At(r, stage) == handler' = [handler EXCEPT ![r] = stage]

-----------------------------------------------------------------------------
\* A request arrives and the duration limiter starts its handler.
Arrive(r) ==
    /\ daemon = "up" /\ caller[r] = "none"
    /\ caller' = [caller EXCEPT ![r] = "waiting"]
    /\ At(r, "arrived")
    /\ UNCHANGED <<pending, requestChan, worker, isClosed, daemon, panics>>

Timeout(r) ==
    /\ caller[r] = "waiting"
    /\ Answer(r, "timeout")
    /\ UNCHANGED <<handler, pending, requestChan, worker, isClosed, daemon, panics>>

-----------------------------------------------------------------------------
\* BacklogJrpcQLimiter.Handle: one atomic addition, then the test of its result.
OverLimitLate(newPending) == newPending > Limit + 1

OverLimit(newPending) == newPending > Limit

Enter(r) ==
    /\ handler[r] = "arrived"
    /\ pending' = pending + 1
    /\ At(r, IF OverLimit(pending') THEN "rejecting" ELSE "admitted")
    /\ UNCHANGED <<caller, requestChan, worker, isClosed, daemon, panics>>

RejectKeepingCount(r) ==
    /\ handler[r] = "rejecting"
    /\ At(r, "done") /\ Answer(r, "busy")
    /\ UNCHANGED <<pending, requestChan, worker, isClosed, daemon, panics>>

Reject(r) ==
    /\ handler[r] = "rejecting"
    /\ pending' = pending - 1
    /\ At(r, "done") /\ Answer(r, "busy")
    /\ UNCHANGED <<requestChan, worker, isClosed, daemon, panics>>

\* The deferred function runs for a panic as well.
Leave(r, a) == At(r, "done") /\ Answer(r, a) /\ pending' = pending - 1

-----------------------------------------------------------------------------
\* WorkerPool.GetPreflight: the test of isClosed ...
CheckClosed(r) ==
    /\ handler[r] = "admitted"
    /\ \/ isClosed /\ Leave(r, "error")
       \/ ~isClosed /\ At(r, "checked") /\ UNCHANGED <<caller, pending>>
    /\ UNCHANGED <<requestChan, worker, isClosed, daemon, panics>>

\* ... and the select, where a send on the closed channel panics.
Send(r) ==
    /\ handler[r] = "checked" /\ ~isClosed /\ Len(requestChan) < QueueSize
    /\ requestChan' = Append(requestChan, r)
    /\ At(r, "waiting")
    /\ UNCHANGED <<caller, pending, worker, isClosed, daemon, panics>>

SendPanics(r) ==
    /\ handler[r] = "checked" /\ isClosed
    /\ panics' = panics \union {r}
    /\ Leave(r, "internal")
    /\ UNCHANGED <<requestChan, worker, isClosed, daemon>>

CancelledWhileWaiting(r) ==
    /\ handler[r] \in {"checked", "waiting"} /\ caller[r] = "timeout"
    /\ Leave(r, "error")
    /\ UNCHANGED <<requestChan, worker, isClosed, daemon, panics>>

Cancelled(r) ==
    /\ handler[r] = "checked" /\ caller[r] = "timeout"
    /\ Leave(r, "error")
    /\ UNCHANGED <<requestChan, worker, isClosed, daemon, panics>>

QueueFull(r) ==
    /\ handler[r] = "checked" /\ ~isClosed /\ caller[r] # "timeout"
    /\ Len(requestChan) = QueueSize
    /\ Leave(r, "full")
    /\ UNCHANGED <<requestChan, worker, isClosed, daemon, panics>>

-----------------------------------------------------------------------------
\* WorkerPool.work: the channel is drained even when it is closed.
TakeUnlessClosed(w) ==
    /\ worker[w] = Idle
    /\ \/ /\ requestChan # <<>> /\ ~isClosed
          /\ worker' = [worker EXCEPT ![w] = Head(requestChan)]
          /\ requestChan' = Tail(requestChan)
       \/ /\ isClosed
          /\ worker' = [worker EXCEPT ![w] = Exited]
          /\ UNCHANGED requestChan
    /\ UNCHANGED <<caller, handler, pending, isClosed, daemon, panics>>

Take(w) ==
    /\ worker[w] = Idle
    /\ \/ /\ requestChan # <<>>
          /\ worker' = [worker EXCEPT ![w] = Head(requestChan)]
          /\ requestChan' = Tail(requestChan)
       \/ /\ requestChan = <<>> /\ isClosed
          /\ worker' = [worker EXCEPT ![w] = Exited]
          /\ UNCHANGED requestChan
    /\ UNCHANGED <<caller, handler, pending, isClosed, daemon, panics>>

\* The result is handed to the handler, which waits for it whatever happened to
\* its caller; the preflight of a closed database is an error.
Finish(w) ==
    /\ worker[w] \in Requests
    /\ LET r == worker[w]
       IN  /\ handler[r] = "waiting"
           /\ \E a \in {"ok", "error"} : (a = "ok" => daemon \in {"up", "draining"}) /\ Leave(r, a)
    /\ worker' = [worker EXCEPT ![w] = Idle]
    /\ UNCHANGED <<requestChan, isClosed, daemon, panics>>

-----------------------------------------------------------------------------
\* Daemon.close: server.Shutdown refuses new requests and waits until the
\* callers are answered or the grace period is over; the database is closed
\* before the pool.
Shutdown ==
    /\ daemon = "up"
    /\ daemon' = "draining"
    /\ UNCHANGED <<caller, handler, pending, requestChan, worker, isClosed, panics>>

CloseDb ==
    /\ daemon = "draining"
    /\ daemon' = "dbClosed"
    /\ UNCHANGED <<caller, handler, pending, requestChan, worker, isClosed, panics>>

ClosePool ==
    /\ daemon = "dbClosed"
    /\ isClosed' = TRUE /\ daemon' = "waiting"
    /\ UNCHANGED <<caller, handler, pending, requestChan, worker, panics>>

Closed ==
    /\ daemon = "waiting" /\ \A w \in Workers : worker[w] = Exited
    /\ daemon' = "closed"
    /\ UNCHANGED <<caller, handler, pending, requestChan, worker, isClosed, panics>>

HandlerStep(r) ==
    Enter(r) \/ Reject(r) \/ CheckClosed(r) \/ Send(r) \/ SendPanics(r) \/ Cancelled(r) \/ QueueFull(r)

CloseStep == CloseDb \/ ClosePool \/ Closed

RequestsNext ==
    \/ \E r \in Requests : Arrive(r) \/ Timeout(r) \/ HandlerStep(r)
    \/ \E w \in Workers : Take(w) \/ Finish(w)
    \/ Shutdown \/ CloseStep

RequestsSpec == RequestsInit /\ [][RequestsNext]_requestVars

\* Goroutines are scheduled and timers fire; a preflight ends.
RequestsFairness ==
    /\ \A r \in Requests : WF_requestVars(HandlerStep(r)) /\ WF_requestVars(Timeout(r))
    /\ \A w \in Workers : WF_requestVars(Take(w)) /\ WF_requestVars(Finish(w))
    /\ WF_requestVars(CloseStep)

RequestsFairSpec == RequestsSpec /\ RequestsFairness

-----------------------------------------------------------------------------
Inside == {r \in Requests : handler[r] \in {"admitted", "checked", "waiting"}}

RequestsTypeOK ==
    /\ caller \in [Requests -> {"none", "waiting", "timeout", "busy", "internal", "error", "full", "ok"}]
    /\ handler \in [Requests -> {"none", "arrived", "rejecting", "admitted", "checked", "waiting", "done"}]
    /\ pending \in 0 .. Cardinality(Requests)
    /\ Len(requestChan) <= QueueSize
    /\ worker \in [Workers -> Requests \union {Idle, Exited}]
    /\ daemon \in {"up", "draining", "dbClosed", "waiting", "closed"}

\* Handlers beyond the limit never run at the same time, those whose caller
\* was given up on at the time limit included.
WithinLimit == Cardinality(Inside) <= Limit

\* Every slot of the limiter is returned whichever way a handler ends: when
\* they are all done, the full limit is available again.
SlotsReturned == (\A r \in Requests : handler[r] \in {"none", "done"}) => pending = 0

\* The pool runs or holds exactly the requests whose handlers wait for it.
PoolHoldsWaiting ==
    \A r \in Requests :
        handler[r] = "waiting" <=>
            (\E i \in 1 .. Len(requestChan) : requestChan[i] = r) \/ (\E w \in Workers : worker[w] = r)

\* So the limit holds for handlers whose caller was given up on, their slots are
\* returned, and the pool works for handlers that wait.
SlotsAccounted == RequestsTypeOK /\ WithinLimit /\ SlotsReturned /\ PoolHoldsWaiting

\* Closing the daemon ends although requests are in all stages.
CloseEnds == (daemon = "draining") ~> (daemon = "closed")
=============================================================================
