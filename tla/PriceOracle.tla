---------------------------- MODULE PriceOracle ----------------------------
(***************************************************************************)
(* The price aggregator of suban-controller: requests and the periodic     *)
(* push to the on-chain oracle aggregate the prices of the sources behind  *)
(* a cache and a circuit breaker.                                          *)
(*                                                                         *)
(* A price is a ratio of integers.  Calls of getAggregatedPrice overlap    *)
(* where they await the sources.                                           *)
(***************************************************************************)
EXTENDS Integers, FiniteSets, FiniteSetsExt, Functions

CONSTANTS
    Sources, Weight,        \* the price sources and their weights
    Prices,                 \* what a source may answer
    Pushers, Readers,       \* overlapping calls of the push interval and the API
    OutlierPercent, BreakerPercent,
    MinSources,
    CommittedByHand,        \* prices posted to /price/commit: any number above 0
    NoPrice, NoArgument

OracleAssumption ==
    Prices \union CommittedByHand \subseteq Nat \ {0} /\ Weight \in [Sources -> Nat \ {0}] /\ MinSources \in Nat \ {0}

VARIABLES
    lastCommitted,          \* lastCommittedPrice
    breaker,                \* circuitBreakerTriggeredAt is set
    cache,                  \* the cached aggregate
    task, got,              \* where each call is, and what a pusher got and has not committed
    answer,                 \* what the last call returned
    onChain                 \* the argument of the last call of set_price

vars == <<lastCommitted, breaker, cache, task, got, answer, onChain>>

Tasks == Pushers \union Readers

Init ==
    /\ lastCommitted = NoPrice /\ breaker = FALSE /\ cache = NoPrice
    /\ task = [t \in Tasks |-> "idle"] /\ got = [t \in Pushers |-> NoPrice]
    /\ answer = NoPrice
    /\ onChain = NoPrice

-----------------------------------------------------------------------------
Distance(x, y) == IF x > y THEN x - y ELSE y - x

\* The price in the middle of the sorted ones, the higher of two.
Median(quotes) ==
    LET half == Cardinality(DOMAIN quotes) \div 2
    IN  CHOOSE m \in Range(quotes) :
            /\ Cardinality({s \in DOMAIN quotes : quotes[s] < m}) <= half
            /\ Cardinality({s \in DOMAIN quotes : quotes[s] <= m}) > half

RemoveOutliers(quotes) ==
    IF Cardinality(DOMAIN quotes) < 3 THEN quotes
    ELSE LET median == Median(quotes)
         IN  Restrict(quotes, {s \in DOMAIN quotes :
                 Distance(quotes[s], median) * 100 <= OutlierPercent * median})

\* The average of the prices, by the weights of their sources.
CalculateUnweighted(quotes) ==
    [n |-> FoldFunction(+, 0, quotes), d |-> FoldFunction(+, 0, Restrict(Weight, DOMAIN quotes))]

CalculateAggregatedPrice(quotes) ==
    [n |-> FoldFunction(+, 0, [s \in DOMAIN quotes |-> quotes[s] * Weight[s]]),
     d |-> FoldFunction(+, 0, Restrict(Weight, DOMAIN quotes))]

Deviates(price, from) ==
    Distance(price.n * from.d, from.n * price.d) * 100 > BreakerPercent * from.n * price.d

-----------------------------------------------------------------------------
\* The result goes to the caller.  A pusher commits one that is not from the cache when it
\* resumes from its own await; other calls may go on in between.
Answer(t, price, hit) ==
    /\ answer' = price
    /\ IF t \in Pushers /\ ~hit
       THEN task' = [task EXCEPT ![t] = "answered"] /\ got' = [got EXCEPT ![t] = price]
       ELSE task' = [task EXCEPT ![t] = "idle"] /\ UNCHANGED got

CommitFresh(t) ==
    /\ task[t] = "answered"
    /\ lastCommitted' = got[t]
    /\ got' = [got EXCEPT ![t] = NoPrice]
    /\ task' = [task EXCEPT ![t] = "pushing"]
    /\ UNCHANGED <<breaker, cache, answer, onChain>>

\* getAggregatedPrice up to the await.
FallBack(t) ==
    /\ task[t] = "idle" /\ breaker
    /\ Answer(t, IF lastCommitted = NoPrice THEN [n |-> 0, d |-> 1] ELSE lastCommitted, FALSE)
    /\ UNCHANGED <<lastCommitted, breaker, cache, onChain>>

CacheHit(t) ==
    /\ task[t] = "idle" /\ ~breaker /\ cache # NoPrice
    /\ Answer(t, cache, TRUE)
    /\ UNCHANGED <<lastCommitted, breaker, cache, onChain>>

StartFetch(t) ==
    /\ task[t] = "idle" /\ ~breaker /\ cache = NoPrice
    /\ task' = [task EXCEPT ![t] = "fetching"]
    /\ UNCHANGED <<lastCommitted, breaker, cache, got, answer, onChain>>

\* ... and after it.  A source may fail or be stale.
Insufficient(t) ==
    /\ task[t] = "fetching"
    /\ task' = [task EXCEPT ![t] = "idle"]
    /\ UNCHANGED <<lastCommitted, breaker, cache, got, answer, onChain>>

AnySources(S) == TRUE

EnoughSources(S) == Cardinality(S) >= MinSources

\* The aggregate of the prices that came in; it is "raw" when too many of them
\* are outliers and all are used.
Aggregate(quotes) ==
    LET kept == RemoveOutliers(quotes)
    IN  IF EnoughSources(DOMAIN kept)
        THEN [price |-> CalculateAggregatedPrice(kept), raw |-> FALSE]
        ELSE [price |-> CalculateAggregatedPrice(quotes), raw |-> TRUE]

Aggregates == {Aggregate(quotes) : quotes \in UNION {[S -> Prices] : S \in {T \in SUBSET Sources : EnoughSources(T)}}}

Trips(price) == lastCommitted # NoPrice /\ Deviates(price, lastCommitted)

FinishFetch(t) ==
    /\ task[t] = "fetching"
    /\ \E a \in Aggregates :
          /\ Answer(t, a.price, FALSE)
          /\ IF a.raw THEN UNCHANGED <<breaker, cache>>
             ELSE IF Trips(a.price) THEN breaker' = TRUE /\ UNCHANGED cache
             ELSE cache' = a.price /\ UNCHANGED breaker
    /\ UNCHANGED <<lastCommitted, onChain>>

-----------------------------------------------------------------------------
\* pushPrice calls set_price without an argument, and the call may fail.
PushPrice(t) ==
    /\ task[t] = "pushing"
    /\ task' = [task EXCEPT ![t] = "idle"]
    /\ onChain' \in {onChain, NoArgument}
    /\ UNCHANGED <<lastCommitted, breaker, cache, got, answer>>

\* The pause is over, or the breaker is reset by hand.
ResetCircuitBreaker ==
    /\ breaker /\ breaker' = FALSE
    /\ UNCHANGED <<lastCommitted, cache, task, got, answer, onChain>>

\* POST /price/commit.
CommitByHand ==
    /\ \E p \in CommittedByHand : lastCommitted' = [n |-> p, d |-> 1]
    /\ UNCHANGED <<breaker, cache, task, got, answer, onChain>>

ExpireCache ==
    /\ cache # NoPrice /\ cache' = NoPrice
    /\ UNCHANGED <<lastCommitted, breaker, task, got, answer, onChain>>

Next ==
    \/ \E t \in Tasks : FallBack(t) \/ CacheHit(t) \/ StartFetch(t) \/ Insufficient(t) \/ FinishFetch(t)
    \/ \E t \in Pushers : CommitFresh(t) \/ PushPrice(t)
    \/ ResetCircuitBreaker \/ CommitByHand \/ ExpireCache

Spec == Init /\ [][Next]_vars

-----------------------------------------------------------------------------
PriceType == [n : Nat, d : Nat \ {0}]

TypeOK ==
    /\ lastCommitted = NoPrice \/ lastCommitted \in PriceType
    /\ breaker \in BOOLEAN
    /\ cache = NoPrice \/ cache \in PriceType
    /\ task \in [Tasks -> {"idle", "fetching", "answered", "pushing"}]

InRange(price) ==
    price # NoPrice => Min(Prices) * price.d <= price.n /\ price.n <= Max(Prices) * price.d

ByHand(price) == \E p \in CommittedByHand : price = [n |-> p, d |-> 1]

\* Every price that is cached lies between the lowest and the highest price a source can
\* have given.  One that is answered or committed does too, or was posted to /price/commit:
\* the breaker falls back on that as well, but never on the 0 that stands for "none".
AnswersInRange ==
    /\ InRange(cache)
    /\ \A price \in {lastCommitted, answer} \union {got[t] : t \in Pushers} : InRange(price) \/ ByHand(price)
=============================================================================
