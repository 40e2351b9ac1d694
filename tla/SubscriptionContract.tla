------------------------ MODULE SubscriptionContract ------------------------
(***************************************************************************)
(* The subscription contract (SmartContracts-main/contracts/subscription). *)
(* Merchants register services, subscribers subscribe, and a merchant's    *)
(* process() pulls the price of every due subscription from the allowance  *)
(* that the subscriber granted to the contract.  Invocations are atomic    *)
(* and reverted when they fail, so a failing call is a step not taken.     *)
(*                                                                         *)
(* Time is counted in ledgers, for timestamps too: do_approve equates a    *)
(* ledger with five seconds, and so does the model.  Identifiers start at  *)
(* 1 instead of 0.                                                         *)
(***************************************************************************)
EXTENDS Integers, Sequences, FiniteSets, FiniteSetsExt

CONSTANTS
    Subscriber, Merchant,
    Terms,        \* the terms under which a merchant may register a service
    Funds,        \* what each subscriber has in the beginning
    Bucket,       \* LEDGER_BUCKET (720 ledgers)
    MaxTtl,       \* max_ttl - 1 of the network
    MaxTs,        \* u64::MAX, the last timestamp
    MaxNow,       \* bounds on the ledgers that close,
    MaxServices,  \*   the services
    MaxSubs       \*   and the subscriptions

ASSUME SubscriptionAssumption ==
    /\ Subscriber \cap Merchant = {}
    /\ {Funds, Bucket, MaxTtl, MaxTs, MaxNow, MaxServices, MaxSubs} \subseteq Nat
    /\ Bucket > 0
    /\ MaxNow <= MaxTs
    /\ Terms \subseteq [merchant : Merchant, price : Nat \ {0}, period : Nat \ {0},
                        trial : Nat, approve : Nat \ {0}]

VARIABLES
    now,        \* the ledger
    balance,    \* the token: what everyone has and
    allowance,  \*   what each subscriber lets the contract take, until when
    services,   \* Service(id)
    subs,       \* Sub(id)
    pair,       \* SubServicePair(subscriber, service), 0 when not set
    serviceSubs,\* ServiceSubs(service): its subscriptions, oldest first
    page,       \* process(): the subscriptions it has still to look at
    paid,       \* history: the payments made for each subscription
    assured     \* history: the periods that are approved for it, whatever the rounding, and not charged

token == <<balance, allowance>>
history == <<paid, assured>>
index == <<pair, serviceSubs>>
vars == <<now, token, services, subs, index, page, history>>

Party == Subscriber \cup Merchant
Ids == 1 .. Len(subs)
Lesser(a, b) == IF a < b THEN a ELSE b

Init ==
    /\ now = 1
    /\ balance = [p \in Party |-> IF p \in Subscriber THEN Funds ELSE 0]
    /\ allowance = [s \in Subscriber |-> [amount |-> 0, expires |-> 0]]
    /\ services = <<>> /\ subs = <<>> /\ page = <<>>
    /\ pair = [s \in Subscriber |-> [v \in 1 .. MaxServices |-> 0]]
    /\ serviceSubs = [v \in 1 .. MaxServices |-> <<>>]
    /\ paid = <<>> /\ assured = <<>>

(***************************************************************************)
(* The token.  An approval replaces the one before it, and must not have   *)
(* expired already.                                                        *)
(***************************************************************************)
Approve(s, amount, expires) ==
    /\ expires >= now
    /\ allowance' = [allowance EXCEPT ![s] = [amount |-> amount, expires |-> expires]]

CanTransferFromAnyBalance(s, price) ==
    allowance[s].expires >= now /\ allowance[s].amount >= price

CanTransferFrom(s, price) ==
    /\ allowance[s].expires >= now
    /\ allowance[s].amount >= price
    /\ balance[s] >= price

Move(s, m, price) ==
    balance' = [balance EXCEPT ![s] = @ - price, ![m] = @ + price]

(***************************************************************************)
(* The contract.                                                           *)
(***************************************************************************)
ExpirationLedgerShort(v, periods, extra) ==
    ((now + Lesser(v.period * (periods - 1) + extra, MaxTtl)) \div Bucket) * Bucket

\* The expiration is rounded down to a bucket.
ExpirationLedger(v, periods, extra) ==
    ((now + Lesser(v.period * periods + extra, MaxTtl)) \div Bucket) * Bucket

DoApprove(s, v, periods, extra) ==
    Approve(s, v.price * periods, ExpirationLedger(v, periods, extra))

\* An approval lasts as long as it is meant to, but for the rounding.
Lasting(v, periods, extra) == v.period >= Bucket /\ v.period * periods + extra <= MaxTtl

\* A subscriber has one allowance: an approval or a charge for one subscription leaves the
\* others with nothing assured.
Voided(s, i) == [j \in 1 .. Len(assured) |-> IF subs[j].subscriber = s /\ j # i THEN 0 ELSE assured[j]]

RegisterService ==
    /\ Len(services) < MaxServices
    /\ \E t \in Terms : services' = Append(services, t)
    /\ UNCHANGED <<now, token, subs, index, page, history>>

Expired(i) == now >= subs[i].end

\* A subscription that is renewed or has not yet ended.
Active(i) == subs[i].autoRenew \/ ~Expired(i)

MaySubscribeCancelled(s, v, autoRenew) ==
    pair[s][v] # 0 => ~subs[pair[s][v]].autoRenew

\* The dedup check: the last subscription of the pair must be over, and one
\* with a trial must not be followed by another that is a trial only.
MaySubscribe(s, v, autoRenew) ==
    LET old == pair[s][v]
    IN  old # 0 => /\ ~Active(old)
                   /\ subs[old].trial > 0 /\ services[v].trial > 0 => autoRenew

NewSub(s, v, autoRenew, trial, end) ==
    [subscriber |-> s, service |-> v, price |-> services[v].price,
     period |-> services[v].period, trial |-> trial, autoRenew |-> autoRenew,
     end |-> end, nextCharge |-> end, created |-> now]

StoreUnindexed(sub) ==
    /\ Len(subs) < MaxSubs
    /\ subs' = Append(subs, sub)
    /\ pair' = pair
    /\ serviceSubs' = [serviceSubs EXCEPT ![sub.service] = Append(@, Len(subs) + 1)]

Store(sub) ==
    /\ Len(subs) < MaxSubs
    /\ subs' = Append(subs, sub)
    /\ pair' = [pair EXCEPT ![sub.subscriber][sub.service] = Len(subs) + 1]
    /\ serviceSubs' = [serviceSubs EXCEPT ![sub.service] = Append(@, Len(subs) + 1)]

SubscribeTrial(s, v, autoRenew) ==
    LET service == services[v]
    IN  /\ service.trial > 0
        /\ MaySubscribe(s, v, autoRenew)
        /\ now + service.trial <= MaxTs
        /\ IF autoRenew THEN DoApprove(s, service, service.approve, service.trial)
                        ELSE UNCHANGED allowance
        /\ Store(NewSub(s, v, autoRenew, service.trial, now + service.trial))
        /\ paid' = Append(paid, 0)
        /\ IF autoRenew
           THEN assured' = Append(Voided(s, 0), IF Lasting(service, service.approve, service.trial) THEN service.approve ELSE 0)
           ELSE assured' = Append(assured, 0)
        /\ UNCHANGED <<now, balance, services, page>>

SubscribePaidInAdvance(s, v, autoRenew) ==
    LET service == services[v]
        periods == IF autoRenew THEN service.approve ELSE 1
    IN  /\ service.trial = 0
        /\ MaySubscribe(s, v, autoRenew)
        /\ now + service.period <= MaxTs
        /\ DoApprove(s, service, periods, 0)
        /\ balance[s] >= service.price * periods
        /\ Move(s, service.merchant, service.price * periods)
        /\ Store(NewSub(s, v, autoRenew, 0, now + service.period))
        /\ paid' = Append(paid, 1)
        /\ assured' = Append(Voided(s, 0), IF Lasting(service, periods, 0) THEN periods - 1 ELSE 0)
        /\ UNCHANGED <<now, services, page>>

SubscribePaid(s, v, autoRenew) ==
    LET service == services[v]
        periods == IF autoRenew THEN service.approve ELSE 1
    IN  /\ service.trial = 0
        /\ MaySubscribe(s, v, autoRenew)
        /\ now + service.period <= MaxTs
        /\ DoApprove(s, service, periods, 0)
        /\ balance[s] >= service.price
        /\ Move(s, service.merchant, service.price)
        /\ Store(NewSub(s, v, autoRenew, 0, now + service.period))
        /\ paid' = Append(paid, 1)
        /\ assured' = Append(Voided(s, 0), IF Lasting(service, periods, 0) THEN periods - 1 ELSE 0)
        /\ UNCHANGED <<now, services, page>>

Subscribe ==
    \E s \in Subscriber, v \in 1 .. Len(services), autoRenew \in BOOLEAN :
        SubscribeTrial(s, v, autoRenew) \/ SubscribePaid(s, v, autoRenew)

Cancel(i) ==
    /\ subs[i].autoRenew
    /\ subs' = [subs EXCEPT ![i].autoRenew = FALSE]
    /\ UNCHANGED <<now, token, services, index, page, history>>

\* do_approve for the current terms of the service.  What is left of a trial is not added.
Reapprove(i) ==
    LET service == services[subs[i].service]
        soon    == subs[i].nextCharge <= now + service.period
    IN  /\ DoApprove(subs[i].subscriber, service, service.approve, 0)
        /\ assured' = [Voided(subs[i].subscriber, i) EXCEPT ![i] =
               IF soon /\ Lasting(service, service.approve, 0) THEN service.approve - 1 ELSE 0]

ToggleAutoRenewAnytime(i) ==
    /\ subs' = [subs EXCEPT ![i].autoRenew = ~@]
    /\ IF subs[i].autoRenew THEN UNCHANGED <<allowance, assured>> ELSE Reapprove(i)
    /\ UNCHANGED <<now, balance, services, index, page, paid>>

ToggleAutoRenew(i) ==
    /\ Active(i)
    /\ subs' = [subs EXCEPT ![i].autoRenew = ~@]
    /\ IF subs[i].autoRenew THEN UNCHANGED <<allowance, assured>> ELSE Reapprove(i)
    /\ UNCHANGED <<now, balance, services, index, page, paid>>

ExtendSubscription(i) ==
    /\ ~Expired(i)
    /\ Reapprove(i)
    /\ subs' = [subs EXCEPT ![i].autoRenew = TRUE]
    /\ UNCHANGED <<now, balance, services, index, page, paid>>

\* process() of one page.  The iterations of its loop are steps of their own,
\* between which nothing else happens: the invocation is atomic.
Process ==
    /\ \E v \in 1 .. Len(services), offset \in 0 .. MaxSubs, limit \in 1 .. MaxSubs :
          page' = SubSeq(serviceSubs[v], offset + 1, Lesser(offset + limit, Len(serviceSubs[v])))
    /\ UNCHANGED <<now, token, services, subs, index, history>>

DueAnytime(i) == subs[i].autoRenew

Due(i) == subs[i].autoRenew /\ now >= subs[i].nextCharge

Skip(i) ==
    /\ ~Due(i)
    /\ UNCHANGED <<token, subs, history>>

AdvancedFromNow(i) ==
    [subs EXCEPT ![i].nextCharge = now + subs[i].period, ![i].end = now + subs[i].period]

\* The next charge is due one period after this one, however late this one is.
Advanced(i) ==
    LET next == subs[i].nextCharge + subs[i].period
    IN  IF next > MaxTs
        THEN [subs EXCEPT ![i].autoRenew = FALSE]
        ELSE [subs EXCEPT ![i].nextCharge = next, ![i].end = next]

Charge(i) ==
    LET sub == subs[i]
        s == sub.subscriber
    IN  /\ Due(i)
        /\ CanTransferFrom(s, sub.price)
        /\ Move(s, services[sub.service].merchant, sub.price)
        /\ allowance' = [allowance EXCEPT ![s].amount = @ - sub.price]
        /\ subs' = Advanced(i)
        /\ paid' = [paid EXCEPT ![i] = @ + 1]
        /\ assured' = [Voided(s, i) EXCEPT ![i] = IF @ = 0 THEN 0 ELSE @ - 1]

ChargeFails(i) ==
    /\ Due(i)
    /\ ~CanTransferFrom(subs[i].subscriber, subs[i].price)
    /\ subs' = [subs EXCEPT ![i].autoRenew = FALSE]
    /\ UNCHANGED <<token, history>>

ProcessOne ==
    /\ page # <<>>
    /\ page' = Tail(page)
    /\ Skip(Head(page)) \/ Charge(Head(page)) \/ ChargeFails(Head(page))
    /\ UNCHANGED <<now, services, index>>

\* A ledger closes.
Close ==
    /\ now < MaxNow
    /\ now' = now + 1
    /\ UNCHANGED <<token, services, subs, index, page, history>>

Invoke ==
    /\ page = <<>>
    /\ \/ RegisterService \/ Subscribe \/ Process \/ Close
       \/ \E i \in Ids : Cancel(i) \/ ToggleAutoRenew(i) \/ ExtendSubscription(i)

Next == Invoke \/ ProcessOne

Spec == Init /\ [][Next]_vars

-----------------------------------------------------------------------------
SubType ==
    [subscriber : Subscriber, service : 1 .. MaxServices, price : Nat, period : Nat,
     trial : Nat, autoRenew : BOOLEAN, end : Nat, nextCharge : Nat, created : Nat]

\* The storage of the contract and the token has the types of its entries.
TypeOK ==
    /\ now \in Nat
    /\ balance \in [Party -> Nat]
    /\ allowance \in [Subscriber -> [amount : Nat, expires : Nat]]
    /\ services \in Seq(Terms) /\ Len(services) <= MaxServices
    /\ subs \in Seq(SubType)
    /\ pair \in [Subscriber -> [1 .. MaxServices -> {0} \cup Ids]]
    /\ serviceSubs \in [1 .. MaxServices -> Seq(Ids)]
    /\ page \in Seq(Ids)
    /\ paid \in Seq(Nat) /\ Len(paid) = Len(subs)
    /\ assured \in Seq(Nat) /\ Len(assured) = Len(subs)

\* Deduplication: a subscriber never holds two subscriptions to one service that
\* are renewed or running, whatever is cancelled, toggled, extended and charged.
OneActive ==
    \A i, j \in Ids :
        /\ subs[i].subscriber = subs[j].subscriber
        /\ subs[i].service = subs[j].service
        /\ Active(i) /\ Active(j)
        => i = j

IsSubscriptionActive(s, v) == pair[s][v] # 0 /\ ~Expired(pair[s][v])

\* is_subscription_active looks only at the last subscription of the pair; it is
\* right about all of them.
ActiveIsKnown ==
    \A i \in Ids : ~Expired(i) => IsSubscriptionActive(subs[i].subscriber, subs[i].service)

\* So the last subscription of a pair decides (the dedup check of subscribe and
\* is_subscription_active look at nothing else).
LastDecides == OneActive /\ ActiveIsKnown

\* What a subscriber has paid for is what the subscription runs: payments are
\* neither lost nor counted twice by process(), and late charges do not drift.
\* The one charge that buys nothing is the one after which the next charge would
\* be due beyond the largest timestamp.
PaidIsServed ==
    \A i \in Ids :
        /\ subs[i].end + subs[i].period <= MaxTs =>
              subs[i].end = subs[i].created + subs[i].trial + paid[i] * subs[i].period
        /\ subs[i].nextCharge = subs[i].end

\* Nobody pays ahead: a subscription never ends later than one period, or its
\* trial, from now, however often process() and extend_subscription are called.
NeverAhead ==
    \A i \in Ids :
        subs[i].end <= now + (IF subs[i].trial > subs[i].period THEN subs[i].trial ELSE subs[i].period)

\* Subscribers pay for what they are served and not ahead of it, whatever process()
\* is called with and when, and nothing is taken that they do not have.
PaymentsAddUp == TypeOK /\ PaidIsServed /\ NeverAhead

\* Merchants have received exactly the payments recorded for their services.
Revenue ==
    \A m \in Merchant :
        balance[m] = MapThenSumSet(LAMBDA i : paid[i] * subs[i].price,
                                   {i \in Ids : services[subs[i].service].merchant = m})

\* A subscription that has ended and is not renewed never changes again: it can
\* be neither revived by toggle or extend nor charged by process().
EndedIsFinal ==
    [][\A i \in Ids : ~Active(i) => subs'[i] = subs[i] /\ paid'[i] = paid[i]]_vars

\* What is left of "approves the contract for `approve_periods` future periods": a charge in
\* the ledger in which it is due does not fail while the subscriber can pay, for so many
\* periods after a trial, and for one less after a first payment or when the approval is
\* renewed within a period of the next charge: rounding may cost the last.  It holds for
\* periods of at least a bucket, approvals within the longest that the network allows, and
\* only until another subscription of the subscriber is approved or charged.
ApprovedIsCharged ==
    [][\A i \in Ids :
          /\ page # <<>> /\ Head(page) = i /\ Due(i)
          /\ now = subs[i].nextCharge
          /\ assured[i] > 0 /\ balance[subs[i].subscriber] >= subs[i].price
          => paid'[i] = paid[i] + 1]_vars
=============================================================================
