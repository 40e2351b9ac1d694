----------------------------- MODULE DappProofs -----------------------------
(***************************************************************************)
(* Deduplication of subscriptions, for any number of subscribers, services *)
(* and subscriptions.  OneActive alone is not inductive: subscribe() looks *)
(* only at the last subscription of the pair.  What makes that sound is    *)
(* that every earlier one has ended and cannot be revived (LastIsIndexed). *)
(*                                                                         *)
(* And the payments: PaidIsServed and NeverAhead are inductive together    *)
(* (AllRunAsPaid), since a charge that is due starts where the last one    *)
(* ends and none is taken before.                                          *)
(*                                                                         *)
(* And the faucet: a request pays at most once because it sends a second   *)
(* transaction only while the network has taken none, and gives up on one  *)
(* only once it is settled (FaucetInv).                                    *)
(***************************************************************************)
EXTENDS SubscriptionContract, Faucet, SequenceTheorems, FiniteSetTheorems, TLAPS

\* The index points to the only subscription of a pair that may be active.
LastIsIndexed ==
    \A i \in Ids :
        LET p == pair[subs[i].subscriber][subs[i].service]
        IN  /\ p \in Ids
            /\ subs[p].subscriber = subs[i].subscriber
            /\ subs[p].service = subs[i].service
            /\ i # p => ~Active(i)

\* Subscriptions are to services that exist.
ServicesKnown == \A i \in Ids : subs[i].service \in 1 .. Len(services)

IInv == TypeOK /\ ServicesKnown /\ LastIsIndexed

-----------------------------------------------------------------------------
\* The invariant gives both safety properties.
LEMMA InvariantSuffices == IInv => OneActive /\ ActiveIsKnown
<1> SUFFICES ASSUME IInv PROVE OneActive /\ ActiveIsKnown
    OBVIOUS
<1>1. OneActive
    BY SMTT(60) DEF IInv, LastIsIndexed, OneActive
<1>2. ASSUME NEW i \in Ids, ~Expired(i)
      PROVE  IsSubscriptionActive(subs[i].subscriber, subs[i].service)
    <2>1. pair[subs[i].subscriber][subs[i].service] = i
        BY <1>2 DEF IInv, LastIsIndexed, Active
    <2> QED BY <1>2, <2>1 DEF IsSubscriptionActive, Ids
<1> QED BY <1>1, <1>2 DEF ActiveIsKnown

\* The contract starts with no subscriptions.
LEMMA InitialState == Init => IInv
<1> SUFFICES ASSUME Init PROVE IInv
    OBVIOUS
<1>1. TypeOK
    BY SubscriptionAssumption DEF Init, TypeOK, Ids, Party
<1>2. LastIsIndexed
    BY DEF Init, LastIsIndexed, Ids
<1>3. ServicesKnown
    BY DEF Init, ServicesKnown, Ids
<1> QED BY <1>1, <1>2, <1>3 DEF IInv

-----------------------------------------------------------------------------
\* What a call changes, as far as the invariant can tell: nothing but the time,
\* one active subscription, or the list of subscriptions.
Passes == UNCHANGED <<subs, index, paid>> /\ now' >= now /\ Len(services') >= Len(services)

Revises(i) ==
    /\ i \in Ids /\ Active(i)
    /\ \E r \in SubType :
          /\ r.subscriber = subs[i].subscriber
          /\ r.service = subs[i].service
          /\ subs' = [subs EXCEPT ![i] = r]
    /\ \A j \in Ids : j # i => paid'[j] = paid[j]
    /\ UNCHANGED <<now, index, services>>

Adds(s, v) ==
    /\ s \in Subscriber /\ v \in 1 .. MaxServices /\ v \in 1 .. Len(services)
    /\ pair[s][v] # 0 => ~Active(pair[s][v])
    /\ \E r \in SubType : r.subscriber = s /\ r.service = v /\ Store(r)
    /\ \E a \in Nat : paid' = Append(paid, a)
    /\ UNCHANGED <<now, services>>

LEMMA SubsTyped ==
    ASSUME TypeOK, NEW i \in Ids
    PROVE  /\ subs[i] \in SubType
           /\ subs[i].subscriber \in Subscriber /\ subs[i].service \in 1 .. MaxServices
           /\ subs[i].end \in Nat
<1>1. subs[i] \in SubType
    BY SMTT(60) DEF TypeOK, Ids
<1> QED BY <1>1 DEF SubType

LEMMA PassesPreserves ==
    ASSUME IInv, Passes, now' \in Nat
    PROVE  LastIsIndexed'
<1>1. \A i \in Ids : subs[i].end \in Nat
    BY SubsTyped DEF IInv
<1>2. \A i \in Ids : ~Active(i) => ~Active(i)'
    BY SMTT(60), <1>1 DEF Active, Expired, Passes, IInv, TypeOK
<1>3. Ids' = Ids
    BY DEF Ids, Passes
<1> QED BY Zenon, <1>2, <1>3 DEF IInv, Passes, LastIsIndexed, index

LEMMA RevisesPreserves ==
    ASSUME IInv, NEW i \in Ids, Revises(i)
    PROVE  LastIsIndexed'
<1>1. PICK r \in SubType : /\ r.subscriber = subs[i].subscriber
                           /\ r.service = subs[i].service
                           /\ subs' = [subs EXCEPT ![i] = r]
    BY Zenon DEF Revises
<1>2. Len(subs') = Len(subs) /\ subs'[i] = r /\ \A j \in Ids : j # i => subs'[j] = subs[j]
    BY <1>1 DEF IInv, TypeOK, Ids
<1>3. \A j \in Ids : /\ subs'[j].subscriber = subs[j].subscriber
                     /\ subs'[j].service = subs[j].service
    BY <1>1, <1>2
<1>4. i = pair[subs[i].subscriber][subs[i].service]
    BY DEF Revises, IInv, LastIsIndexed
<1>5. \A j \in Ids : j # i => (Active(j)' <=> Active(j))
    BY <1>2 DEF Active, Expired, Revises, Ids
<1>6. Ids' = Ids /\ pair' = pair
    BY <1>2 DEF Ids, Revises, index
<1>7. SUFFICES ASSUME NEW j \in Ids'
               PROVE  LET p == pair'[subs'[j].subscriber][subs'[j].service]
                      IN  /\ p \in Ids'
                          /\ subs'[p].subscriber = subs'[j].subscriber
                          /\ subs'[p].service = subs'[j].service
                          /\ j # p => ~Active(j)'
    BY Zenon DEF LastIsIndexed
<1> DEFINE p == pair[subs[j].subscriber][subs[j].service]
<1>8. /\ p \in Ids /\ subs[p].subscriber = subs[j].subscriber
      /\ subs[p].service = subs[j].service /\ (j # p => ~Active(j))
    BY Zenon, <1>6 DEF IInv, LastIsIndexed
<1> QED BY Zenon, <1>3, <1>4, <1>5, <1>6, <1>8

\* Storing a subscription appends one record and keeps the others.
LEMMA Appended ==
    ASSUME NEW S, NEW seq \in Seq(S), NEW r \in S
    PROVE  /\ Len(seq) \in Nat
           /\ Len(Append(seq, r)) = Len(seq) + 1
           /\ Append(seq, r)[Len(seq) + 1] = r
           /\ \A j \in 1 .. Len(seq) : Append(seq, r)[j] = seq[j]
           /\ 1 .. (Len(seq) + 1) = (1 .. Len(seq)) \cup {Len(seq) + 1}
           /\ Len(seq) + 1 \notin 1 .. Len(seq)
<1>1. Len(seq) \in Nat
    OBVIOUS
<1>2. /\ Len(Append(seq, r)) = Len(seq) + 1
      /\ Append(seq, r)[Len(seq) + 1] = r
      /\ \A j \in 1 .. Len(seq) : Append(seq, r)[j] = seq[j]
    BY AppendProperties
<1>3. \A n \in Nat : 1 .. (n + 1) = (1 .. n) \cup {n + 1} /\ n + 1 \notin 1 .. n
    OBVIOUS
<1> QED BY <1>1, <1>2, <1>3

LEMMA StoreAppends ==
    ASSUME subs \in Seq(SubType), NEW r \in SubType, subs' = Append(subs, r)
    PROVE  LET n == Len(subs) + 1
           IN  /\ Len(subs') = n /\ subs'[n] = r /\ \A j \in Ids : subs'[j] = subs[j]
               /\ n \in Nat /\ Ids' = Ids \cup {n} /\ n \notin Ids
<1>1. /\ Len(subs) \in Nat
      /\ Len(Append(subs, r)) = Len(subs) + 1
      /\ Append(subs, r)[Len(subs) + 1] = r
      /\ \A j \in 1 .. Len(subs) : Append(subs, r)[j] = subs[j]
      /\ 1 .. (Len(subs) + 1) = (1 .. Len(subs)) \cup {Len(subs) + 1}
      /\ Len(subs) + 1 \notin 1 .. Len(subs)
    BY Zenon, Appended
<1>2. Len(subs) + 1 \in Nat
    BY <1>1
<1> QED BY Zenon, <1>1, <1>2 DEF Ids

LEMMA AddsPreserves ==
    ASSUME IInv, NEW s, NEW v, Adds(s, v)
    PROVE  LastIsIndexed'
<1> DEFINE n == Len(subs) + 1
<1>1. PICK r \in SubType : r.subscriber = s /\ r.service = v /\ Store(r)
    BY DEF Adds
<1>2. /\ Len(subs') = n /\ subs'[n] = r /\ \A j \in Ids : subs'[j] = subs[j]
      /\ n \in Nat /\ Ids' = Ids \cup {n} /\ n \notin Ids
    <2>1. subs \in Seq(SubType)
        BY DEF IInv, TypeOK
    <2>2. subs' = Append(subs, r)
        BY <1>1 DEF Store
    <2> QED BY Zenon, <2>1, <2>2, StoreAppends
<1>3. /\ pair'[s][v] = n
      /\ \A t \in Subscriber, w \in 1 .. MaxServices : <<t, w>> # <<s, v>> => pair'[t][w] = pair[t][w]
    BY Zenon, <1>1 DEF Store, IInv, TypeOK, Adds
<1>4. \A j \in Ids : /\ subs[j].subscriber \in Subscriber
                     /\ subs[j].service \in 1 .. MaxServices
    BY SubsTyped DEF IInv
<1>a. \A j \in Ids : Active(j)' <=> Active(j)
    BY <1>2 DEF Active, Expired, Adds
<1>5. \A j \in Ids : subs[j].subscriber = s /\ subs[j].service = v => ~Active(j)
    <2> SUFFICES ASSUME NEW j \in Ids, subs[j].subscriber = s, subs[j].service = v, Active(j)
                 PROVE  FALSE
        OBVIOUS
    <2>1. pair[s][v] = j
        BY Zenon DEF IInv, LastIsIndexed
    <2> QED BY <2>1 DEF Adds, Ids
<1>6. SUFFICES ASSUME NEW j \in Ids'
               PROVE  LET p == pair'[subs'[j].subscriber][subs'[j].service]
                      IN  /\ p \in Ids'
                          /\ subs'[p].subscriber = subs'[j].subscriber
                          /\ subs'[p].service = subs'[j].service
                          /\ j # p => ~Active(j)'
    BY Zenon DEF LastIsIndexed
<1>7. CASE j = n
    BY Zenon, <1>1, <1>2, <1>3, <1>7
<1>8. CASE j # n /\ subs[j].subscriber = s /\ subs[j].service = v
    BY Zenon, <1>1, <1>2, <1>3, <1>4, <1>5, <1>8, <1>a
<1>9. CASE j # n /\ ~(subs[j].subscriber = s /\ subs[j].service = v)
    <2> DEFINE p == pair[subs[j].subscriber][subs[j].service]
    <2>1. j \in Ids /\ subs'[j] = subs[j] /\ pair'[subs[j].subscriber][subs[j].service] = p
        BY Zenon, <1>2, <1>3, <1>4, <1>9
    <2>2. /\ p \in Ids /\ subs[p].subscriber = subs[j].subscriber
          /\ subs[p].service = subs[j].service /\ (j # p => ~Active(j))
        BY Zenon, <2>1 DEF IInv, LastIsIndexed
    <2> QED BY Zenon, <1>2, <1>4, <1>a, <2>1, <2>2
<1> QED BY Zenon, <1>7, <1>8, <1>9

-----------------------------------------------------------------------------
\* Approvals are amounts and ledgers.
LEMMA Product == \A a, b \in Nat : a * b \in Nat
OBVIOUS

LEMMA ExpirationTyped ==
    ASSUME now \in Nat, NEW v \in Terms, NEW periods \in Nat, NEW extra \in Nat
    PROVE  ExpirationLedger(v, periods, extra) \in Nat /\ v.price * periods \in Nat
<1> DEFINE secs == v.period * periods + extra
<1> DEFINE last == now + Lesser(secs, MaxTtl)
<1>1. v.price \in Nat /\ v.period \in Nat /\ MaxTtl \in Nat /\ Bucket \in Nat \ {0}
    BY SubscriptionAssumption
<1>2. v.price * periods \in Nat /\ v.period * periods \in Nat
    BY <1>1, Product
<1>3. last \in Nat
    BY <1>1, <1>2 DEF Lesser
<1> HIDE DEF last
<1>4. last \div Bucket \in Nat
    BY <1>1, <1>3
<1>5. (last \div Bucket) * Bucket \in Nat
    BY <1>1, <1>4, Product
<1> QED BY <1>2, <1>5 DEF ExpirationLedger, last

LEMMA ApproveTyped ==
    ASSUME TypeOK, NEW s \in Subscriber, NEW v \in Terms, NEW periods \in Nat, NEW extra \in Nat,
           DoApprove(s, v, periods, extra)
    PROVE  allowance' \in [Subscriber -> [amount : Nat, expires : Nat]]
<1>1. ExpirationLedger(v, periods, extra) \in Nat /\ v.price * periods \in Nat
    BY SMTT(60), ExpirationTyped DEF TypeOK
<1> QED BY <1>1 DEF DoApprove, Approve, TypeOK

\* A transfer that the balance covers.
LEMMA MoveTyped ==
    ASSUME balance \in [Party -> Nat], NEW s \in Subscriber, NEW q \in Merchant, NEW price \in Nat,
           balance[s] >= price, Move(s, q, price)
    PROVE  balance' \in [Party -> Nat]
<1>1. s # q /\ s \in Party /\ q \in Party
    BY SubscriptionAssumption DEF Party
<1>2. balance[s] - price \in Nat /\ balance[q] + price \in Nat
    BY <1>1
<1>3. balance' = [balance EXCEPT ![s] = balance[s] - price, ![q] = balance[q] + price]
    BY <1>1 DEF Move
<1> QED BY <1>1, <1>2, <1>3

\* What is assured to the subscriptions stays a number for each.
LEMMA VoidedTyped ==
    ASSUME TypeOK, NEW s, NEW i
    PROVE  Voided(s, i) \in Seq(Nat) /\ Len(Voided(s, i)) = Len(assured)
<1>1. Len(assured) \in Nat /\ \A j \in 1 .. Len(assured) : assured[j] \in Nat
    BY SMTT(60) DEF TypeOK
<1>2. \A j \in 1 .. Len(assured) : (IF subs[j].subscriber = s /\ j # i THEN 0 ELSE assured[j]) \in Nat
    BY <1>1
<1> QED BY SMTT(60), <1>1, <1>2 DEF Voided

\* The storage after a new subscription.
LEMMA StoreTyped ==
    ASSUME TypeOK, NEW r \in SubType, Store(r), page = <<>>,
           NEW a \in Nat, NEW b \in Nat, NEW e \in Seq(Nat), Len(e) = Len(assured),
           paid' = Append(paid, a), assured' = Append(e, b)
    PROVE  /\ subs' \in Seq(SubType)
           /\ pair' \in [Subscriber -> [1 .. MaxServices -> {0} \cup Ids']]
           /\ serviceSubs' \in [1 .. MaxServices -> Seq(Ids')]
           /\ page \in Seq(Ids')
           /\ paid' \in Seq(Nat) /\ Len(paid') = Len(subs')
           /\ assured' \in Seq(Nat) /\ Len(assured') = Len(subs')
<1> DEFINE n == Len(subs) + 1
<1>1. /\ subs' \in Seq(SubType) /\ Len(subs') = n /\ n \in Nat
      /\ Ids' = 1 .. n /\ Ids \subseteq Ids' /\ n \in Ids'
    BY SMTT(60) DEF Store, TypeOK, Ids
<1>2. r.subscriber \in Subscriber /\ r.service \in 1 .. MaxServices
    BY DEF SubType
<1>3. pair' \in [Subscriber -> [1 .. MaxServices -> {0} \cup Ids']]
    <2>1. pair' = [pair EXCEPT ![r.subscriber][r.service] = n]
        BY DEF Store
    <2>2. \A s \in Subscriber : pair[s] \in [1 .. MaxServices -> {0} \cup Ids']
        BY Zenon, <1>1 DEF TypeOK
    <2>3. [pair[r.subscriber] EXCEPT ![r.service] = n] \in [1 .. MaxServices -> {0} \cup Ids']
        BY SMTT(60), <1>1, <1>2, <2>2
    <2> QED BY SMTT(60), <1>2, <2>1, <2>2, <2>3 DEF TypeOK
<1>4. ASSUME NEW q \in Seq(Ids)
      PROVE  q \in Seq(Ids') /\ Append(q, n) \in Seq(Ids')
    <2>0. \A k \in 1 .. Len(q) : q[k] \in Ids
        BY <1>4
    <2>1. \A k \in 1 .. Len(q) : q[k] \in Ids'
        BY Zenon, <1>1, <2>0
    <2>2. q \in Seq(Ids')
        BY SMTT(60), <1>4, <2>1
    <2> QED BY <1>1, <2>2
<1>5. serviceSubs' \in [1 .. MaxServices -> Seq(Ids')]
    BY SMTT(60), <1>2, <1>4 DEF Store, TypeOK
<1> QED BY SMTT(60), <1>1, <1>3, <1>5 DEF TypeOK

\* The storage after a change to one subscription.
LEMMA ReviseTyped ==
    ASSUME TypeOK, NEW i \in Ids, NEW r \in SubType, subs' = [subs EXCEPT ![i] = r]
    PROVE  subs' \in Seq(SubType) /\ Len(subs') = Len(subs) /\ Ids' = Ids
BY DEF TypeOK, Ids

-----------------------------------------------------------------------------
\* Each call, as one of the three kinds.
LEMMA RegisterServiceStep ==
    ASSUME IInv, RegisterService
    PROVE  TypeOK' /\ Passes
BY SMTT(60), SubscriptionAssumption DEF IInv, TypeOK, RegisterService, Passes, index, token, history, Ids

LEMMA CloseStep ==
    ASSUME IInv, Close
    PROVE  TypeOK' /\ Passes
BY DEF IInv, TypeOK, Close, Passes, index, token, history, Ids

LEMMA ProcessStep ==
    ASSUME IInv, Process
    PROVE  TypeOK' /\ Passes
<1>1. PICK v \in 1 .. Len(services), offset \in 0 .. MaxSubs, limit \in 1 .. MaxSubs :
        page' = SubSeq(serviceSubs[v], offset + 1, Lesser(offset + limit, Len(serviceSubs[v])))
    BY Zenon DEF Process
<1> DEFINE q == serviceSubs[v]
<1>2. q \in Seq(Ids) /\ offset \in Nat /\ limit \in Nat /\ MaxSubs \in Nat
    <2>1. MaxSubs \in Nat /\ MaxServices \in Nat
        BY SubscriptionAssumption
    <2>2. v \in 1 .. MaxServices
        BY <2>1 DEF IInv, TypeOK
    <2> QED BY <2>1, <2>2 DEF IInv, TypeOK
<1> HIDE DEF q
<1>3. /\ offset + 1 \in 1 .. (Len(q) + 1) \/ Lesser(offset + limit, Len(q)) < offset + 1
      /\ Lesser(offset + limit, Len(q)) \in 0 .. Len(q)
    BY <1>2 DEF Lesser
<1>4. SubSeq(q, offset + 1, Lesser(offset + limit, Len(q))) \in Seq(Ids)
    BY <1>2, <1>3
<1>5. page' \in Seq(Ids)
    BY <1>1, <1>4 DEF q
<1>6. UNCHANGED <<now, token, services, subs, index, history>>
    BY DEF Process
<1> QED BY SMTT(60), <1>5, <1>6 DEF IInv, TypeOK, Passes, index, token, history, Ids

LEMMA SubscribeStep ==
    ASSUME IInv, page = <<>>, Subscribe
    PROVE  TypeOK' /\ \E s \in Subscriber, v \in 1 .. MaxServices : Adds(s, v)
<1>1. PICK s \in Subscriber, v \in 1 .. Len(services), autoRenew \in BOOLEAN :
        SubscribeTrial(s, v, autoRenew) \/ SubscribePaid(s, v, autoRenew)
    BY DEF Subscribe
<1> DEFINE service == services[v]
<1>2. /\ service \in Terms /\ v \in 1 .. MaxServices
      /\ service.price \in Nat /\ service.period \in Nat /\ service.trial \in Nat
      /\ service.approve \in Nat \ {0} /\ service.merchant \in Merchant
    <2>1. service \in Terms
        BY DEF IInv, TypeOK
    <2>2. v \in 1 .. MaxServices
        BY SMTT(60), SubscriptionAssumption DEF IInv, TypeOK
    <2> QED BY SMTT(60), <2>1, <2>2, SubscriptionAssumption
<1>3. now \in Nat /\ balance \in [Party -> Nat]
    BY DEF IInv, TypeOK
<1>4. ASSUME MaySubscribe(s, v, autoRenew) PROVE pair[s][v] # 0 => ~Active(pair[s][v])
    BY <1>4 DEF MaySubscribe
<1>5. CASE SubscribeTrial(s, v, autoRenew)
    <2> DEFINE r == NewSub(s, v, autoRenew, service.trial, now + service.trial)
    <2>1. r \in SubType /\ r.subscriber = s /\ r.service = v
        BY SMTT(60), <1>2, <1>3 DEF NewSub, SubType
    <2>2. /\ Store(r) /\ paid' = Append(paid, 0) /\ MaySubscribe(s, v, autoRenew)
          /\ UNCHANGED <<now, balance, services, page>>
        BY <1>5 DEF SubscribeTrial
    <2>a. PICK e \in Seq(Nat), b \in Nat : Len(e) = Len(assured) /\ assured' = Append(e, b)
        <3>1. CASE autoRenew
            <4>1. PICK b \in {0, service.approve} : assured' = Append(Voided(s, 0), b)
                BY <1>5, <3>1 DEF SubscribeTrial
            <4> QED BY SMTT(60), <1>2, <4>1, VoidedTyped DEF IInv
        <3>2. CASE ~autoRenew
            <4>1. assured' = Append(assured, 0)
                BY Zenon, <1>5, <3>2 DEF SubscribeTrial
            <4>2. assured \in Seq(Nat)
                BY Zenon DEF IInv, TypeOK
            <4> QED BY Zenon, <4>1, <4>2, 0 \in Nat
        <3> QED BY <3>1, <3>2
    <2> HIDE DEF r
    <2>3. allowance' \in [Subscriber -> [amount : Nat, expires : Nat]]
        BY Zenon, <1>2, <1>5, ApproveTyped DEF SubscribeTrial, IInv, TypeOK
    <2>4. Adds(s, v)
        BY SMTT(60), <1>2, <1>4, <2>1, <2>2 DEF Adds
    <2>5. TypeOK'
        BY Zenon, <2>1, <2>2, <2>a, <2>3, StoreTyped DEF TypeOK, IInv
    <2> QED BY <1>2, <2>4, <2>5
<1>6. CASE SubscribePaid(s, v, autoRenew)
    <2> DEFINE r == NewSub(s, v, autoRenew, 0, now + service.period)
    <2> DEFINE b == IF autoRenew THEN service.approve ELSE 1
    <2>1. r \in SubType /\ r.subscriber = s /\ r.service = v /\ b \in Nat /\ b - 1 \in Nat
        BY SMTT(60), <1>2, <1>3 DEF NewSub, SubType
    <2>a. PICK e \in Seq(Nat), c \in Nat : Len(e) = Len(assured) /\ assured' = Append(e, c)
        <3>1. PICK c \in {0, b - 1} : assured' = Append(Voided(s, 0), c)
            BY <1>6 DEF SubscribePaid
        <3> QED BY SMTT(60), <2>1, <3>1, VoidedTyped DEF IInv
    <2>2. /\ Store(r) /\ paid' = Append(paid, 1)
          /\ MaySubscribe(s, v, autoRenew)
          /\ DoApprove(s, service, b, 0)
          /\ balance[s] >= service.price /\ Move(s, service.merchant, service.price)
          /\ UNCHANGED <<now, services, page>>
        BY <1>6 DEF SubscribePaid
    <2> HIDE DEF r, b
    <2>3. allowance' \in [Subscriber -> [amount : Nat, expires : Nat]]
        BY SMTT(60), <1>2, <2>1, <2>2, ApproveTyped DEF IInv
    <2>4. balance' \in [Party -> Nat]
        BY SMTT(60), <1>2, <1>3, <2>2, MoveTyped
    <2>5. Adds(s, v)
        BY SMTT(60), <1>2, <1>4, <2>1, <2>2 DEF Adds
    <2>6. TypeOK'
        BY Zenon, <2>1, <2>2, <2>a, <2>3, <2>4, StoreTyped DEF TypeOK, IInv
    <2> QED BY <1>2, <2>5, <2>6
<1> QED BY <1>1, <1>5, <1>6

LEMMA CancelStep ==
    ASSUME IInv, NEW i \in Ids, Cancel(i)
    PROVE  TypeOK' /\ Revises(i)
<1> DEFINE r == [subs[i] EXCEPT !.autoRenew = FALSE]
<1>1. /\ r \in SubType /\ r.subscriber = subs[i].subscriber /\ r.service = subs[i].service
      /\ subs' = [subs EXCEPT ![i] = r]
    BY Zenon, SubsTyped DEF Cancel, SubType, IInv
<1> HIDE DEF r
<1>2. UNCHANGED <<now, token, services, index, page, history>> /\ Active(i)
    BY DEF Cancel, Active
<1>3. Revises(i)
    BY Zenon, <1>1, <1>2 DEF Revises, history
<1>4. TypeOK'
    BY Zenon, <1>1, <1>2, ReviseTyped DEF TypeOK, IInv, token, index, history
<1> QED BY <1>3, <1>4

LEMMA ReapproveTyped ==
    ASSUME TypeOK, ServicesKnown, NEW i \in Ids, Reapprove(i)
    PROVE  /\ allowance' \in [Subscriber -> [amount : Nat, expires : Nat]]
           /\ assured' \in Seq(Nat) /\ Len(assured') = Len(assured)
<1> DEFINE service == services[subs[i].service]
<1>1. service \in Terms /\ service.approve \in Nat /\ service.approve - 1 \in Nat
    <2>1. service \in Terms
        BY SMTT(60) DEF TypeOK, ServicesKnown
    <2> QED BY <2>1, SubscriptionAssumption
<1>2. DoApprove(subs[i].subscriber, service, service.approve, 0)
    BY DEF Reapprove
<1>a. PICK n \in {0, service.approve - 1} : assured' = [Voided(subs[i].subscriber, i) EXCEPT ![i] = n]
    BY DEF Reapprove
<1> HIDE DEF service
<1>3. allowance' \in [Subscriber -> [amount : Nat, expires : Nat]]
    BY <1>1, <1>2, ApproveTyped, SubsTyped
<1>4. i \in 1 .. Len(assured)
    BY DEF TypeOK, Ids
<1>5. assured' \in Seq(Nat) /\ Len(assured') = Len(assured)
    BY <1>1, <1>a, <1>4, VoidedTyped
<1> QED BY <1>3, <1>5

LEMMA ToggleStep ==
    ASSUME IInv, NEW i \in Ids, ToggleAutoRenew(i)
    PROVE  TypeOK' /\ Revises(i)
<1> DEFINE r == [subs[i] EXCEPT !.autoRenew = ~subs[i].autoRenew]
<1>1. /\ r \in SubType /\ r.subscriber = subs[i].subscriber /\ r.service = subs[i].service
      /\ subs' = [subs EXCEPT ![i] = r]
    BY Zenon, SubsTyped DEF ToggleAutoRenew, SubType, IInv
<1> HIDE DEF r
<1>2. UNCHANGED <<now, balance, services, index, page, paid>> /\ Active(i)
    BY DEF ToggleAutoRenew
<1>3. /\ allowance' \in [Subscriber -> [amount : Nat, expires : Nat]]
      /\ assured' \in Seq(Nat) /\ Len(assured') = Len(assured)
    BY SMTT(60), ReapproveTyped DEF ToggleAutoRenew, IInv, TypeOK
<1>4. Revises(i)
    BY Zenon, <1>1, <1>2 DEF Revises
<1>5. TypeOK'
    BY Zenon, <1>1, <1>2, <1>3, ReviseTyped DEF TypeOK, IInv, index
<1> QED BY <1>4, <1>5

LEMMA ExtendStep ==
    ASSUME IInv, NEW i \in Ids, ExtendSubscription(i)
    PROVE  TypeOK' /\ Revises(i)
<1> DEFINE r == [subs[i] EXCEPT !.autoRenew = TRUE]
<1>1. /\ r \in SubType /\ r.subscriber = subs[i].subscriber /\ r.service = subs[i].service
      /\ subs' = [subs EXCEPT ![i] = r]
    BY Zenon, SubsTyped DEF ExtendSubscription, SubType, IInv
<1> HIDE DEF r
<1>2. UNCHANGED <<now, balance, services, index, page, paid>> /\ Active(i)
    BY DEF ExtendSubscription, Active
<1>3. /\ allowance' \in [Subscriber -> [amount : Nat, expires : Nat]]
      /\ assured' \in Seq(Nat) /\ Len(assured') = Len(assured)
    BY ReapproveTyped DEF ExtendSubscription, IInv
<1>4. Revises(i)
    BY Zenon, <1>1, <1>2 DEF Revises
<1>5. TypeOK'
    BY Zenon, <1>1, <1>2, <1>3, ReviseTyped DEF TypeOK, IInv, index
<1> QED BY <1>4, <1>5

\* What a charge makes of the subscription.
LEMMA AdvancedTyped ==
    ASSUME TypeOK, NEW i \in Ids
    PROVE  \E r \in SubType : /\ r.subscriber = subs[i].subscriber
                              /\ r.service = subs[i].service
                              /\ Advanced(i) = [subs EXCEPT ![i] = r]
<1> DEFINE next == subs[i].nextCharge + subs[i].period
<1>1. subs[i] \in SubType /\ next \in Nat
    BY SubsTyped DEF SubType
<1>2. CASE next > MaxTs
    <2> DEFINE r == [subs[i] EXCEPT !.autoRenew = FALSE]
    <2>1. r \in SubType /\ r.subscriber = subs[i].subscriber /\ r.service = subs[i].service
        BY Zenon, <1>1 DEF SubType
    <2>2. Advanced(i) = [subs EXCEPT ![i] = r]
        BY <1>2 DEF Advanced
    <2> QED BY Zenon, <2>1, <2>2
<1>3. CASE ~(next > MaxTs)
    <2> DEFINE r == [subs[i] EXCEPT !.nextCharge = next, !.end = next]
    <2>1. r \in SubType /\ r.subscriber = subs[i].subscriber /\ r.service = subs[i].service
        BY Zenon, <1>1 DEF SubType
    <2>2. Advanced(i) = [subs EXCEPT ![i] = r]
        BY Zenon, <1>3 DEF Advanced, TypeOK, Ids
    <2> QED BY Zenon, <2>1, <2>2
<1> QED BY <1>2, <1>3

LEMMA ChargeTyped ==
    ASSUME IInv, NEW i \in Ids, Charge(i)
    PROVE  /\ balance' \in [Party -> Nat]
           /\ allowance' \in [Subscriber -> [amount : Nat, expires : Nat]]
           /\ paid' \in Seq(Nat) /\ Len(paid') = Len(paid)
           /\ \A j \in Ids : j # i => paid'[j] = paid[j]
           /\ assured' \in Seq(Nat) /\ Len(assured') = Len(assured)
<1> DEFINE s == subs[i].subscriber
<1> DEFINE q == services[subs[i].service].merchant
<1> DEFINE price == subs[i].price
<1>1. s \in Subscriber /\ price \in Nat
    BY SubsTyped DEF IInv, SubType
<1>2. q \in Merchant
    <2>1. services[subs[i].service] \in Terms
        BY SMTT(60) DEF IInv, TypeOK, ServicesKnown
    <2> QED BY <2>1, SubscriptionAssumption
<1>3. /\ allowance[s].amount >= price /\ balance[s] >= price /\ Move(s, q, price)
      /\ allowance' = [allowance EXCEPT ![s].amount = @ - price]
      /\ paid' = [paid EXCEPT ![i] = @ + 1]
      /\ assured' = [Voided(s, i) EXCEPT ![i] = IF @ = 0 THEN 0 ELSE @ - 1]
    BY DEF Charge, CanTransferFrom
<1>4. /\ balance \in [Party -> Nat] /\ allowance \in [Subscriber -> [amount : Nat, expires : Nat]]
      /\ paid \in Seq(Nat) /\ assured \in Seq(Nat)
      /\ Ids = 1 .. Len(paid) /\ Ids = 1 .. Len(assured)
    BY SMTT(60) DEF IInv, TypeOK, Ids
<1> HIDE DEF s, q, price
<1>5. balance' \in [Party -> Nat]
    BY SMTT(60), <1>1, <1>2, <1>3, <1>4, MoveTyped
<1>6. allowance' \in [Subscriber -> [amount : Nat, expires : Nat]]
    <2> DEFINE rest == [allowance[s] EXCEPT !.amount = allowance[s].amount - price]
    <2>0. allowance[s] \in [amount : Nat, expires : Nat] /\ allowance[s].amount - price \in Nat
        BY SMTT(60), <1>1, <1>3, <1>4
    <2>1. rest \in [amount : Nat, expires : Nat]
        BY <2>0
    <2>2. allowance' = [allowance EXCEPT ![s] = rest]
        BY <1>3
    <2> QED BY Zenon, <1>4, <2>1, <2>2
<1>7. paid' \in Seq(Nat) /\ Len(paid') = Len(paid) /\ \A j \in Ids : j # i => paid'[j] = paid[j]
    BY SMTT(60), <1>3, <1>4
<1>8. assured' \in Seq(Nat) /\ Len(assured') = Len(assured)
    BY SMTT(60), <1>3, <1>4, VoidedTyped DEF IInv
<1> QED BY <1>5, <1>6, <1>7, <1>8

LEMMA ProcessOneStep ==
    ASSUME IInv, ProcessOne
    PROVE  TypeOK' /\ (Passes \/ \E i \in Ids : Revises(i))
<1> DEFINE i == Head(page)
<1>1. i \in Ids /\ page' \in Seq(Ids) /\ UNCHANGED <<now, services, index>>
    BY DEF ProcessOne, IInv, TypeOK
<1>2. Skip(i) \/ Charge(i) \/ ChargeFails(i)
    BY DEF ProcessOne
<1> HIDE DEF i
<1>3. CASE Skip(i)
    BY SMTT(60), <1>1, <1>3 DEF Skip, Passes, IInv, TypeOK, token, history, index, Ids
<1>4. CASE Charge(i)
    <2>1. PICK r \in SubType : /\ r.subscriber = subs[i].subscriber
                               /\ r.service = subs[i].service
                               /\ subs' = [subs EXCEPT ![i] = r]
        BY SMTT(60), <1>1, <1>4, AdvancedTyped DEF Charge, IInv
    <2>2. Revises(i)
        BY Zenon, <1>1, <1>4, <2>1, ChargeTyped DEF Revises, Charge, Due, Active
    <2>3. TypeOK'
        BY Zenon, <1>1, <1>4, <2>1, ChargeTyped, ReviseTyped DEF TypeOK, IInv, index
    <2> QED BY <1>1, <2>2, <2>3
<1>5. CASE ChargeFails(i)
    <2> DEFINE r == [subs[i] EXCEPT !.autoRenew = FALSE]
    <2>1. /\ r \in SubType /\ r.subscriber = subs[i].subscriber /\ r.service = subs[i].service
          /\ subs' = [subs EXCEPT ![i] = r]
        BY Zenon, <1>1, <1>5, SubsTyped DEF ChargeFails, SubType, IInv
    <2> HIDE DEF r
    <2>2. UNCHANGED <<token, history>> /\ Active(i)
        BY <1>5 DEF ChargeFails, Due, Active
    <2>3. Revises(i)
        BY Zenon, <1>1, <2>1, <2>2 DEF Revises, history
    <2>4. TypeOK'
        BY Zenon, <1>1, <2>1, <2>2, ReviseTyped DEF TypeOK, IInv, token, index, history
    <2> QED BY <1>1, <2>3, <2>4
<1> QED BY <1>2, <1>3, <1>4, <1>5

\* Every step of the contract is of one of the three kinds.
LEMMA StepKinds ==
    ASSUME IInv, [Next]_vars
    PROVE  /\ TypeOK'
           /\ \/ Passes
              \/ \E i \in Ids : Revises(i)
              \/ \E s \in Subscriber, v \in 1 .. MaxServices : Adds(s, v)
<1>1. CASE Invoke /\ page = <<>>
    <2>1. CASE RegisterService BY <2>1, RegisterServiceStep
    <2>2. CASE Subscribe BY <1>1, <2>2, SubscribeStep
    <2>3. CASE Process BY <2>3, ProcessStep
    <2>4. CASE Close BY <2>4, CloseStep
    <2>5. CASE \E i \in Ids : Cancel(i) BY <2>5, CancelStep
    <2>6. CASE \E i \in Ids : ToggleAutoRenew(i) BY <2>6, ToggleStep
    <2>7. CASE \E i \in Ids : ExtendSubscription(i) BY <2>7, ExtendStep
    <2> QED BY <1>1, <2>1, <2>2, <2>3, <2>4, <2>5, <2>6, <2>7 DEF Invoke
<1>2. CASE ProcessOne
    BY <1>2, ProcessOneStep
<1>3. CASE UNCHANGED vars
    BY <1>3 DEF vars, Passes, IInv, TypeOK, token, history, index, Ids
<1> QED BY <1>1, <1>2, <1>3 DEF Next, Invoke

LEMMA ServicesKnownPreserved ==
    ASSUME IInv, Passes \/ (\E i \in Ids : Revises(i)) \/ \E s \in Subscriber, v \in 1 .. MaxServices : Adds(s, v),
           TypeOK'
    PROVE  ServicesKnown'
<1>0. services \in Seq(Terms) /\ services' \in Seq(Terms)
    BY DEF IInv, TypeOK
<1>1. CASE Passes
    BY <1>0, <1>1 DEF Passes, IInv, ServicesKnown, Ids
<1>2. ASSUME NEW i \in Ids, Revises(i) PROVE ServicesKnown'
    <2>1. PICK r \in SubType : r.service = subs[i].service /\ subs' = [subs EXCEPT ![i] = r]
        BY Zenon, <1>2 DEF Revises
    <2>a. subs \in Seq(SubType)
        BY DEF IInv, TypeOK
    <2>b. Len(subs') = Len(subs) /\ \A j \in 1 .. Len(subs) : subs'[j] = IF j = i THEN r ELSE subs[j]
        BY <2>a, <2>1
    <2>2. Ids' = Ids /\ \A j \in Ids : subs'[j].service = subs[j].service
        BY <2>1, <2>b DEF Ids
    <2> QED BY <1>2, <2>2 DEF Revises, IInv, ServicesKnown
<1>3. ASSUME NEW s \in Subscriber, NEW v \in 1 .. MaxServices, Adds(s, v) PROVE ServicesKnown'
    <2>1. PICK r \in SubType : r.service = v /\ subs' = Append(subs, r)
        BY SMTT(60), <1>3 DEF Adds, Store
    <2>a. subs \in Seq(SubType)
        BY DEF IInv, TypeOK
    <2>2. \A j \in Ids' : \/ j \in Ids /\ subs'[j] = subs[j]
                          \/ subs'[j] = r
        BY Zenon, <2>1, <2>a, StoreAppends
    <2> QED BY Zenon, <1>3, <2>1, <2>2 DEF Adds, IInv, ServicesKnown
<1> QED BY <1>1, <1>2, <1>3

\* A subscription that is not active is left alone by every kind of step.
LEMMA EndedStep ==
    ASSUME IInv, Passes \/ (\E i \in Ids : Revises(i)) \/ \E s \in Subscriber, v \in 1 .. MaxServices : Adds(s, v),
           NEW j \in Ids, ~Active(j)
    PROVE  subs'[j] = subs[j] /\ paid'[j] = paid[j]
<1>1. CASE Passes
    BY <1>1 DEF Passes
<1>2. ASSUME NEW i \in Ids, Revises(i) PROVE subs'[j] = subs[j] /\ paid'[j] = paid[j]
    <2>1. i # j
        BY <1>2 DEF Revises
    <2>2. subs \in Seq(SubType)
        BY DEF IInv, TypeOK
    <2>3. PICK r \in SubType : subs' = [subs EXCEPT ![i] = r]
        BY Zenon, <1>2 DEF Revises
    <2>4. subs'[j] = subs[j]
        BY <2>1, <2>2, <2>3 DEF Ids
    <2> QED BY Zenon, <1>2, <2>1, <2>4 DEF Revises
<1>3. ASSUME NEW s \in Subscriber, NEW v \in 1 .. MaxServices, Adds(s, v)
      PROVE  subs'[j] = subs[j] /\ paid'[j] = paid[j]
    BY <1>3 DEF Adds, Store, IInv, TypeOK, Ids
<1> QED BY <1>1, <1>2, <1>3

\* The invariant is preserved by every step.
LEMMA StepPreserves == IInv /\ [Next]_vars => IInv'
<1> SUFFICES ASSUME IInv, [Next]_vars PROVE IInv'
    OBVIOUS
<1>1. /\ TypeOK'
      /\ Passes \/ (\E i \in Ids : Revises(i)) \/ \E s \in Subscriber, v \in 1 .. MaxServices : Adds(s, v)
    BY StepKinds
<1>2. ServicesKnown'
    BY <1>1, ServicesKnownPreserved
<1>3. now' \in Nat
    BY <1>1 DEF TypeOK
<1>4. LastIsIndexed'
    BY <1>1, <1>3, PassesPreserves, RevisesPreserves, AddsPreserves
<1> QED BY <1>1, <1>2, <1>4 DEF IInv

-----------------------------------------------------------------------------
\* The inductive invariant holds in every reachable state.
THEOREM Invariance == Spec => []IInv
<1>1. Init => IInv
    BY InitialState
<1>2. IInv /\ [Next]_vars => IInv'
    BY StepPreserves
<1> QED BY <1>1, <1>2, PTL DEF Spec

\* The storage of the contract always has its types.
THEOREM StorageTyped == Spec => []TypeOK
<1>1. IInv => TypeOK
    BY DEF IInv
<1> QED BY <1>1, Invariance, PTL

\* Deduplication: no subscriber ever holds two active subscriptions to a service,
\* and is_subscription_active is right although it looks at one of them only.
THEOREM Deduplication == Spec => []LastDecides
<1>1. IInv => LastDecides
    BY InvariantSuffices DEF LastDecides
<1> QED BY <1>1, Invariance, PTL

\* A subscription that has ended and is not renewed is never changed or charged.
THEOREM EndedForever == Spec => EndedIsFinal
<1>1. IInv /\ [Next]_vars => [\A i \in Ids : ~Active(i) => subs'[i] = subs[i] /\ paid'[i] = paid[i]]_vars
    BY StepKinds, EndedStep
<1> QED BY <1>1, Invariance, PTL DEF Spec, EndedIsFinal

-----------------------------------------------------------------------------
\* What a subscription r has been paid for is what it runs, and it does not run
\* further ahead of the ledger t than one period or its trial.
RunsAsPaid(r, payments, t) ==
    /\ r.end + r.period <= MaxTs => r.end = r.created + r.trial + payments * r.period
    /\ r.nextCharge = r.end
    /\ r.end <= t + (IF r.trial > r.period THEN r.trial ELSE r.period)

\* Two states of a subscription that differ at most in its renewal.
SameRun(r, q) ==
    /\ r.end = q.end /\ r.nextCharge = q.nextCharge /\ r.period = q.period
    /\ r.created = q.created /\ r.trial = q.trial

AllRunAsPaid == \A i \in Ids : RunsAsPaid(subs[i], paid[i], now)

LEMMA RunsMeaning == AllRunAsPaid <=> PaidIsServed /\ NeverAhead
BY DEF AllRunAsPaid, RunsAsPaid, PaidIsServed, NeverAhead

\* A call that neither charges nor subscribes.
LEMMA KeptRuns ==
    ASSUME TypeOK, AllRunAsPaid, Ids' = Ids, paid' = paid, now' \in Nat, now' >= now,
           \A j \in Ids : SameRun(subs'[j], subs[j])
    PROVE  AllRunAsPaid'
<1> SUFFICES ASSUME NEW j \in Ids PROVE RunsAsPaid(subs'[j], paid'[j], now')
    BY Zenon DEF AllRunAsPaid
<1>1. subs[j].end \in Nat /\ subs[j].period \in Nat /\ subs[j].trial \in Nat /\ now \in Nat
    BY Zenon, SubsTyped DEF SubType, TypeOK
<1>2. RunsAsPaid(subs[j], paid[j], now) /\ SameRun(subs'[j], subs[j])
    BY DEF AllRunAsPaid
<1> QED BY <1>1, <1>2 DEF RunsAsPaid, SameRun

\* Replacing one subscription keeps the others.
LEMMA SubReplaced ==
    ASSUME TypeOK, NEW i \in Ids, NEW r \in SubType, subs' = [subs EXCEPT ![i] = r]
    PROVE  Ids' = Ids /\ subs'[i] = r /\ \A j \in Ids : j # i => subs'[j] = subs[j]
<1>1. subs \in Seq(SubType)
    BY Zenon DEF TypeOK
<1>2. i \in 1 .. Len(subs)
    BY Zenon DEF Ids
<1>3. /\ Len([subs EXCEPT ![i] = r]) = Len(subs)
      /\ [subs EXCEPT ![i] = r][i] = r
      /\ \A j \in 1 .. Len(subs) : j # i => [subs EXCEPT ![i] = r][j] = subs[j]
    BY <1>1, <1>2
<1>4. Len(subs') = Len(subs) /\ subs'[i] = r /\ \A j \in 1 .. Len(subs) : j # i => subs'[j] = subs[j]
    BY Zenon, <1>3
<1> QED BY Zenon, <1>4 DEF Ids

\* A change of the renewal of one subscription.
LEMMA RenewalKeepsRuns ==
    ASSUME TypeOK, AllRunAsPaid, NEW i \in Ids, NEW b \in BOOLEAN,
           subs' = [subs EXCEPT ![i].autoRenew = b], paid' = paid, now' = now
    PROVE  AllRunAsPaid'
<1> DEFINE r == [subs[i] EXCEPT !.autoRenew = b]
<1>1. subs[i] \in SubType /\ now \in Nat
    BY SubsTyped DEF TypeOK
<1>2. r \in SubType /\ SameRun(r, subs[i])
    BY Zenon, <1>1 DEF SubType, SameRun
<1>3. subs' = [subs EXCEPT ![i] = r]
    OBVIOUS
<1> HIDE DEF r
<1>4. Ids' = Ids /\ subs'[i] = r /\ \A j \in Ids : j # i => subs'[j] = subs[j]
    BY Zenon, <1>2, <1>3, SubReplaced
<1>5. \A j \in Ids : SameRun(subs'[j], subs[j])
    BY Zenon, <1>2, <1>4 DEF SameRun
<1>6. now' \in Nat /\ now' >= now
    BY <1>1
<1> QED BY <1>4, <1>5, <1>6, KeptRuns

\* One more payment is one more period.
LEMMA OneMore == \A n, p \in Nat : (n + 1) * p = n * p + p
OBVIOUS

\* A charge of a subscription that is due buys the period that starts when the last
\* one ends, unless that period would end beyond the largest timestamp.
LEMMA ChargedRun ==
    ASSUME NEW r \in SubType, NEW q \in SubType, NEW n \in Nat, NEW t \in Nat, RunsAsPaid(r, n, t),
           t >= r.nextCharge,
           q.created = r.created, q.trial = r.trial, q.period = r.period,
           \/ r.nextCharge + r.period > MaxTs /\ q.end = r.end /\ q.nextCharge = r.nextCharge
           \/ /\ ~(r.nextCharge + r.period > MaxTs)
              /\ q.end = r.nextCharge + r.period /\ q.nextCharge = q.end
    PROVE  RunsAsPaid(q, n + 1, t)
<1> DEFINE e == r.end
<1> DEFINE p == r.period
<1> DEFINE start == r.created + r.trial
<1>1. e \in Nat /\ p \in Nat /\ r.created \in Nat /\ r.trial \in Nat /\ MaxTs \in Nat
    BY SubscriptionAssumption DEF SubType
<1>2. /\ e + p <= MaxTs => e = start + n * p
      /\ r.nextCharge = e
      /\ e <= t + (IF r.trial > p THEN r.trial ELSE p)
    BY DEF RunsAsPaid
<1>3. (n + 1) * p = n * p + p /\ n * p \in Nat /\ (n + 1) * p \in Nat /\ start \in Nat
    BY <1>1, OneMore, Product
<1>4. CASE e + p > MaxTs /\ q.end = e /\ q.nextCharge = e
    BY <1>1, <1>2, <1>4 DEF RunsAsPaid
<1>5. CASE ~(e + p > MaxTs) /\ q.end = e + p /\ q.nextCharge = q.end
    <2> DEFINE m == n * p
    <2> DEFINE m1 == (n + 1) * p
    <2>1. m \in Nat /\ m1 \in Nat /\ m1 = m + p /\ e = start + m
        BY <1>1, <1>2, <1>3, <1>5
    <2> HIDE DEF m, m1, start
    <2>2. q.end = start + m1
        BY <1>1, <1>3, <1>5, <2>1
    <2>3. q.end <= t + (IF r.trial > p THEN r.trial ELSE p)
        BY <1>1, <1>2, <1>5
    <2> QED BY Zenon, <1>5, <2>2, <2>3 DEF RunsAsPaid, m1, start
<1> QED BY <1>2, <1>4, <1>5

LEMMA ChargeKeepsRuns ==
    ASSUME IInv, AllRunAsPaid, NEW i \in Ids, Charge(i), now' = now
    PROVE  AllRunAsPaid'
<1> DEFINE next == subs[i].nextCharge + subs[i].period
<1>1. TypeOK /\ subs[i] \in SubType /\ next \in Nat
    BY SubsTyped DEF SubType, IInv
<1>2. \E q \in SubType :
        /\ subs' = [subs EXCEPT ![i] = q]
        /\ q.created = subs[i].created /\ q.trial = subs[i].trial /\ q.period = subs[i].period
        /\ \/ next > MaxTs /\ q.end = subs[i].end /\ q.nextCharge = subs[i].nextCharge
           \/ ~(next > MaxTs) /\ q.end = next /\ q.nextCharge = q.end
    <2>0. subs' = Advanced(i)
        BY DEF Charge
    <2>1. CASE next > MaxTs
        <3> DEFINE q == [subs[i] EXCEPT !.autoRenew = FALSE]
        <3>1. /\ q \in SubType /\ q.created = subs[i].created /\ q.trial = subs[i].trial
              /\ q.period = subs[i].period /\ q.end = subs[i].end /\ q.nextCharge = subs[i].nextCharge
            BY Zenon, <1>1 DEF SubType
        <3>2. subs' = [subs EXCEPT ![i] = q]
            BY <2>0, <2>1 DEF Advanced
        <3> QED BY Zenon, <2>1, <3>1, <3>2
    <2>2. CASE ~(next > MaxTs)
        <3> DEFINE q == [subs[i] EXCEPT !.nextCharge = next, !.end = next]
        <3>1. /\ q \in SubType /\ q.created = subs[i].created /\ q.trial = subs[i].trial
              /\ q.period = subs[i].period /\ q.end = next /\ q.nextCharge = next
            BY Zenon, <1>1 DEF SubType
        <3>2. subs' = [subs EXCEPT ![i] = q]
            BY Zenon, <2>0, <2>2 DEF Advanced, IInv, TypeOK, Ids
        <3> QED BY Zenon, <2>2, <3>1, <3>2
    <2> QED BY Zenon, <2>1, <2>2
<1>3. PICK q \in SubType :
        /\ subs' = [subs EXCEPT ![i] = q]
        /\ q.created = subs[i].created /\ q.trial = subs[i].trial /\ q.period = subs[i].period
        /\ \/ next > MaxTs /\ q.end = subs[i].end /\ q.nextCharge = subs[i].nextCharge
           \/ ~(next > MaxTs) /\ q.end = next /\ q.nextCharge = q.end
    BY Zenon, <1>2
<1>4. Ids' = Ids /\ subs'[i] = q /\ \A j \in Ids : j # i => subs'[j] = subs[j]
    BY Zenon, <1>1, <1>3, SubReplaced
<1>5. paid[i] \in Nat /\ paid'[i] = paid[i] + 1 /\ \A j \in Ids : j # i => paid'[j] = paid[j]
    <2>1. paid \in Seq(Nat) /\ Ids = 1 .. Len(paid) /\ paid' = [paid EXCEPT ![i] = @ + 1]
        BY <1>1 DEF TypeOK, Ids, Charge
    <2> QED BY SMTT(60), <2>1
<1>6. now \in Nat /\ now >= subs[i].nextCharge
    BY <1>1 DEF Charge, Due, TypeOK
<1>7. RunsAsPaid(subs[i], paid[i], now)
    BY DEF AllRunAsPaid
<1>8. RunsAsPaid(q, paid[i] + 1, now)
    BY Zenon, <1>1, <1>3, <1>5, <1>6, <1>7, ChargedRun
<1> QED BY Zenon, <1>4, <1>5, <1>8 DEF AllRunAsPaid

\* A new subscription runs for its trial, or for the period paid for.
LEMMA NewRun ==
    ASSUME TypeOK, NEW s \in Subscriber, NEW v \in 1 .. Len(services), NEW autoRenew \in BOOLEAN
    PROVE  /\ RunsAsPaid(NewSub(s, v, autoRenew, services[v].trial, now + services[v].trial), 0, now)
           /\ RunsAsPaid(NewSub(s, v, autoRenew, 0, now + services[v].period), 1, now)
<1>1. services[v] \in Terms
    BY SMTT(60) DEF TypeOK
<1>2. services[v].period \in Nat /\ services[v].trial \in Nat
    BY SMTT(60), <1>1, SubscriptionAssumption
<1>3. now \in Nat
    BY DEF TypeOK
<1> DEFINE p == services[v].period
<1> DEFINE t == services[v].trial
<1>4. 0 * p = 0 /\ 1 * p = p /\ now + t + 0 = now + t /\ now + 0 + p = now + p
    BY SMTT(60), <1>2, <1>3
<1>5. /\ now + t <= now + (IF t > p THEN t ELSE p)
      /\ now + p <= now + (IF 0 > p THEN 0 ELSE p)
    BY SMTT(60), <1>2, <1>3
<1> QED BY Zenon, <1>4, <1>5 DEF RunsAsPaid, NewSub

LEMMA SubscribeKeepsRuns ==
    ASSUME IInv, AllRunAsPaid, Subscribe
    PROVE  AllRunAsPaid'
<1>1. PICK s \in Subscriber, v \in 1 .. Len(services), autoRenew \in BOOLEAN :
        SubscribeTrial(s, v, autoRenew) \/ SubscribePaid(s, v, autoRenew)
    BY DEF Subscribe
<1>3. TypeOK /\ subs \in Seq(SubType) /\ paid \in Seq(Nat) /\ Ids = 1 .. Len(paid)
    BY SMTT(60) DEF IInv, TypeOK, Ids
<1>4. ASSUME NEW r \in SubType, NEW n \in Nat, RunsAsPaid(r, n, now),
             Store(r), paid' = Append(paid, n), now' = now
      PROVE  AllRunAsPaid'
    <2> DEFINE k == Len(subs) + 1
    <2>1. /\ subs'[k] = r /\ \A j \in Ids : subs'[j] = subs[j]
          /\ Ids' = Ids \cup {k}
        BY Zenon, <1>3, <1>4, StoreAppends DEF Store
    <2>2. Len(paid) = Len(subs)
        BY <1>3 DEF TypeOK
    <2>3. paid'[k] = n /\ \A j \in Ids : paid'[j] = paid[j]
        <3>0. paid \in Seq(Nat) /\ n \in Nat
            BY Zenon, <1>3, <1>4
        <3>1. /\ Append(paid, n)[Len(paid) + 1] = n
              /\ \A j \in 1 .. Len(paid) : Append(paid, n)[j] = paid[j]
            BY <3>0
        <3> QED BY Zenon, <1>3, <1>4, <2>2, <3>1
    <2> QED BY Zenon, <1>4, <2>1, <2>3 DEF AllRunAsPaid
<1>5. services[v] \in Terms /\ v \in 1 .. MaxServices
    <2>1. services[v] \in Terms
        BY SMTT(60), <1>3 DEF TypeOK
    <2>2. Len(services) \in Nat /\ Len(services) <= MaxServices /\ MaxServices \in Nat
        BY <1>3, SubscriptionAssumption DEF TypeOK
    <2> QED BY <2>1, <2>2
<1>6. services[v].price \in Nat /\ services[v].period \in Nat /\ services[v].trial \in Nat /\ now \in Nat
    BY Zenon, <1>3, <1>5, SubscriptionAssumption DEF TypeOK
<1>7. CASE SubscribeTrial(s, v, autoRenew)
    <2> DEFINE r == NewSub(s, v, autoRenew, services[v].trial, now + services[v].trial)
    <2>1. r \in SubType
        BY SMTT(60), <1>5, <1>6 DEF NewSub, SubType
    <2>2. RunsAsPaid(r, 0, now) /\ 0 \in Nat
        BY <1>3, NewRun
    <2>3. Store(r) /\ paid' = Append(paid, 0) /\ now' = now
        BY <1>7 DEF SubscribeTrial
    <2> HIDE DEF r
    <2> QED BY Zenon, <1>4, <2>1, <2>2, <2>3
<1>8. CASE SubscribePaid(s, v, autoRenew)
    <2> DEFINE r == NewSub(s, v, autoRenew, 0, now + services[v].period)
    <2>1. r \in SubType
        BY SMTT(60), <1>5, <1>6 DEF NewSub, SubType
    <2>2. RunsAsPaid(r, 1, now) /\ 1 \in Nat
        BY <1>3, NewRun
    <2>3. Store(r) /\ paid' = Append(paid, 1) /\ now' = now
        BY <1>8 DEF SubscribePaid
    <2> HIDE DEF r
    <2> QED BY Zenon, <1>4, <2>1, <2>2, <2>3
<1> QED BY <1>1, <1>7, <1>8

\* A call that leaves the subscriptions and payments alone.
LEMMA IdleKeepsRuns ==
    ASSUME TypeOK, AllRunAsPaid, subs' = subs, paid' = paid, now' \in Nat, now' >= now
    PROVE  AllRunAsPaid'
BY KeptRuns DEF SameRun, Ids

LEMMA RunsPreserved == IInv /\ AllRunAsPaid /\ [Next]_vars => AllRunAsPaid'
<1> SUFFICES ASSUME IInv, AllRunAsPaid, [Next]_vars PROVE AllRunAsPaid'
    OBVIOUS
<1>0. TypeOK /\ now \in Nat /\ now >= now /\ now + 1 \in Nat /\ now + 1 >= now
    BY DEF IInv, TypeOK
<1>1. CASE RegisterService
    BY <1>0, <1>1, IdleKeepsRuns DEF RegisterService, history
<1>2. CASE Subscribe
    BY <1>2, SubscribeKeepsRuns
<1>3. CASE Process
    BY <1>0, <1>3, IdleKeepsRuns DEF Process, history
<1>4. CASE Close
    BY <1>0, <1>4, IdleKeepsRuns DEF Close, history
<1>5. ASSUME NEW i \in Ids, Cancel(i) \/ ToggleAutoRenew(i) \/ ExtendSubscription(i)
      PROVE  AllRunAsPaid'
    <2>1. \E b \in BOOLEAN : subs' = [subs EXCEPT ![i].autoRenew = b]
        <3>1. (~subs[i].autoRenew) \in BOOLEAN
            BY Zenon
        <3> QED BY Zenon, <1>5, <3>1 DEF Cancel, ToggleAutoRenew, ExtendSubscription
    <2>2. paid' = paid /\ now' = now
        BY Zenon, <1>5 DEF Cancel, ToggleAutoRenew, ExtendSubscription, history
    <2> QED BY Zenon, <1>0, <2>1, <2>2, RenewalKeepsRuns
<1>6. CASE ProcessOne
    <2> DEFINE i == Head(page)
    <2>1. i \in Ids
        BY <1>0, <1>6 DEF ProcessOne, TypeOK
    <2>2. (Skip(i) \/ Charge(i) \/ ChargeFails(i)) /\ now' = now
        BY <1>6 DEF ProcessOne
    <2> HIDE DEF i
    <2>3. CASE Skip(i)
        BY <1>0, <2>2, <2>3, IdleKeepsRuns DEF Skip, history
    <2>4. CASE Charge(i)
        BY <2>1, <2>2, <2>4, ChargeKeepsRuns
    <2>5. CASE ChargeFails(i)
        BY Zenon, <1>0, <2>1, <2>2, <2>5, RenewalKeepsRuns DEF ChargeFails, history
    <2> QED BY <2>2, <2>3, <2>4, <2>5
<1>7. CASE UNCHANGED vars
    BY <1>0, <1>7, IdleKeepsRuns DEF vars, history
<1> QED BY <1>1, <1>2, <1>3, <1>4, <1>5, <1>6, <1>7 DEF Next, Invoke

\* A subscription runs for exactly what has been paid for it, and never further
\* than one period or its trial ahead, however late and often process() is called.
THEOREM PaymentsServed == Spec => []PaymentsAddUp
<1>1. Init => AllRunAsPaid
    BY DEF Init, AllRunAsPaid, Ids
<1>2. IInv /\ AllRunAsPaid /\ [Next]_vars => AllRunAsPaid'
    BY RunsPreserved
<1>3. IInv /\ AllRunAsPaid => PaymentsAddUp
    BY RunsMeaning DEF IInv, PaymentsAddUp
<1> QED BY <1>1, <1>2, <1>3, Invariance, PTL DEF Spec
-----------------------------------------------------------------------------
\* The faucet.  A transaction is settled when it has not paid and cannot be
\* taken any more: it is in a ledger, so its sequence number is used, or its
\* time bounds have passed.
Settled(t) == t \notin Succeeded /\ (t \in DOMAIN outcome \/ t.period < clock)

\* What the network does with sequence numbers and time bounds.
NetworkValid ==
    /\ queued # NoTx => /\ queued.sequence = sequence + 1 /\ queued.sequence <= MaxSequence
                       /\ queued.period >= clock
    /\ \A t \in DOMAIN outcome : t.sequence <= sequence
    /\ \A t \in Succeeded : t.to \in accounts

\* A request r in the state q: the network has taken nothing but the last transaction that was
\* built, and nothing before that is sent; whoever has stopped waiting knows that
\* it was paid or that the transaction is settled.
RequestValid(r, q) ==
    /\ q.taken \subseteq {q.tx}
    /\ q.at \in {"new", "check", "build", "send"} => q.taken = {}
    /\ q.at \in {"build", "send", "wait"} => q.op \in {"payment", "createAccount"}
    /\ q.at \in {"send", "wait"} =>
          q.tx \in Transactions /\ q.tx.to = Destination[r] /\ q.tx.sequence <= MaxSequence
    /\ q.at \notin {"confirm", "answered", "lost"} => ~q.final
    /\ q.at \notin {"answered", "lost"} => ~q.ok
    /\ q.at = "confirm" => IF q.final THEN Destination[r] \in accounts ELSE \A t \in q.taken : Settled(t)
    /\ q.at = "answered" =>
          IF q.ok THEN Destination[r] \in accounts ELSE q.caught \/ \A t \in q.taken : Settled(t)

FaucetInv == FaucetTypeOK /\ NetworkValid /\ \A r \in Requests : RequestValid(r, request[r])

-----------------------------------------------------------------------------
\* What the assumptions give for requests and transactions.
LEMMA FaucetConstants ==
    /\ MaxAttempts \in Nat \ {0} /\ MaxSequence \in Nat /\ MaxClock \in Nat /\ NoTx \notin Transactions
    /\ \A r \in Requests : Destination[r] \in Destinations
    /\ \A t \in Transactions : t.sequence \in Nat /\ t.period \in Nat /\ t.to \in Destinations
BY FaucetAssumption DEF Destinations, Transactions

\* A settled transaction is not in the queue.
LEMMA SettledNotQueued ==
    ASSUME FaucetTypeOK, NetworkValid, NEW t \in Transactions, Settled(t)
    PROVE  t # queued
<1> SUFFICES ASSUME t = queued PROVE FALSE
    OBVIOUS
<1>1. queued # NoTx /\ t.sequence = sequence + 1 /\ t.period >= clock
    BY Zenon, FaucetConstants DEF NetworkValid
<1>2. t.sequence \in Nat /\ t.period \in Nat /\ sequence \in Int /\ clock \in Int
    BY FaucetConstants DEF FaucetTypeOK
<1>3. t.sequence <= sequence \/ t.period < clock
    BY Zenon DEF Settled, NetworkValid
<1> QED BY <1>1, <1>2, <1>3

\* The invariant gives both promises.
LEMMA FaucetInvImplies == FaucetInv => PaymentsKept
<1> SUFFICES ASSUME FaucetInv PROVE PaymentsKept
    OBVIOUS
<1>1. PaysOnce
    <2> SUFFICES ASSUME NEW r \in Requests PROVE Cardinality(request[r].taken \intersect Succeeded) <= 1
        BY DEF PaysOnce
    <2> DEFINE S == request[r].taken \intersect Succeeded
    <2>1. request[r].taken \subseteq {request[r].tx}
        BY Zenon DEF FaucetInv, RequestValid
    <2>2. S = {} \/ S = {request[r].tx}
        BY Zenon, <2>1
    <2>3. Cardinality({}) = 0 /\ Cardinality({request[r].tx}) = 1
        BY Zenon, FS_EmptySet, FS_Singleton
    <2> QED BY SMTT(60), <2>2, <2>3
<1>2. AnswersHold
    <2> SUFFICES ASSUME NEW r \in Requests, request[r].at = "answered"
                 PROVE  IF request[r].ok THEN Destination[r] \in accounts
                        ELSE request[r].caught \/ request[r].taken \intersect (Succeeded \union {queued}) = {}
        BY Zenon DEF AnswersHold
    <2>1. IF request[r].ok THEN Destination[r] \in accounts
          ELSE request[r].caught \/ \A t \in request[r].taken : Settled(t)
        BY Zenon DEF FaucetInv, RequestValid
    <2>2. request[r].taken \subseteq Transactions
        BY Zenon DEF FaucetInv, FaucetTypeOK, RequestType
    <2>3. \A t \in request[r].taken : Settled(t) => t \notin Succeeded /\ t # queued
        BY Zenon, <2>2, SettledNotQueued DEF Settled, FaucetInv
    <2> QED BY Zenon, <2>1, <2>3
<1> QED BY <1>1, <1>2 DEF FaucetInv, PaymentsKept

\* It holds at first.
LEMMA FaucetInitInv == FaucetInit => FaucetInv
<1> SUFFICES ASSUME FaucetInit PROVE FaucetInv
    OBVIOUS
<1>1. Idle \in RequestType
    BY FaucetAssumption DEF Idle, RequestType
<1>2. FaucetTypeOK
    BY <1>1, FaucetAssumption DEF FaucetInit, FaucetTypeOK
<1>3. NetworkValid
    BY DEF FaucetInit, NetworkValid, Succeeded
<1>4. \A r \in Requests : RequestValid(r, request[r])
    BY Zenon DEF FaucetInit, RequestValid, Idle
<1> QED BY <1>2, <1>3, <1>4 DEF FaucetInv

\* A step of the network keeps what the requests rely on.
LEMMA NetworkStep ==
    ASSUME FaucetInv, FaucetTypeOK', NetworkValid', UNCHANGED request, accounts \subseteq accounts',
           \A t \in Transactions : Settled(t) => Settled(t)'
    PROVE  FaucetInv'
<1>1. ASSUME NEW r \in Requests PROVE RequestValid(r, request[r])'
    <2>1. RequestValid(r, request[r])
        BY Zenon DEF FaucetInv
    <2>2. request[r].taken \subseteq Transactions
        BY Zenon DEF FaucetInv, FaucetTypeOK, RequestType
    <2>3. (\A t \in request[r].taken : Settled(t)) => \A t \in request[r].taken : Settled(t)'
        BY Zenon, <2>2
    <2>4. Destination[r] \in accounts => Destination[r] \in accounts'
        BY Zenon
    <2> QED BY Zenon, <2>1, <2>3, <2>4 DEF RequestValid
<1> QED BY Zenon, <1>1 DEF FaucetInv

\* A ledger closes: what it settles was not settled before (SettledNotQueued).
LEMMA CloseLedgerInv ==
    ASSUME FaucetInv, CloseLedger PROVE FaucetInv'
<1> DEFINE fits == (queued.op = "payment") <=> (queued.to \in accounts)
<1>1. /\ queued # NoTx
      /\ outcome' = [t \in DOMAIN outcome \union {queued} |->
                        IF t # queued THEN outcome[t] ELSE IF fits THEN "SUCCESS" ELSE "FAILED"]
      /\ accounts' = IF fits THEN accounts \union {queued.to} ELSE accounts
      /\ sequence' = queued.sequence /\ queued' = NoTx /\ UNCHANGED <<clock, request, up>>
    BY Zenon DEF CloseLedger
<1>2. queued \in Transactions /\ queued.to \in Destinations /\ queued.sequence = sequence + 1
      /\ queued.sequence <= MaxSequence /\ queued.period >= clock
    BY Zenon, <1>1, FaucetConstants DEF FaucetInv, FaucetTypeOK, NetworkValid
<1> HIDE DEF fits
<1>3. accounts \subseteq accounts' /\ (fits => queued.to \in accounts')
    BY Zenon, <1>1
<1>4. DOMAIN outcome' = DOMAIN outcome \union {queued}
    BY Zenon, <1>1
<1>5. Succeeded' \subseteq Succeeded \union {queued} /\ (queued \in Succeeded' => fits)
      /\ \A t \in DOMAIN outcome : t # queued => (t \in Succeeded' <=> t \in Succeeded)
    BY <1>1 DEF Succeeded
<1>6. NetworkValid'
    <2>1. \A t \in DOMAIN outcome : t.sequence \in Nat /\ t.sequence <= sequence
        BY Zenon, FaucetConstants DEF FaucetInv, FaucetTypeOK, NetworkValid
    <2>2. sequence \in Int
        BY FaucetConstants DEF FaucetInv, FaucetTypeOK
    <2>3. \A t \in DOMAIN outcome' : t.sequence <= sequence'
        BY <1>1, <1>2, <1>4, <2>1, <2>2
    <2>4. \A t \in Succeeded' : t.to \in accounts'
        BY Zenon, <1>3, <1>5 DEF FaucetInv, NetworkValid
    <2> QED BY Zenon, <1>1, <2>3, <2>4 DEF NetworkValid
<1>7. FaucetTypeOK'
    <2>1. sequence' \in 0 .. MaxSequence
        BY <1>1, <1>2, FaucetConstants
    <2>2. accounts' \subseteq Destinations
        BY Zenon, <1>1, <1>2 DEF FaucetInv, FaucetTypeOK
    <2>3. DOMAIN outcome' \subseteq Transactions
        BY Zenon, <1>2, <1>4 DEF FaucetInv, FaucetTypeOK
    <2> QED BY Zenon, <1>1, <2>1, <2>2, <2>3 DEF FaucetInv, FaucetTypeOK
<1>8. ASSUME NEW t \in Transactions, Settled(t) PROVE Settled(t)'
    <2>1. t # queued
        BY Zenon, <1>8, SettledNotQueued DEF FaucetInv
    <2> QED BY Zenon, <1>1, <1>4, <1>5, <1>8, <2>1 DEF Settled
<1> QED BY Zenon, <1>1, <1>3, <1>6, <1>7, <1>8, NetworkStep
\* The queue loses its transaction.
LEMMA DropInv ==
    ASSUME FaucetInv, Drop PROVE FaucetInv'
<1>1. queued' = NoTx /\ UNCHANGED <<clock, sequence, accounts, outcome, request, up>>
    BY Zenon DEF Drop
<1>2. Succeeded' = Succeeded
    BY Zenon, <1>1 DEF Succeeded
<1>3. FaucetTypeOK' /\ NetworkValid'
    BY Zenon, <1>1, <1>2 DEF FaucetInv, FaucetTypeOK, NetworkValid
<1>4. \A t \in Transactions : Settled(t) => Settled(t)'
    BY Zenon, <1>1, <1>2 DEF Settled
<1> QED BY Zenon, <1>1, <1>3, <1>4, NetworkStep

\* Time bounds pass.
LEMMA TickInv ==
    ASSUME FaucetInv, Tick PROVE FaucetInv'
<1>1. /\ clock < MaxClock /\ clock' = clock + 1 /\ queued' = NoTx
      /\ UNCHANGED <<sequence, accounts, outcome, request, up>>
    BY Zenon DEF Tick
<1>2. clock \in 0 .. MaxClock
    BY Zenon DEF FaucetInv, FaucetTypeOK
<1>3. clock' \in 0 .. MaxClock
    BY <1>1, <1>2, FaucetConstants
<1>4. Succeeded' = Succeeded
    BY Zenon, <1>1 DEF Succeeded
<1>5. FaucetTypeOK' /\ NetworkValid'
    BY Zenon, <1>1, <1>3, <1>4 DEF FaucetInv, FaucetTypeOK, NetworkValid
<1>6. \A t \in Transactions : t.period < clock => t.period < clock'
    BY <1>1, <1>2, FaucetConstants
<1>7. \A t \in Transactions : Settled(t) => Settled(t)'
    BY Zenon, <1>1, <1>4, <1>6 DEF Settled
<1> QED BY Zenon, <1>1, <1>5, <1>7, NetworkStep

\* The process starts again.
LEMMA RestartInv ==
    ASSUME FaucetInv, Restart PROVE FaucetInv'
<1>1. up' = TRUE /\ UNCHANGED <<clock, sequence, accounts, queued, outcome, request>>
    BY Zenon DEF Restart, network
<1>2. Succeeded' = Succeeded
    BY Zenon, <1>1 DEF Succeeded
<1>3. FaucetTypeOK' /\ NetworkValid'
    BY Zenon, <1>1, <1>2 DEF FaucetInv, FaucetTypeOK, NetworkValid
<1>4. \A t \in Transactions : Settled(t) => Settled(t)'
    BY Zenon, <1>1, <1>2 DEF Settled
<1> QED BY Zenon, <1>1, <1>3, <1>4, NetworkStep

-----------------------------------------------------------------------------
\* What may wait in the queue.
MayWait(t) ==
    t # NoTx => /\ t \in Transactions /\ t.sequence = sequence + 1 /\ t.sequence <= MaxSequence
                /\ t.period >= clock

\* A step of requests, which may leave a transaction in the queue.
LEMMA RequestsStep ==
    ASSUME FaucetInv, UNCHANGED <<clock, sequence, accounts, outcome>>, up' \in BOOLEAN, MayWait(queued'),
           request' \in [Requests -> RequestType], \A r \in Requests : RequestValid(r, request'[r])
    PROVE  FaucetInv'
<1>1. Succeeded' = Succeeded
    BY Zenon DEF Succeeded
<1>2. FaucetTypeOK'
    BY Zenon DEF FaucetInv, FaucetTypeOK, MayWait
<1>3. NetworkValid'
    BY Zenon, <1>1 DEF FaucetInv, NetworkValid, MayWait
<1>4. \A t : Settled(t)' <=> Settled(t)
    BY Zenon, <1>1 DEF Settled
<1>5. ASSUME NEW r \in Requests PROVE RequestValid(r, request[r])'
    <2>1. RequestValid(r, request'[r])
        OBVIOUS
    <2> QED BY Zenon, <2>1, <1>4 DEF RequestValid
<1> QED BY Zenon, <1>2, <1>3, <1>5 DEF FaucetInv

\* The same for one request.
LEMMA RequestStep ==
    ASSUME FaucetInv, UNCHANGED <<clock, sequence, accounts, outcome>>, up' \in BOOLEAN, MayWait(queued'),
           NEW r \in Requests, NEW q \in RequestType, RequestValid(r, q), Go(r, q)
    PROVE  FaucetInv'
<1>1. request \in [Requests -> RequestType] /\ \A s \in Requests : RequestValid(s, request[s])
    BY Zenon DEF FaucetInv, FaucetTypeOK
<1>2. request' \in [Requests -> RequestType]
    BY <1>1 DEF Go
<1>3. ASSUME NEW s \in Requests PROVE RequestValid(s, request'[s])
    <2>1. request'[s] = IF s = r THEN q ELSE request[s]
        BY <1>1 DEF Go
    <2> QED BY Zenon, <1>1, <2>1
<1> QED BY Zenon, <1>2, <1>3, RequestsStep

\* A step that leaves the network alone.
LEMMA LocalStep ==
    ASSUME FaucetInv, UNCHANGED <<network, up>>,
           NEW r \in Requests, NEW q \in RequestType, RequestValid(r, q), Go(r, q)
    PROVE  FaucetInv'
<1>1. UNCHANGED <<clock, sequence, accounts, outcome>> /\ queued' = queued /\ up' = up
    BY Zenon DEF network
<1>2. MayWait(queued') /\ up' \in BOOLEAN
    BY Zenon, <1>1 DEF FaucetInv, FaucetTypeOK, NetworkValid, MayWait
<1> QED BY Zenon, <1>1, <1>2, RequestStep

\* What is known of a request before a step.
LEMMA RequestBefore ==
    ASSUME FaucetInv, NEW r \in Requests
    PROVE  request[r] \in RequestType /\ RequestValid(r, request[r])
BY Zenon DEF FaucetInv, FaucetTypeOK

\* /faucet/fund takes a request.
LEMMA AcceptInv ==
    ASSUME FaucetInv, NEW r \in Requests, Accept(r) PROVE FaucetInv'
<1> DEFINE q == [request[r] EXCEPT !.at = "check"]
<1>1. request[r].at = "new" /\ Go(r, q) /\ UNCHANGED <<network, up>>
    BY Zenon DEF Accept, To
<1>2. q \in RequestType
    BY Zenon, RequestBefore DEF RequestType
<1>3. RequestValid(r, q)
    BY ZenonT(60), <1>1, RequestBefore DEF RequestType, RequestValid
<1> QED BY Zenon, <1>1, <1>2, <1>3, LocalStep

\* destinationAccountExists.
LEMMA CheckDestinationInv ==
    ASSUME FaucetInv, NEW r \in Requests, CheckDestination(r) PROVE FaucetInv'
<1>1. PICK exists \in {Destination[r] \in accounts, FALSE} :
          Go(r, [request[r] EXCEPT !.at = "build", !.attempt = 1,
                                   !.op = IF exists THEN "payment" ELSE "createAccount"])
    BY Zenon DEF CheckDestination
<1> DEFINE op == IF exists THEN "payment" ELSE "createAccount"
           q == [request[r] EXCEPT !.at = "build", !.attempt = 1, !.op = op]
<1>2. request[r].at = "check" /\ UNCHANGED <<network, up>>
    BY Zenon DEF CheckDestination
<1>3. op \in {"payment", "createAccount"}
    BY Zenon
<1>4. Go(r, q)
    BY Zenon, <1>1
<1>5. 1 \in 0 .. MaxAttempts
    BY FaucetConstants
<1> HIDE DEF op
<1>6. q \in RequestType
    BY ZenonT(60), <1>3, <1>5, RequestBefore DEF RequestType
<1>7. RequestValid(r, q)
    BY ZenonT(60), <1>2, <1>3, RequestBefore DEF RequestType, RequestValid
<1> QED BY Zenon, <1>2, <1>4, <1>6, <1>7, LocalStep
\* buildClassicTx: nothing was taken before, so the old transaction may be forgotten.
LEMMA BuildInv ==
    ASSUME FaucetInv, NEW r \in Requests, Build(r) PROVE FaucetInv'
<1>1. PICK second \in Seconds :
          Go(r, [request[r] EXCEPT !.at = "send",
                    !.tx = [op |-> request[r].op, to |-> Destination[r], sequence |-> sequence + 1,
                            attempt |-> request[r].attempt, period |-> clock, second |-> second]])
    BY Zenon DEF Build
<1> DEFINE tx == [op |-> request[r].op, to |-> Destination[r], sequence |-> sequence + 1,
                  attempt |-> request[r].attempt, period |-> clock, second |-> second]
           q == [request[r] EXCEPT !.at = "send", !.tx = tx]
<1>2. request[r].at = "build" /\ sequence < MaxSequence /\ UNCHANGED <<network, up>>
    BY Zenon DEF Build
<1>3. request[r].op \in {"payment", "createAccount"} /\ request[r].taken = {}
    BY Zenon, <1>2, RequestBefore DEF RequestValid
<1>4. request[r].attempt \in Nat /\ sequence + 1 \in Nat /\ clock \in Nat /\ sequence + 1 <= MaxSequence
    <2>1. sequence \in 0 .. MaxSequence /\ clock \in 0 .. MaxClock
        BY Zenon DEF FaucetInv, FaucetTypeOK
    <2>2. request[r].attempt \in 0 .. MaxAttempts
        BY Zenon, RequestBefore DEF RequestType
    <2>3. MaxSequence \in Nat /\ MaxClock \in Nat /\ MaxAttempts \in Nat
        BY FaucetConstants
    <2> QED BY <1>2, <2>1, <2>2, <2>3
<1>5. tx \in Transactions
    BY <1>3, <1>4, FaucetConstants DEF Transactions
<1>6. tx.to = Destination[r] /\ tx.sequence <= MaxSequence
    BY <1>4
<1>7. Go(r, q)
    BY Zenon, <1>1
<1> HIDE DEF tx
<1>8. q \in RequestType
    BY ZenonT(60), <1>5, RequestBefore DEF RequestType
<1>9. RequestValid(r, q)
    BY ZenonT(60), <1>2, <1>3, <1>5, <1>6, RequestBefore DEF RequestType, RequestValid
<1> QED BY Zenon, <1>2, <1>7, <1>8, <1>9, LocalStep

\* What a transaction that is sent finds.
LEMMA StatusOf ==
    ASSUME FaucetInv, NEW t \in Transactions, t.sequence <= MaxSequence
    PROVE  /\ Status(t) # {"ERROR"} /\ queued \in {NoTx, t} => MayWait(t)
           /\ Status(t) \subseteq {"PENDING", "DUPLICATE", "TRY_AGAIN_LATER", "ERROR"}
           /\ "PENDING" \in Status(t) \/ "DUPLICATE" \in Status(t) =>
                 Status(t) # {"ERROR"} /\ queued \in {NoTx, t}
<1>1. MayWait(queued)
    BY Zenon DEF FaucetInv, FaucetTypeOK, NetworkValid, MayWait
<1>2. t # NoTx /\ t.period \in Nat /\ clock \in Int
    BY FaucetConstants DEF FaucetInv, FaucetTypeOK
<1>3. ~(t.period < clock) => t.period >= clock
    BY <1>2
<1>4. CASE queued = t
    <2>1. Status(t) = {"DUPLICATE"}
        BY Zenon, <1>4 DEF Status
    <2> QED BY <1>1, <1>4, <2>1
<1>5. CASE queued # t /\ queued # NoTx
    <2>1. Status(t) = {"TRY_AGAIN_LATER"}
        BY Zenon, <1>5 DEF Status
    <2> QED BY <1>5, <2>1
<1>6. CASE queued # t /\ queued = NoTx
    <2>1. CASE t.sequence # sequence + 1 \/ t.period < clock
        <3>1. Status(t) = {"ERROR"}
            BY Zenon, <1>6, <2>1 DEF Status
        <3> QED BY <3>1
    <2>2. CASE ~(t.sequence # sequence + 1 \/ t.period < clock)
        <3>1. Status(t) = {"PENDING", "TRY_AGAIN_LATER"}
            BY Zenon, <1>6, <2>2 DEF Status
        <3>2. MayWait(t)
            BY Zenon, <1>3, <2>2 DEF MayWait
        <3> QED BY <1>6, <3>1, <3>2
    <2> QED BY Zenon, <2>1, <2>2
<1> QED BY Zenon, <1>4, <1>5, <1>6

\* sendClassicTx, by the status.
LEMMA SendInv ==
    ASSUME FaucetInv, NEW r \in Requests, Send(r) PROVE FaucetInv'
<1> DEFINE q == request[r]
<1>1. PICK status \in Status(q.tx) :
          \/ /\ status \in {"PENDING", "DUPLICATE"}
             /\ Go(r, [Taken(r) EXCEPT !.at = "wait"]) /\ Queue(q.tx)
          \/ /\ status = "TRY_AGAIN_LATER"
             /\ IF q.attempt < MaxAttempts
                THEN Go(r, [q EXCEPT !.at = "build", !.attempt = @ + 1])
                ELSE To(r, "confirm")
             /\ UNCHANGED <<network, up>>
          \/ /\ status = "ERROR"
             /\ IF q.op = "createAccount"
                THEN Go(r, [q EXCEPT !.at = "build", !.attempt = 1, !.op = "payment", !.again = TRUE])
                ELSE Answer(r, FALSE)
             /\ UNCHANGED <<network, up>>
    BY Zenon DEF Send
<1>2. q \in RequestType /\ RequestValid(r, q)
    BY Zenon, RequestBefore
<1>3. q.at = "send"
    BY Zenon DEF Send
<1>4. /\ q.tx \in Transactions /\ q.tx.to = Destination[r] /\ q.tx.sequence <= MaxSequence
      /\ q.taken = {} /\ ~q.final /\ ~q.ok /\ q.op \in {"payment", "createAccount"}
    BY <1>2, <1>3 DEF RequestValid
<1> HIDE DEF q
<1>5. CASE status \in {"PENDING", "DUPLICATE"} /\ Go(r, [Taken(r) EXCEPT !.at = "wait"]) /\ Queue(q.tx)
    <2> DEFINE n == [[q EXCEPT !.taken = @ \union {q.tx}] EXCEPT !.at = "wait"]
    <2>1. Go(r, n)
        BY Zenon, <1>5 DEF Taken, q
    <2>2. n \in RequestType
        BY Zenon, <1>2, <1>4 DEF RequestType
    <2>3. RequestValid(r, n)
        BY Zenon, <1>2, <1>4 DEF RequestType, RequestValid
    <2>4. MayWait(q.tx)
        BY Zenon, <1>1, <1>4, <1>5, StatusOf
    <2>5. queued' = q.tx /\ UNCHANGED <<clock, sequence, accounts, outcome, up>>
        BY Zenon, <1>5 DEF Queue
    <2>6. up' \in BOOLEAN
        BY Zenon, <2>5 DEF FaucetInv, FaucetTypeOK
    <2> HIDE DEF n
    <2> QED BY Zenon, <2>1, <2>2, <2>3, <2>4, <2>5, <2>6, RequestStep
<1>6. CASE q.attempt < MaxAttempts /\ Go(r, [q EXCEPT !.at = "build", !.attempt = @ + 1])
           /\ UNCHANGED <<network, up>>
    <2> DEFINE n == [q EXCEPT !.at = "build", !.attempt = @ + 1]
    <2>0. q.attempt \in 0 .. MaxAttempts /\ MaxAttempts \in Nat
        BY Zenon, <1>2, FaucetConstants DEF RequestType
    <2>1. q.attempt + 1 \in 0 .. MaxAttempts
        BY <1>6, <2>0
    <2>2. n \in RequestType
        BY Zenon, <1>2, <2>1 DEF RequestType
    <2>3. RequestValid(r, n)
        BY Zenon, <1>2, <1>4 DEF RequestType, RequestValid
    <2>4. Go(r, n)
        BY Zenon, <1>6
    <2> HIDE DEF n
    <2> QED BY Zenon, <1>6, <2>2, <2>3, <2>4, LocalStep
<1>7. CASE To(r, "confirm") /\ UNCHANGED <<network, up>>
    <2> DEFINE n == [q EXCEPT !.at = "confirm"]
    <2>1. Go(r, n)
        BY Zenon, <1>7 DEF To, q
    <2>2. n \in RequestType
        BY Zenon, <1>2 DEF RequestType
    <2>3. RequestValid(r, n)
        BY Zenon, <1>2, <1>4 DEF RequestType, RequestValid
    <2> HIDE DEF n
    <2> QED BY Zenon, <1>7, <2>1, <2>2, <2>3, LocalStep
<1>8. CASE Go(r, [q EXCEPT !.at = "build", !.attempt = 1, !.op = "payment", !.again = TRUE])
           /\ UNCHANGED <<network, up>>
    <2> DEFINE n == [q EXCEPT !.at = "build", !.attempt = 1, !.op = "payment", !.again = TRUE]
    <2>1. 1 \in 0 .. MaxAttempts
        BY FaucetConstants
    <2>2. n \in RequestType
        BY Zenon, <1>2, <2>1 DEF RequestType
    <2>3. RequestValid(r, n)
        BY Zenon, <1>2, <1>4 DEF RequestType, RequestValid
    <2>4. Go(r, n)
        BY Zenon, <1>8
    <2> HIDE DEF n
    <2> QED BY Zenon, <1>8, <2>2, <2>3, <2>4, LocalStep
<1>9. CASE Answer(r, FALSE) /\ UNCHANGED <<network, up>>
    <2> DEFINE n == [q EXCEPT !.at = "answered", !.ok = FALSE]
    <2>1. Go(r, n)
        BY Zenon, <1>9 DEF Answer, q
    <2>2. n \in RequestType
        BY Zenon, <1>2 DEF RequestType
    <2>3. RequestValid(r, n)
        BY Zenon, <1>2, <1>4 DEF RequestType, RequestValid
    <2> HIDE DEF n
    <2> QED BY Zenon, <1>9, <2>1, <2>2, <2>3, LocalStep
<1> QED BY Zenon, <1>1, <1>5, <1>6, <1>7, <1>8, <1>9

\* waitForSubmittedTx gives up only on a settled transaction.
LEMMA WaitInv ==
    ASSUME FaucetInv, NEW r \in Requests, Wait(r) PROVE FaucetInv'
<1> DEFINE tx == request[r].tx
           final == tx \in Succeeded
           q == [request[r] EXCEPT !.at = "confirm", !.final = final]
<1>1. /\ request[r].at = "wait" /\ (tx \in DOMAIN outcome \/ tx.period < clock)
      /\ Go(r, q) /\ UNCHANGED <<network, up>>
    BY Zenon DEF Wait
<1>2. request[r] \in RequestType /\ RequestValid(r, request[r])
    BY Zenon, RequestBefore
<1>3. tx.to = Destination[r] /\ request[r].taken \subseteq {tx} /\ ~request[r].ok
    BY <1>1, <1>2 DEF RequestValid
<1>4. IF final THEN Destination[r] \in accounts ELSE \A t \in request[r].taken : Settled(t)
    <2>1. CASE final
        BY Zenon, <1>3, <2>1 DEF FaucetInv, NetworkValid
    <2>2. CASE ~final
        <3>1. Settled(tx)
            BY Zenon, <1>1, <2>2 DEF Settled
        <3> QED BY Zenon, <1>3, <2>2, <3>1
    <2> QED BY Zenon, <2>1, <2>2
<1>5. final \in BOOLEAN
    OBVIOUS
<1> HIDE DEF final
<1>6. q \in RequestType
    BY Zenon, <1>2, <1>5 DEF RequestType
<1>7. RequestValid(r, q)
    BY Zenon, <1>2, <1>3, <1>4 DEF RequestType, RequestValid
<1> HIDE DEF q
<1> QED BY Zenon, <1>1, <1>6, <1>7, LocalStep

\* waitForDestinationAccount and the answer.
LEMMA ConfirmInv ==
    ASSUME FaucetInv, NEW r \in Requests, Confirm(r) PROVE FaucetInv'
<1>1. PICK confirmed \in {Destination[r] \in accounts, FALSE} : Answer(r, request[r].final \/ confirmed)
    BY Zenon DEF Confirm
<1> DEFINE ok == request[r].final \/ confirmed
           q == [request[r] EXCEPT !.at = "answered", !.ok = ok]
<1>2. request[r].at = "confirm" /\ Go(r, q) /\ UNCHANGED <<network, up>>
    BY Zenon, <1>1 DEF Confirm, Answer
<1>3. request[r] \in RequestType /\ RequestValid(r, request[r])
    BY Zenon, RequestBefore
<1>4. request[r].taken \subseteq {request[r].tx}
      /\ IF request[r].final THEN Destination[r] \in accounts ELSE \A t \in request[r].taken : Settled(t)
    BY Zenon, <1>2, <1>3 DEF RequestValid
<1>5. IF ok THEN Destination[r] \in accounts ELSE \A t \in request[r].taken : Settled(t)
    BY Zenon, <1>4
<1>6. ok \in BOOLEAN
    BY Zenon
<1> HIDE DEF ok
<1>7. q \in RequestType
    BY Zenon, <1>3, <1>6 DEF RequestType
<1>8. RequestValid(r, q)
    BY Zenon, <1>3, <1>4, <1>5 DEF RequestType, RequestValid
<1> HIDE DEF q
<1> QED BY Zenon, <1>2, <1>7, <1>8, LocalStep

\* A request that throws, or is lost with the process, keeps only what was taken.
LEMMA RequestEnds ==
    ASSUME NEW r, NEW q \in RequestType, q.taken \subseteq {q.tx}
    PROVE  /\ [q EXCEPT !.at = "lost"] \in RequestType /\ RequestValid(r, [q EXCEPT !.at = "lost"])
           /\ ~q.ok => /\ [q EXCEPT !.at = "answered", !.caught = TRUE] \in RequestType
                       /\ RequestValid(r, [q EXCEPT !.at = "answered", !.caught = TRUE])
<1>1. [q EXCEPT !.at = "lost"] \in RequestType
    BY Zenon DEF RequestType
<1>2. RequestValid(r, [q EXCEPT !.at = "lost"])
    BY Zenon DEF RequestType, RequestValid
<1>3. [q EXCEPT !.at = "answered", !.caught = TRUE] \in RequestType
    BY Zenon DEF RequestType
<1>4. ASSUME ~q.ok PROVE RequestValid(r, [q EXCEPT !.at = "answered", !.caught = TRUE])
    BY Zenon, <1>4 DEF RequestType, RequestValid
<1> QED BY Zenon, <1>1, <1>2, <1>3, <1>4

\* A call that throws, caught or not.
LEMMA ThrowInv ==
    ASSUME FaucetInv, NEW r \in Requests, Throw(r) PROVE FaucetInv'
<1>1. PICK q \in {request[r]} \union
                  (IF request[r].at = "send" /\ Status(request[r].tx) # {"ERROR"} THEN {Taken(r)} ELSE {}) :
          /\ q # request[r] => queued \in {NoTx, q.tx}
          /\ queued' = IF q # request[r] THEN q.tx ELSE queued
          /\ IF q.again
             THEN Go(r, [q EXCEPT !.at = "answered", !.caught = TRUE]) /\ UNCHANGED up
             ELSE /\ request' = [s \in Requests |-> IF s \notin Serving THEN request[s]
                                    ELSE [(IF s = r THEN q ELSE request[s]) EXCEPT !.at = "lost"]]
                  /\ up' = FALSE
    BY Zenon DEF Throw
<1>2. request[r].at \in {"build", "send", "wait"} /\ UNCHANGED <<clock, sequence, accounts, outcome>>
    BY Zenon DEF Throw
<1>3. \A s \in Requests : request[s] \in RequestType /\ RequestValid(s, request[s])
    BY Zenon, RequestBefore
<1>4. request[r].taken \subseteq {request[r].tx} /\ ~request[r].ok
    BY <1>2, <1>3 DEF RequestValid
<1>5. ASSUME q # request[r]
      PROVE  /\ request[r].at = "send" /\ Status(request[r].tx) # {"ERROR"}
             /\ q = [request[r] EXCEPT !.taken = @ \union {request[r].tx}]
    BY Zenon, <1>1, <1>5 DEF Taken
<1>6. ASSUME q # request[r]
      PROVE  /\ request[r].tx \in Transactions /\ request[r].tx.sequence <= MaxSequence
             /\ request[r].taken = {}
    BY <1>3, <1>5, <1>6 DEF RequestValid
<1>7. q \in RequestType /\ q.taken \subseteq {q.tx} /\ ~q.ok /\ q.tx = request[r].tx
    <2>1. CASE q = request[r]
        BY Zenon, <1>3, <1>4, <2>1
    <2>2. CASE q # request[r]
        <3> DEFINE b == request[r]
        <3>1. b \in RequestType /\ ~b.ok /\ b.taken = {} /\ b.tx \in Transactions
            BY Zenon, <1>3, <1>4, <1>6, <2>2
        <3>2. q = [b EXCEPT !.taken = @ \union {b.tx}]
            BY Zenon, <1>5, <2>2
        <3> HIDE DEF b
        <3>3. q \in RequestType /\ q.taken \subseteq {q.tx} /\ ~q.ok /\ q.tx = b.tx
            BY Zenon, <3>1, <3>2 DEF RequestType
        <3> QED BY Zenon, <3>3 DEF b
    <2> QED BY Zenon, <2>1, <2>2
<1>8. MayWait(queued')
    <2>1. CASE q = request[r]
        BY Zenon, <1>1, <2>1 DEF FaucetInv, FaucetTypeOK, NetworkValid, MayWait
    <2>2. CASE q # request[r]
        BY Zenon, <1>1, <1>5, <1>6, <1>7, <2>2, StatusOf
    <2> QED BY Zenon, <2>1, <2>2
<1>9. CASE q.again
    <2> DEFINE n == [q EXCEPT !.at = "answered", !.caught = TRUE]
    <2>1. Go(r, n) /\ up' = up
        BY Zenon, <1>1, <1>9
    <2>2. n \in RequestType /\ RequestValid(r, n)
        BY Zenon, <1>7, RequestEnds
    <2>3. up' \in BOOLEAN
        BY Zenon, <2>1 DEF FaucetInv, FaucetTypeOK
    <2> HIDE DEF n
    <2> QED BY Zenon, <1>2, <1>8, <2>1, <2>2, <2>3, RequestStep
<1>10. CASE ~q.again
    <2> DEFINE n(s) == IF s \notin Serving THEN request[s]
                       ELSE [(IF s = r THEN q ELSE request[s]) EXCEPT !.at = "lost"]
    <2>1. request' = [s \in Requests |-> n(s)] /\ up' \in BOOLEAN
        BY Zenon, <1>1, <1>10
    <2>2. ASSUME NEW s \in Requests PROVE n(s) \in RequestType /\ RequestValid(s, n(s))
        <3>1. CASE s \notin Serving
            BY Zenon, <1>3, <3>1
        <3>2. CASE s \in Serving
            <4> DEFINE m == IF s = r THEN q ELSE request[s]
            <4>1. m \in RequestType /\ m.taken \subseteq {m.tx}
                BY Zenon, <1>3, <1>7 DEF RequestValid
            <4>2. n(s) = [m EXCEPT !.at = "lost"]
                BY Zenon, <3>2
            <4> HIDE DEF m, n
            <4>3. [m EXCEPT !.at = "lost"] \in RequestType /\ RequestValid(s, [m EXCEPT !.at = "lost"])
                BY Zenon, <4>1, RequestEnds
            <4> QED BY Zenon, <4>2, <4>3
        <3> QED BY Zenon, <3>1, <3>2
    <2> HIDE DEF n
    <2>3. request' \in [Requests -> RequestType] /\ \A s \in Requests : RequestValid(s, request'[s])
        BY Zenon, <2>1, <2>2
    <2> QED BY Zenon, <1>2, <1>8, <2>1, <2>3, RequestsStep
<1> QED BY Zenon, <1>9, <1>10

\* Requests to the faucet that share one account, however many, with any number of
\* attempts, lost and dropped transactions and restarts: each pays at most once, and
\* its answer holds (sendClassicTx, waitForSubmittedTx, /faucet/fund).
THEOREM FaucetPaysOnce == FaucetSpec => []PaymentsKept
<1>1. FaucetInit => FaucetInv
    BY FaucetInitInv
<1>2. FaucetInv /\ [FaucetNext]_faucetVars => FaucetInv'
    <2> SUFFICES ASSUME FaucetInv, [FaucetNext]_faucetVars PROVE FaucetInv'
        OBVIOUS
    <2>1. CASE UNCHANGED faucetVars
        BY Zenon, <2>1 DEF faucetVars, network, FaucetInv, FaucetTypeOK, NetworkValid, RequestValid,
                           Succeeded, Settled
    <2>2. ASSUME NEW r \in Requests, \/ Accept(r) \/ CheckDestination(r) \/ Build(r) \/ Send(r)
                                     \/ Wait(r) \/ Confirm(r) \/ Throw(r)
          PROVE  FaucetInv'
        BY Zenon, <2>2, AcceptInv, CheckDestinationInv, BuildInv, SendInv, WaitInv, ConfirmInv, ThrowInv
    <2> QED BY Zenon, <2>1, <2>2, CloseLedgerInv, DropInv, TickInv, RestartInv DEF FaucetNext
<1>3. FaucetInv => PaymentsKept
    BY FaucetInvImplies
<1> QED BY <1>1, <1>2, <1>3, PTL DEF FaucetSpec
=============================================================================
