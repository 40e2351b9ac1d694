-------------------------- MODULE RpcServingProofs --------------------------
(***************************************************************************)
(* What stellar-rpc serves from memory: the windows over the last ledgers, *)
(* for every capacity and content, and the limits and the worker pool of   *)
(* requests, for any number of requests and workers, any limit and any     *)
(* capacity of the channel; and the migrations a start has to complete     *)
(* before anything is served, for any windows and any database of an       *)
(* earlier release.                                                        *)
(***************************************************************************)
EXTENDS LedgerBucketWindow, RpcRequests, RpcMigrations,
        FiniteSetTheorems, SequenceTheorems, WellFoundedInduction, TLAPS

-----------------------------------------------------------------------------
(* The circular buffer is the window over the last ledgers that its users  *)
(* take it for.                                                            *)

\* The buckets appended since the last Reset are of successive ledgers; the
\* distance form spares an induction over the window.
LogContiguous ==
    \A i, j \in 1 .. Len(log) : log[j].seq - log[i].seq = j - i

\* The buffer starts elsewhere than at its first slot only when it is full.
StartsFull == Length < Capacity => start = 0

IInv == WindowTypeOK /\ StartsFull /\ SlidingWindow /\ LogContiguous

\* Where the i-th bucket lies.
LEMMA Position ==
    ASSUME WindowTypeOK, NEW i \in 0 .. Length - 1
    PROVE  /\ Length \in Nat \ {0}
           /\ start \in 0 .. Length - 1
           /\ (start + i) % Length = IF start + i < Length THEN start + i ELSE start + i - Length
           /\ (start + i) % Length \in 0 .. Length - 1
<1>1. Length \in Nat /\ start \in Nat
    BY WindowAssumption DEF WindowTypeOK, Length
<1>2. Length \in Nat \ {0} /\ start < Length
    BY <1>1 DEF WindowTypeOK
<1>3. start + i \in Nat /\ start + i < Length + Length
    BY <1>1, <1>2
<1>4. (start + i) % Length = IF start + i < Length THEN start + i ELSE start + i - Length
    BY <1>1, <1>2, <1>3
<1>5. QED
    BY <1>1, <1>2, <1>4

\* An empty window satisfies everything.
LEMMA EmptyWindow ==
    ASSUME buckets = <<>>, start = 0, log = <<>>
    PROVE  IInv
BY WindowAssumption DEF IInv, WindowTypeOK, StartsFull, SlidingWindow, LogContiguous, Length

\* Appending a bucket that passes the test keeps the history contiguous.
LEMMA AppendKeepsContiguous ==
    ASSUME IInv, NEW b \in Bucket, AppendBucket(b)
    PROVE  LogContiguous'
<1>1. log \in Seq(Bucket) /\ log' = Append(log, b) /\ Len(log) \in Nat /\ Len(log') = Len(log) + 1
    BY DEF IInv, WindowTypeOK, AppendBucket
<1>2. /\ \A i \in 1 .. Len(log) : log'[i] = log[i] /\ log[i].seq \in Int
      /\ log'[Len(log) + 1] = b /\ b.seq \in Int
    <2>1. \A c \in Bucket : c.seq \in Int
        BY WindowAssumption DEF Bucket
    <2>2. \A i \in 1 .. Len(log) : log[i] \in Bucket
        BY <1>1
    <2>3. (\A i \in 1 .. Len(log) : log'[i] = log[i]) /\ log'[Len(log) + 1] = b
        BY <1>1
    <2>4. QED
        BY <2>1, <2>2, <2>3
<1>3. \A i \in 1 .. Len(log) : b.seq - log[i].seq = Len(log) + 1 - i
    <2> SUFFICES ASSUME NEW i \in 1 .. Len(log)
                 PROVE  b.seq - log[i].seq = Len(log) + 1 - i
        OBVIOUS
    <2>1. Length \in Nat \ {0} /\ Length <= Len(log)
        BY <1>1, WindowAssumption DEF IInv, SlidingWindow
    <2>2. (start + 0) % Length = start
        BY <2>1, Position DEF IInv
    <2>3. Get(0) = buckets[start + 1]
        BY <2>2 DEF Get
    <2>4. buckets[start + 1] = log[Len(log) - Length + 1]
        BY SMTT(60), <2>1, <2>3, <1>1 DEF IInv, SlidingWindow
    <2>5. PICK p \in 1 .. Len(log) : p = Len(log) - Length + 1
        <3>1. Len(log) - Length + 1 \in 1 .. Len(log)
            BY <2>1, <1>1
        <3>2. QED
            BY <3>1
    <2>6. b.seq = log[p].seq + Length
        BY <2>1, <2>4, <2>5 DEF AppendBucket, Contiguous
    <2>7. log[p].seq - log[i].seq = p - i
        BY SMTT(60) DEF IInv, LogContiguous
    <2>8. log[p].seq \in Int /\ log[i].seq \in Int
        BY <1>2
    <2>9. log[p].seq + Length - log[i].seq = Len(log) + 1 - i
        <3>1. ASSUME NEW x \in Int, NEW y \in Int, x - y = p - i
              PROVE  x + Length - y = Len(log) + 1 - i
            BY <1>1, <2>1, <2>5, <3>1
        <3>2. QED
            BY Zenon, <2>7, <2>8, <3>1
    <2>10. b.seq - log[i].seq = log[p].seq + Length - log[i].seq
        BY SMTT(60), <1>2, <2>1, <2>6, <2>8
    <2>11. QED
        BY <2>9, <2>10
<1>4. \A i, j \in 1 .. Len(log) : log[j].seq - log[i].seq = j - i
    BY SMTT(60) DEF IInv, LogContiguous
<1>5. SUFFICES ASSUME NEW i \in 1 .. Len(log) + 1, NEW j \in 1 .. Len(log) + 1
               PROVE  log'[j].seq - log'[i].seq = j - i
    BY SMTT(60), <1>1 DEF LogContiguous
<1>6. CASE i \in 1 .. Len(log) /\ j \in 1 .. Len(log)
    BY Zenon, <1>6, <1>4, <1>2
<1>7. CASE i \in 1 .. Len(log) /\ j = Len(log) + 1
    BY SMTT(60), <1>7, <1>3, <1>2
<1>8. CASE i = Len(log) + 1 /\ j \in 1 .. Len(log)
    <2>1. b.seq - log[j].seq = Len(log) + 1 - j
        BY <1>8, <1>3
    <2>2. log[j].seq \in Int /\ b.seq \in Int /\ log'[j] = log[j] /\ log'[i] = b
        BY <1>8, <1>2
    <2>3. QED
        BY SMTT(60), <2>1, <2>2, <1>8, <1>1
<1>9. CASE i = Len(log) + 1 /\ j = Len(log) + 1
    BY <1>9, <1>2
<1>10. QED
    BY <1>1, <1>6, <1>7, <1>8, <1>9

\* Appending behind the last bucket of a buffer that is not full.
LEMMA AppendNotFullSlides ==
    ASSUME IInv, NEW b \in Bucket, AppendNotFull(b), log' = Append(log, b)
    PROVE  WindowTypeOK' /\ StartsFull' /\ SlidingWindow'
<1>1. /\ buckets \in Seq(Bucket) /\ log \in Seq(Bucket) /\ start = 0 /\ start' = 0
      /\ Length \in Nat /\ Length < Capacity /\ Len(log) = Length
    BY WindowAssumption DEF IInv, WindowTypeOK, StartsFull, SlidingWindow, AppendNotFull, Length
<1>2. /\ buckets' \in Seq(Bucket) /\ log' \in Seq(Bucket)
      /\ Length' = Length + 1 /\ Len(log') = Length + 1
    BY <1>1 DEF AppendNotFull, Length
<1>3. WindowTypeOK'
    BY <1>1, <1>2, WindowAssumption DEF WindowTypeOK
<1>4. StartsFull'
    BY <1>1 DEF StartsFull
<1>5. \A i \in 0 .. Length : (0 + i) % (Length + 1) = i
    BY SMTT(60), <1>1
<1>6. \A i \in 0 .. Length : Get(i)' = buckets'[i + 1]
    BY Zenon, <1>1, <1>2, <1>5 DEF Get
<1>7. \A i \in 0 .. Length - 1 : Get(i) = buckets[i + 1]
    <2>1. \A i \in 0 .. Length - 1 : (0 + i) % Length = i
        BY SMTT(60), <1>1
    <2>2. QED
        BY Zenon, <2>1, <1>1 DEF Get
<1>8. \A i \in 0 .. Length - 1 : buckets[i + 1] = log[i + 1]
    <2> SUFFICES ASSUME NEW i \in 0 .. Length - 1
                 PROVE  buckets[i + 1] = log[i + 1]
        OBVIOUS
    <2>1. Get(i) = log[Len(log) - Length + 1 + i]
        BY DEF IInv, SlidingWindow
    <2>2. Len(log) - Length + 1 + i = i + 1
        BY <1>1
    <2>3. QED
        BY <1>7, <2>1, <2>2
<1>9. \A i \in 0 .. Length : buckets'[i + 1] = log'[i + 1]
    BY <1>1, <1>8 DEF AppendNotFull, Length
<1>10. Length' = IF Len(log') < Capacity THEN Len(log') ELSE Capacity
    BY <1>1, <1>2, WindowAssumption
<1>11. ASSUME NEW i \in 0 .. Length' - 1
       PROVE  Get(i)' = log'[Len(log') - Length' + 1 + i]
    <2>1. i \in 0 .. Length /\ Len(log') - Length' + 1 + i = i + 1
        BY <1>1, <1>2, <1>11
    <2>2. QED
        BY Zenon, <1>6, <1>9, <2>1
<1>12. SlidingWindow'
    BY Zenon, <1>10, <1>11 DEF SlidingWindow
<1>13. QED
    BY <1>3, <1>4, <1>12

\* Overwriting the oldest bucket of a full buffer.
LEMMA AppendFullSlides ==
    ASSUME IInv, NEW b \in Bucket, AppendFull(b), log' = Append(log, b)
    PROVE  WindowTypeOK' /\ StartsFull' /\ SlidingWindow'
<1>1. buckets \in Seq(Bucket) /\ log \in Seq(Bucket) /\ Len(log) \in Nat
    BY DEF IInv, WindowTypeOK
<1>2. Length \in Nat \ {0} /\ start \in 0 .. Length - 1
    BY <1>1, WindowAssumption DEF IInv, WindowTypeOK, AppendFull, Length
<1>3. Length = Capacity /\ Len(log) >= Length
    BY <1>1, <1>2, WindowAssumption DEF IInv, WindowTypeOK, SlidingWindow, AppendFull
<1>4. /\ buckets' \in Seq(Bucket) /\ log' \in Seq(Bucket)
      /\ Length' = Length /\ Len(log') = Len(log) + 1
    BY <1>1, <1>2 DEF AppendFull, Length
<1>5. start' = IF start + 1 < Length THEN start + 1 ELSE 0
    <2>1. (start + 1) % Length = IF start + 1 < Length THEN start + 1 ELSE 0
        BY <1>2
    <2>2. QED
        BY <2>1 DEF AppendFull
<1>6. WindowTypeOK' /\ StartsFull'
    BY <1>2, <1>3, <1>4, <1>5, WindowAssumption DEF WindowTypeOK, StartsFull
<1>7. start' \in 0 .. Length - 1
    BY <1>2, <1>5
<1>8. ASSUME NEW i \in 0 .. Length - 1
      PROVE  Get(i)' = log'[Len(log') - Length + 1 + i]
    <2>1. (start' + i) % Length = IF start' + i < Length THEN start' + i ELSE start' + i - Length
        <3>1. PICK s \in 0 .. Length - 1 : s = start'
            BY <1>7
        <3>2. (s + i) % Length = IF s + i < Length THEN s + i ELSE s + i - Length
            BY <1>2, <1>8
        <3>3. QED
            BY <3>1, <3>2
    <2>2. Get(i)' = buckets'[((start' + i) % Length) + 1]
        BY <1>4 DEF Get
    <2>3. CASE i = Length - 1
        <3>1. (start' + i) % Length = start
            BY <1>2, <1>5, <2>1, <2>3
        <3>2. buckets'[start + 1] = b
            BY <1>1, <1>2 DEF AppendFull, Length
        <3>3. log'[Len(log) + 1] = b
            BY <1>1
        <3>4. Len(log') - Length + 1 + i = Len(log) + 1
            BY <1>1, <1>2, <1>4, <2>3
        <3>5. QED
            BY <2>2, <3>1, <3>2, <3>3, <3>4
    <2>4. CASE i < Length - 1
        <3>1. i + 1 \in 0 .. Length - 1
            BY <1>2, <2>4
        <3>2. (start + (i + 1)) % Length = IF start + (i + 1) < Length THEN start + (i + 1) ELSE start + (i + 1) - Length
            BY SMTT(60), <1>2, <3>1
        <3>3. (start' + i) % Length = (start + (i + 1)) % Length
            BY <1>2, <1>5, <2>1, <3>2
        <3>4. PICK k \in 0 .. Length - 1 : k = (start + (i + 1)) % Length /\ k # start
            <4>1. (start + (i + 1)) % Length \in 0 .. Length - 1 /\ (start + (i + 1)) % Length # start
                BY SMTT(60), <1>2, <2>4, <3>1, <3>2
            <4>2. QED
                BY <4>1
        <3>5. buckets'[k + 1] = buckets[k + 1]
            BY SMTT(60), <1>1, <1>2, <3>4 DEF AppendFull, Length
        <3>6. buckets[k + 1] = Get(i + 1)
            BY <3>4 DEF Get
        <3>7. Get(i + 1) = log[Len(log) - Length + 1 + (i + 1)]
            BY SMTT(60), <3>1 DEF IInv, SlidingWindow
        <3>8. PICK p \in 1 .. Len(log) : p = Len(log) - Length + 1 + (i + 1) /\ p = Len(log') - Length + 1 + i
            <4>1. /\ Len(log) - Length + 1 + (i + 1) \in 1 .. Len(log)
                  /\ Len(log) - Length + 1 + (i + 1) = Len(log') - Length + 1 + i
                BY <1>1, <1>2, <1>3, <1>4, <3>1
            <4>2. QED
                BY <4>1
        <3>9. log'[p] = log[p]
            BY <1>1
        <3>10. QED
            BY <2>2, <3>3, <3>4, <3>5, <3>6, <3>7, <3>8, <3>9
    <2>5. i = Length - 1 \/ i < Length - 1
        BY <1>2, <1>8
    <2>6. QED
        BY Zenon, <2>3, <2>4, <2>5
<1>9. Length' = IF Len(log') < Capacity THEN Len(log') ELSE Capacity
    BY <1>1, <1>2, <1>3, <1>4
<1>10. SlidingWindow'
    BY Zenon, <1>4, <1>8, <1>9 DEF SlidingWindow
<1>11. QED
    BY <1>6, <1>10

\* The inductive invariant.
THEOREM WindowInvariant == SpecWindow => []IInv
<1>1. InitWindow => IInv
    BY EmptyWindow DEF InitWindow
<1>2. IInv /\ [NextWindow]_<<window, log>> => IInv'
    <2> SUFFICES ASSUME IInv, [NextWindow]_<<window, log>>
                 PROVE  IInv'
        OBVIOUS
    <2>1. ASSUME NEW b \in Bucket, AppendBucket(b)
          PROVE  IInv'
        BY <2>1, AppendKeepsContiguous, AppendNotFullSlides, AppendFullSlides DEF AppendBucket, IInv
    <2>2. CASE UNCHANGED <<window, log>>
        BY Zenon, <2>2 DEF window, IInv, WindowTypeOK, StartsFull, SlidingWindow, LogContiguous, Length, Get
    <2>3. CASE Reset
        BY <2>3, WindowAssumption DEF Reset, IInv, WindowTypeOK, StartsFull, SlidingWindow, LogContiguous, Length
    <2>4. ASSUME NEW b \in Bucket, RefuseBucket(b)
          PROVE  IInv'
        BY <2>2, <2>4 DEF RefuseBucket
    <2>5. QED
        BY <2>1, <2>2, <2>3, <2>4 DEF NextWindow
<1>3. QED
    BY <1>1, <1>2, PTL DEF SpecWindow

\* However often the buffer wraps around, Get reads the most recent buckets in
\* order, for every capacity.
THEOREM Slides == SpecWindow => []SlidingWindow
<1>1. IInv => SlidingWindow
    BY DEF IInv
<1>2. QED
    BY <1>1, WindowInvariant, PTL

\* The window covers its ledgers without a gap and GetLedgerRange names its
\* ends, for every capacity.
THEOREM CoversWithoutGap == SpecWindow => []NoGap
<1>1. ASSUME IInv
      PROVE  NoGap
    <2>1. CASE Length = 0
        BY <2>1 DEF NoGap
    <2>2. CASE Length # 0
        <3>1. Length \in Nat \ {0} /\ Len(log) \in Nat /\ Length <= Len(log) /\ log \in Seq(Bucket)
            BY <1>1, <2>2, WindowAssumption DEF IInv, WindowTypeOK, SlidingWindow, Length
        <3>2. \A i \in 0 .. Length - 1 : Get(i) = log[Len(log) - Length + 1 + i]
            BY <1>1 DEF IInv, SlidingWindow
        <3>3. \A i \in 0 .. Length - 1 : Len(log) - Length + 1 + i \in 1 .. Len(log)
            BY <3>1
        <3>4. \A i \in 0 .. Length - 1 : Get(i).seq - Get(0).seq = i /\ Get(i).seq \in Int
            <4> SUFFICES ASSUME NEW i \in 0 .. Length - 1
                         PROVE  Get(i).seq - Get(0).seq = i /\ Get(i).seq \in Int
                OBVIOUS
            <4>1. Len(log) - Length + 1 + i \in 1 .. Len(log) /\ Len(log) - Length + 1 + 0 \in 1 .. Len(log)
                BY <3>1, <3>3
            <4>2. log[Len(log) - Length + 1 + i].seq - log[Len(log) - Length + 1 + 0].seq = i
                <5>1. PICK p, q \in 1 .. Len(log) : p = Len(log) - Length + 1 + i /\ q = Len(log) - Length + 1 + 0
                    BY <4>1
                <5>2. p - q = i
                    BY <5>1, <3>1
                <5>3. log[p].seq - log[q].seq = p - q
                    BY <1>1 DEF IInv, LogContiguous
                <5>4. QED
                    BY <5>1, <5>2, <5>3
            <4>3. log[Len(log) - Length + 1 + i].seq \in Int
                <5>1. log[Len(log) - Length + 1 + i] \in Bucket
                    BY SMTT(60), <3>1, <4>1
                <5>2. QED
                    BY <5>1, WindowAssumption DEF Bucket
            <4>4. QED
                BY SMTT(60), <3>1, <3>2, <4>2, <4>3
        <3>5. GetLedgerRange = [first |-> Get(0).seq, last |-> Get(Length - 1).seq]
            BY <2>2 DEF GetLedgerRange
        <3>6. Get(0).seq \in Int
            BY <3>1, <3>4
        <3>7. QED
            BY SMTT(60), <3>1, <3>4, <3>5, <3>6 DEF NoGap
    <2>3. QED
        BY <2>1, <2>2
<1>2. QED
    BY <1>1, WindowInvariant, PTL

\* A reader of the window gets exactly the latest ledgers, in order and without a
\* gap, for every capacity and content.
THEOREM WindowIsLatest == SpecWindow => []LatestLedgers
<1>1. SlidingWindow /\ NoGap => LatestLedgers
    BY DEF LatestLedgers
<1>2. QED
    BY <1>1, Slides, CoversWithoutGap, PTL

-----------------------------------------------------------------------------
(* Requests.  The counter of the limiter is the number of handlers that    *)
(* are inside it or being rejected (Counted); since it is compared after   *)
(* it was counted up, those inside never exceed the limit.  A request is   *)
(* in the channel or with a worker at most once (Once), so that the pool   *)
(* drops no request when it hands a result over.                           *)

LimiterStates == {"rejecting", "admitted", "checked", "waiting"}
InLimiter == {r \in Requests : handler[r] \in LimiterStates}
Waiting == {r \in Requests : handler[r] = "waiting"}
Queued == {r \in Requests : \E i \in 1 .. Len(requestChan) : requestChan[i] = r}
Running == {r \in Requests : \E w \in Workers : worker[w] = r}

Typed ==
    /\ caller \in [Requests -> {"none", "waiting", "timeout", "busy", "internal", "error", "full", "ok"}]
    /\ handler \in [Requests -> {"none", "arrived", "rejecting", "admitted", "checked", "waiting", "done"}]
    /\ pending \in Int /\ isClosed \in BOOLEAN
    /\ requestChan \in Seq(Requests) /\ Len(requestChan) <= QueueSize
    /\ worker \in [Workers -> Requests \union {Idle, Exited}]
    /\ daemon \in {"up", "draining", "dbClosed", "waiting", "closed"}

Fresh == \A r \in Requests : caller[r] = "none" => handler[r] = "none"
Counted == pending = Cardinality(InLimiter)
Held == Waiting = Queued \union Running
Once ==
    /\ \A i, j \in 1 .. Len(requestChan) : requestChan[i] = requestChan[j] => i = j
    /\ \A v, w \in Workers : worker[v] = worker[w] /\ worker[v] \in Requests => v = w
    /\ Queued \intersect Running = {}

LimitInv == Typed /\ Fresh /\ Counted /\ WithinLimit
PoolInv == Held /\ Once
Inv == LimitInv /\ PoolInv

-----------------------------------------------------------------------------
LEMMA FiniteParts ==
    ASSUME RequestsConfig
    PROVE  /\ IsFiniteSet(InLimiter) /\ IsFiniteSet(Inside)
           /\ Cardinality(InLimiter) \in 0 .. Cardinality(Requests)
           /\ Cardinality(Inside) \in 0 .. Cardinality(InLimiter)
<1>1. IsFiniteSet(Requests) /\ InLimiter \subseteq Requests /\ Inside \subseteq InLimiter
    BY DEF RequestsConfig, InLimiter, Inside, LimiterStates
<1>2. IsFiniteSet(InLimiter) /\ Cardinality(InLimiter) <= Cardinality(Requests)
    BY <1>1, FS_Subset
<1>3. IsFiniteSet(Inside) /\ Cardinality(Inside) <= Cardinality(InLimiter)
    BY <1>1, <1>2, FS_Subset
<1>4. Cardinality(Requests) \in Nat /\ Cardinality(InLimiter) \in Nat /\ Cardinality(Inside) \in Nat
    BY <1>1, <1>2, <1>3, FS_CardinalityType
<1> QED
    BY <1>2, <1>3, <1>4

\* A handler moves on inside the limiter, or outside of it.
LEMMA Moves ==
    ASSUME LimitInv, RequestsConfig, Typed', Fresh', UNCHANGED pending,
           \/ UNCHANGED handler
           \/ \E r \in Requests, pc \in {"arrived", "admitted", "checked", "waiting"} :
                 /\ handler' = [handler EXCEPT ![r] = pc]
                 /\ handler[r] \in {"admitted", "checked", "waiting"} <=> pc \in {"admitted", "checked", "waiting"}
                 /\ handler[r] # "rejecting"
    PROVE  LimitInv'
<1>1. InLimiter' = InLimiter /\ Inside' = Inside
    BY DEF LimitInv, Typed, InLimiter, Inside, LimiterStates
<1> QED
    BY <1>1 DEF LimitInv, Counted, WithinLimit

\* A handler leaves the limiter and gives its slot back.
LEMMA Leaves ==
    ASSUME LimitInv, RequestsConfig, NEW r \in Requests, Typed', Fresh',
           handler[r] \in LimiterStates, handler' = [handler EXCEPT ![r] = "done"], pending' = pending - 1
    PROVE  LimitInv'
<1>1. InLimiter' = InLimiter \ {r} /\ r \in InLimiter /\ Inside' \subseteq Inside
    BY DEF LimitInv, Typed, InLimiter, Inside, LimiterStates
<1>2. Cardinality(InLimiter') = Cardinality(InLimiter) - 1
    BY Zenon, <1>1, FiniteParts, FS_RemoveElement
<1>3. Cardinality(Inside') <= Cardinality(Inside)
    BY <1>1, FiniteParts, FS_Subset
<1>4. Cardinality(Inside) \in Nat /\ Cardinality(Inside') \in Nat
    <2>1. IsFiniteSet(Inside')
        BY <1>1, FiniteParts, FS_Subset
    <2> QED
        BY <2>1, FiniteParts, FS_CardinalityType
<1> QED
    BY <1>2, <1>3, <1>4 DEF LimitInv, Counted, WithinLimit, RequestsConfig

LEMMA EnterLimit ==
    ASSUME LimitInv, RequestsConfig, NEW r \in Requests, Typed', Fresh', Enter(r)
    PROVE  LimitInv'
<1>1. handler' = [handler EXCEPT ![r] = IF OverLimit(pending') THEN "rejecting" ELSE "admitted"]
    BY DEF Enter, At
<1>2. InLimiter' = InLimiter \union {r} /\ r \notin InLimiter
    BY <1>1 DEF LimitInv, Typed, InLimiter, LimiterStates, Enter
<1>3. Cardinality(InLimiter') = Cardinality(InLimiter) + 1 /\ IsFiniteSet(InLimiter')
    BY <1>2, FiniteParts, FS_AddElement
<1>4. pending' = Cardinality(InLimiter')
    BY <1>3 DEF Enter, LimitInv, Counted
<1>5. WithinLimit'
    <2>1. CASE OverLimit(pending')
        <3>1. Inside' = Inside
            BY <1>1, <2>1 DEF LimitInv, Typed, Inside, Enter
        <3> QED
            BY <3>1 DEF LimitInv, WithinLimit
    <2>2. CASE ~OverLimit(pending')
        <3>1. Inside' \subseteq InLimiter'
            BY DEF Inside, InLimiter, LimiterStates
        <3>2. Cardinality(Inside') <= Cardinality(InLimiter') /\ IsFiniteSet(Inside')
            BY <1>3, <3>1, FS_Subset
        <3>3. Cardinality(Inside') \in Nat /\ Cardinality(InLimiter') \in Nat
            BY <1>3, <3>2, FS_CardinalityType
        <3> QED
            BY <1>4, <2>2, <3>2, <3>3 DEF OverLimit, WithinLimit, RequestsConfig
    <2> QED
        BY <2>1, <2>2
<1> QED
    BY <1>4, <1>5 DEF LimitInv, Counted

-----------------------------------------------------------------------------
\* Steps that neither hand a request to the pool nor take it back.
LEMMA PoolUntouched ==
    ASSUME PoolInv, Waiting' = Waiting, UNCHANGED <<requestChan, worker>>
    PROVE  PoolInv'
<1>1. Queued' = Queued /\ Running' = Running
    BY DEF Queued, Running
<1> QED
    BY <1>1 DEF PoolInv, Held, Once

LEMMA SendPool ==
    ASSUME LimitInv, PoolInv, NEW r \in Requests, Send(r) PROVE PoolInv'
<1> DEFINE n == Len(requestChan)
<1>1. /\ n \in Nat /\ Len(requestChan') = n + 1
      /\ \A i \in 1 .. n : requestChan'[i] = requestChan[i]
      /\ requestChan'[n + 1] = r
    BY DEF Send, LimitInv, Typed
<1>2. Queued' = Queued \union {r}
    BY SMTT(60), <1>1 DEF Queued
<1>3. Running' = Running
    BY DEF Running, Send
<1>4. Waiting' = Waiting \union {r} /\ r \notin Waiting
    BY DEF Waiting, Send, At, LimitInv, Typed
<1>5. r \notin Queued /\ r \notin Running
    BY <1>4 DEF PoolInv, Held
<1>6. \A i, j \in 1 .. n + 1 : requestChan'[i] = requestChan'[j] => i = j
    <2>1. \A i \in 1 .. n : requestChan[i] # r
        BY <1>5 DEF Queued
    <2> QED
        BY SMTT(60), <1>1, <2>1 DEF PoolInv, Once
<1> QED
    BY <1>1, <1>2, <1>3, <1>4, <1>5, <1>6 DEF PoolInv, Held, Once, Send

LEMMA TakePool ==
    ASSUME LimitInv, PoolInv, RequestsConfig, NEW w \in Workers, Take(w) PROVE PoolInv'
<1> DEFINE n == Len(requestChan)
<1>1. Waiting' = Waiting /\ w \in DOMAIN worker /\ worker[w] = Idle
    BY DEF Take, Waiting, LimitInv, Typed
<1>2. ASSUME requestChan # <<>>, worker' = [worker EXCEPT ![w] = Head(requestChan)],
             requestChan' = Tail(requestChan)
      PROVE  PoolInv'
    <2> DEFINE r == requestChan[1]
    <2>1. /\ n \in Nat \ {0} /\ Len(requestChan') = n - 1 /\ r \in Requests
          /\ \A i \in 1 .. n - 1 : requestChan'[i] = requestChan[i + 1]
          /\ worker' = [worker EXCEPT ![w] = r]
        BY <1>2 DEF LimitInv, Typed
    <2>2. Queued' = Queued \ {r}
        <3>1. \A x \in Requests : x \in Queued' <=> \E i \in 2 .. n : requestChan[i] = x
            <4>1. \A i \in 2 .. n : i - 1 \in 1 .. n - 1 /\ requestChan'[i - 1] = requestChan[i]
                BY <2>1
            <4>2. \A i \in 1 .. n - 1 : i + 1 \in 2 .. n
                BY <2>1
            <4> QED
                BY SMTT(60), <2>1, <4>1, <4>2 DEF Queued
        <3>2. \A i \in 2 .. n : requestChan[i] # r
            BY <2>1 DEF PoolInv, Once
        <3> QED
            BY <2>1, <3>1, <3>2 DEF Queued
    <2>3. Running' = Running \union {r}
        BY <1>1, <2>1 DEF Running, LimitInv, Typed, RequestsConfig
    <2>4. r \in Queued /\ r \notin Running
        BY <2>1 DEF Queued, PoolInv, Once
    <2>5. \A i, j \in 1 .. n - 1 : requestChan'[i] = requestChan'[j] => i = j
        BY SMTT(60), <2>1 DEF PoolInv, Once
    <2>6. \A u, v \in Workers : worker'[u] = worker'[v] /\ worker'[u] \in Requests => u = v
        <3>1. \A u \in Workers : worker[u] # r
            BY <2>1, <2>4 DEF Running
        <3> QED
            BY <2>1, <3>1 DEF PoolInv, Once, LimitInv, Typed
    <2> QED
        BY <1>1, <2>1, <2>2, <2>3, <2>4, <2>5, <2>6 DEF PoolInv, Held, Once
<1>3. ASSUME worker' = [worker EXCEPT ![w] = Exited], UNCHANGED requestChan
      PROVE  PoolInv'
    <2>1. Queued' = Queued
        BY <1>3 DEF Queued
    <2>2. Running' = Running
        BY <1>1, <1>3 DEF Running, LimitInv, Typed, RequestsConfig
    <2>3. \A u, v \in Workers : worker'[u] = worker'[v] /\ worker'[u] \in Requests => u = v
        BY <1>3 DEF PoolInv, Once, LimitInv, Typed, RequestsConfig
    <2> QED
        BY <1>1, <1>3, <2>1, <2>2, <2>3 DEF PoolInv, Held, Once
<1> QED
    BY <1>2, <1>3 DEF Take

LEMMA FinishPool ==
    ASSUME LimitInv, PoolInv, RequestsConfig, NEW w \in Workers, Finish(w) PROVE PoolInv'
<1> DEFINE r == worker[w]
<1>1. /\ r \in Requests /\ handler[r] = "waiting" /\ handler' = [handler EXCEPT ![r] = "done"]
      /\ worker' = [worker EXCEPT ![w] = Idle] /\ UNCHANGED requestChan
    BY DEF Finish, Leave, At
<1>2. Waiting' = Waiting \ {r}
    BY <1>1 DEF Waiting, LimitInv, Typed
<1>3. Queued' = Queued
    BY <1>1 DEF Queued
<1>4. Running' = Running \ {r}
    <2>1. \A v \in Workers : worker[v] = r => v = w
        BY <1>1 DEF PoolInv, Once
    <2> QED
        BY <1>1, <2>1 DEF Running, LimitInv, Typed, RequestsConfig
<1>5. r \in Running
    BY <1>1 DEF Running
<1>6. \A u, v \in Workers : worker'[u] = worker'[v] /\ worker'[u] \in Requests => u = v
    BY <1>1 DEF PoolInv, Once, LimitInv, Typed, RequestsConfig
<1> QED
    BY <1>1, <1>2, <1>3, <1>4, <1>5, <1>6 DEF PoolInv, Held, Once

-----------------------------------------------------------------------------
LEMMA InitInv ==
    ASSUME RequestsConfig, RequestsInit PROVE Inv
<1>1. InLimiter = {} /\ Inside = {} /\ Waiting = {} /\ Queued = {} /\ Running = {}
    BY DEF RequestsInit, InLimiter, Inside, Waiting, Queued, Running, LimiterStates, RequestsConfig
<1>2. Cardinality(InLimiter) = 0 /\ Cardinality(Inside) = 0
    BY <1>1, FS_EmptySet
<1>3. Typed /\ Fresh
    <2>1. requestChan \in Seq(Requests) /\ Len(requestChan) = 0
        BY DEF RequestsInit
    <2>2. pending \in Int /\ Len(requestChan) <= QueueSize
        BY <2>1, SMT DEF RequestsInit, RequestsConfig
    <2>3. worker \in [Workers -> Requests \union {Idle, Exited}] /\ Fresh
        BY DEF RequestsInit, Fresh
    <2>4. /\ caller \in [Requests -> {"none", "waiting", "timeout", "busy", "internal", "error", "full", "ok"}]
          /\ handler \in [Requests -> {"none", "arrived", "rejecting", "admitted", "checked", "waiting", "done"}]
          /\ daemon \in {"up", "draining", "dbClosed", "waiting", "closed"}
        BY DEF RequestsInit
    <2>5. isClosed \in BOOLEAN
        BY Zenon DEF RequestsInit
    <2> QED
        BY <2>1, <2>2, <2>3, <2>4, <2>5 DEF Typed
<1>4. LimitInv
    BY <1>2, <1>3 DEF LimitInv, Counted, WithinLimit, RequestsInit, RequestsConfig
<1>5. PoolInv
    BY <1>1 DEF PoolInv, Held, Once, RequestsInit, RequestsConfig
<1> QED
    BY <1>4, <1>5 DEF Inv

\* Types, and that a handler is started with its caller, step by step.
LEMMA StepTyped ==
    ASSUME Typed, Fresh, RequestsConfig, [RequestsNext]_requestVars PROVE Typed' /\ Fresh'
<1>1. ASSUME NEW r \in Requests, Arrive(r) PROVE Typed' /\ Fresh'
    BY <1>1 DEF Arrive, At, Typed, Fresh
<1>2. ASSUME NEW r \in Requests, Timeout(r) PROVE Typed' /\ Fresh'
    BY <1>2 DEF Timeout, Answer, Typed, Fresh
<1>3. ASSUME NEW r \in Requests, Enter(r) PROVE Typed' /\ Fresh'
    BY <1>3 DEF Enter, At, Typed, Fresh
<1>4. ASSUME NEW r \in Requests, NEW a \in {"busy", "internal", "error", "full", "ok"},
             handler[r] \in LimiterStates, Leave(r, a)
      PROVE  /\ caller' \in [Requests -> {"none", "waiting", "timeout", "busy", "internal", "error", "full", "ok"}]
             /\ handler' \in [Requests -> {"none", "arrived", "rejecting", "admitted", "checked", "waiting", "done"}]
             /\ pending' \in Int /\ Fresh'
    BY <1>4 DEF Leave, At, Answer, Typed, Fresh, LimiterStates
<1>5. ASSUME NEW r \in Requests, Reject(r) PROVE Typed' /\ Fresh'
    BY <1>4, <1>5 DEF Reject, Leave, LimiterStates, Typed
<1>6. ASSUME NEW r \in Requests, CheckClosed(r) PROVE Typed' /\ Fresh'
    <2>1. CASE Leave(r, "error")
        BY <1>4, <1>6, <2>1 DEF CheckClosed, LimiterStates, Typed
    <2>2. CASE At(r, "checked") /\ UNCHANGED <<caller, pending>>
        BY <1>6, <2>2 DEF CheckClosed, At, Typed, Fresh
    <2> QED
        BY <1>6, <2>1, <2>2 DEF CheckClosed
<1>7. ASSUME NEW r \in Requests, Send(r) PROVE Typed' /\ Fresh'
    BY <1>7 DEF Send, At, Typed, Fresh, RequestsConfig
<1>8. ASSUME NEW r \in Requests, SendPanics(r) \/ Cancelled(r) \/ QueueFull(r) PROVE Typed' /\ Fresh'
    BY <1>4, <1>8 DEF SendPanics, Cancelled, QueueFull, LimiterStates, Typed
<1>9. ASSUME NEW w \in Workers, Take(w) PROVE Typed' /\ Fresh'
    <2>1. CASE requestChan # <<>> /\ worker' = [worker EXCEPT ![w] = Head(requestChan)] /\ requestChan' = Tail(requestChan)
        <3>1. /\ Head(requestChan) \in Requests /\ requestChan' \in Seq(Requests)
              /\ Len(requestChan') = Len(requestChan) - 1
            BY <2>1 DEF Typed
        <3>2. Len(requestChan') <= QueueSize
            BY <3>1 DEF Typed, RequestsConfig
        <3>3. worker' \in [Workers -> Requests \union {Idle, Exited}]
            BY <2>1, <3>1 DEF Typed
        <3> QED
            BY <1>9, <3>1, <3>2, <3>3 DEF Take, Typed, Fresh
    <2>2. CASE worker' = [worker EXCEPT ![w] = Exited] /\ UNCHANGED requestChan
        BY <1>9, <2>2 DEF Take, Typed, Fresh
    <2> QED
        BY <1>9, <2>1, <2>2 DEF Take
<1>10. ASSUME NEW w \in Workers, Finish(w) PROVE Typed' /\ Fresh'
    <2>1. PICK a \in {"ok", "error"} : Leave(worker[w], a)
        BY <1>10 DEF Finish
    <2> QED
        BY <1>4, <1>10, <2>1 DEF Finish, LimiterStates, Typed
<1>11. CASE Shutdown \/ CloseStep \/ UNCHANGED requestVars
    BY Zenon, <1>11 DEF Shutdown, CloseStep, CloseDb, ClosePool, Closed, requestVars, Typed, Fresh
<1> QED
    BY <1>1, <1>2, <1>3, <1>5, <1>6, <1>7, <1>8, <1>9, <1>10, <1>11 DEF RequestsNext, HandlerStep

LEMMA StepLimit ==
    ASSUME LimitInv, RequestsConfig, [RequestsNext]_requestVars PROVE LimitInv'
<1>0. Typed' /\ Fresh'
    BY StepTyped DEF LimitInv
<1>1. ASSUME NEW r \in Requests, Arrive(r) PROVE LimitInv'
    <2>1. handler[r] = "none" /\ handler' = [handler EXCEPT ![r] = "arrived"] /\ UNCHANGED pending
        BY <1>1 DEF Arrive, At, LimitInv, Fresh
    <2> QED
        BY Zenon, <1>0, <2>1, Moves
<1>2. ASSUME NEW r \in Requests, Timeout(r) PROVE LimitInv'
    BY <1>0, <1>2, Moves DEF Timeout
<1>3. ASSUME NEW r \in Requests, Enter(r) PROVE LimitInv'
    BY <1>0, <1>3, EnterLimit
<1>4. ASSUME NEW r \in Requests, NEW a, handler[r] \in LimiterStates, Leave(r, a) PROVE LimitInv'
    BY Zenon, <1>0, <1>4, Leaves DEF Leave, At
<1>5. ASSUME NEW r \in Requests, Reject(r) PROVE LimitInv'
    BY <1>4, <1>5 DEF Reject, Leave, LimiterStates
<1>6. ASSUME NEW r \in Requests, CheckClosed(r) PROVE LimitInv'
    <2>1. CASE Leave(r, "error")
        BY <1>4, <1>6, <2>1 DEF CheckClosed, LimiterStates
    <2>2. CASE At(r, "checked") /\ UNCHANGED <<caller, pending>>
        BY Zenon, <1>0, <1>6, <2>2, Moves DEF CheckClosed, At
    <2> QED
        BY <1>6, <2>1, <2>2 DEF CheckClosed
<1>7. ASSUME NEW r \in Requests, Send(r) PROVE LimitInv'
    BY Zenon, <1>0, <1>7, Moves DEF Send, At
<1>8. ASSUME NEW r \in Requests, SendPanics(r) \/ Cancelled(r) \/ QueueFull(r) PROVE LimitInv'
    BY <1>4, <1>8 DEF SendPanics, Cancelled, QueueFull, LimiterStates
<1>9. ASSUME NEW w \in Workers, Take(w) PROVE LimitInv'
    BY <1>0, <1>9, Moves DEF Take
<1>10. ASSUME NEW w \in Workers, Finish(w) PROVE LimitInv'
    BY <1>4, <1>10 DEF Finish, LimiterStates
<1>11. CASE Shutdown \/ CloseStep \/ UNCHANGED requestVars
    BY <1>0, <1>11, Moves DEF Shutdown, CloseStep, CloseDb, ClosePool, Closed, requestVars
<1> QED
    BY <1>1, <1>2, <1>3, <1>5, <1>6, <1>7, <1>8, <1>9, <1>10, <1>11 DEF RequestsNext, HandlerStep

LEMMA StepPool ==
    ASSUME LimitInv, PoolInv, RequestsConfig, [RequestsNext]_requestVars PROVE PoolInv'
<1>1. ASSUME NEW r \in Requests, Arrive(r) PROVE PoolInv'
    <2>1. Waiting' = Waiting
        BY <1>1 DEF Arrive, At, LimitInv, Typed, Fresh, Waiting
    <2> QED
        BY <1>1, <2>1, PoolUntouched DEF Arrive
<1>2. ASSUME NEW r \in Requests,
             \/ Timeout(r) \/ Enter(r) \/ Reject(r) \/ CheckClosed(r)
             \/ SendPanics(r) \/ Cancelled(r) \/ QueueFull(r)
      PROVE  PoolInv'
    <2>1. \/ UNCHANGED handler
          \/ /\ handler[r] # "waiting"
             /\ \E pc \in {"rejecting", "admitted", "checked", "done"} : handler' = [handler EXCEPT ![r] = pc]
        BY <1>2 DEF Timeout, Enter, Reject, CheckClosed, SendPanics, Cancelled, QueueFull, Leave, At
    <2>2. Waiting' = Waiting
        BY <2>1 DEF Waiting, LimitInv, Typed
    <2> QED
        BY <1>2, <2>2, PoolUntouched DEF Timeout, Enter, Reject, CheckClosed, SendPanics, Cancelled, QueueFull
<1>3. ASSUME NEW r \in Requests, Send(r) PROVE PoolInv'
    BY <1>3, SendPool
<1>4. ASSUME NEW w \in Workers, Take(w) PROVE PoolInv'
    BY <1>4, TakePool
<1>5. ASSUME NEW w \in Workers, Finish(w) PROVE PoolInv'
    BY <1>5, FinishPool
<1>6. CASE Shutdown \/ CloseStep \/ UNCHANGED requestVars
    BY <1>6, PoolUntouched DEF Shutdown, CloseStep, CloseDb, ClosePool, Closed, requestVars, Waiting
<1> QED
    BY <1>1, <1>2, <1>3, <1>4, <1>5, <1>6 DEF RequestsNext, HandlerStep

LEMMA InvImplies ==
    ASSUME Inv, RequestsConfig PROVE RequestsTypeOK /\ WithinLimit /\ SlotsReturned /\ PoolHoldsWaiting
<1>1. RequestsTypeOK /\ WithinLimit
    BY FiniteParts DEF Inv, LimitInv, Typed, Counted, RequestsTypeOK
<1>2. SlotsReturned
    <2>1. ASSUME \A r \in Requests : handler[r] \in {"none", "done"} PROVE InLimiter = {}
        BY <2>1 DEF InLimiter, LimiterStates
    <2> QED
        BY <2>1, FS_EmptySet DEF Inv, LimitInv, Counted, SlotsReturned
<1>3. PoolHoldsWaiting
    BY DEF Inv, PoolInv, Held, Waiting, Queued, Running, PoolHoldsWaiting
<1> QED
    BY <1>1, <1>2, <1>3

\* However requests time out, are rejected, panic or are cut off by the shutdown,
\* handlers beyond the limit never run at once, no slot is lost, and the pool has
\* exactly the requests whose handlers wait for it (backlogQLimiter, WorkerPool).
THEOREM RequestsAccounted == RequestsSpec => []SlotsAccounted
<1> USE RequestsAssumption
<1>1. RequestsInit => Inv
    BY InitInv
<1>2. Inv /\ [RequestsNext]_requestVars => Inv'
    BY StepLimit, StepPool DEF Inv
<1>3. Inv => SlotsAccounted
    BY InvImplies DEF SlotsAccounted
<1> QED
    BY <1>1, <1>2, <1>3, PTL DEF RequestsSpec

-----------------------------------------------------------------------------
(* The migrations.  While the common transaction is open, the migrations   *)
(* that were done have their committed rows in it and the others have all  *)
(* their rows but those of the ledgers that are still to be streamed;      *)
(* every migration has set its guard in the transaction or is still to do  *)
(* so (Streaming).  The fee windows have their ledgers but those still to  *)
(* be streamed (Feeding).                                                  *)

\* A bounded set of ledgers has an oldest and a newest one.
LEMMA SetMin ==
    ASSUME NEW S \in SUBSET Nat, S # {}
    PROVE  Min(S) \in S /\ \A y \in S : Min(S) <= y
<1>1. \E x \in S : \A y \in S : ~(<<y, x>> \in OpToRel(<, Nat))
    BY Zenon, NatLessThanWellFounded, WFMin
<1>2. PICK x \in S : \A y \in S : ~(<<y, x>> \in OpToRel(<, Nat))
    BY Zenon, <1>1
<1>3. \A y \in S : x <= y
    <2> TAKE y \in S
    <2>1. ~(y < x)
        BY Zenon, <1>2 DEF OpToRel
    <2> QED BY <2>1
<1> QED BY Zenon, <1>3 DEF Min

LEMMA SetMax ==
    ASSUME NEW n \in Nat, NEW S \in SUBSET (0 .. n), S # {}
    PROVE  Max(S) \in S /\ \A y \in S : Max(S) >= y
<1> DEFINE T == {n - x : x \in S}
<1>1. T \in SUBSET Nat /\ T # {}
    <2>1. \A x \in S : n - x \in Nat
        OBVIOUS
    <2> QED BY Zenon, <2>1
<1>2. PICK t \in T : \A u \in T : t <= u
    <2> HIDE DEF T
    <2> QED BY Zenon, <1>1, SetMin
<1>3. PICK x \in S : t = n - x
    OBVIOUS
<1>4. \A y \in S : n - y \in T
    OBVIOUS
<1>5. \A y \in S : x >= y
    <2> TAKE y \in S
    <2>1. n - x <= n - y
        BY SMTT(60), <1>2, <1>3, <1>4
    <2>2. x \in Nat /\ y \in Nat
        OBVIOUS
    <2> QED BY <2>1, <2>2
<1> QED BY Zenon, <1>5 DEF Max

-----------------------------------------------------------------------------
Metas == FirstLedger .. MaxMeta
Kept(size) == {l \in metas : l >= LatestStored - size}

TxTyped == tx \in [open : BOOLEAN, table : [Migrations -> SUBSET Metas], done : SUBSET Migrations]

NothingForeign == \A m \in Migrations : table[m] \subseteq metas

Guarded ==
    /\ \A m \in done \ outside : Kept(HistoryWindow) \subseteq table[m]
    /\ process = "running" => done = Migrations

Streaming ==
    process = "starting" /\ tx.open =>
        /\ \A m \in done : tx.table[m] = table[m]
        /\ \A m \in Migrations \ done :
              tx.table[m] \subseteq metas /\ Kept(HistoryWindow) \subseteq tx.table[m] \union todo
        /\ tx.done \union Range(order) = Migrations
        /\ todo # {} => done = Migrations \ Range(order)

Feeding ==
    /\ process = "down" => fed = {}
    /\ process = "starting" =>
        /\ todo \subseteq metas
        /\ fed \union {l \in todo : l >= LatestStored - FeeStatsWindow} = Kept(FeeStatsWindow)
        /\ todo # {} => tx.open

MigrationInv ==
    MigrationTypeOK /\ TxTyped /\ NothingForeign /\ Guarded /\ Streaming /\ Feeding

\* The newest ledger of the database, 0 when there is none.
LEMMA StoredMax ==
    ASSUME metas \subseteq Metas
    PROVE  /\ LatestStored \in 0 .. MaxMeta
           /\ \A l \in metas : l \in Nat /\ l <= LatestStored
           /\ metas # {} => LatestStored \in metas
<1>0. MaxMeta \in Nat /\ FirstLedger = 2
    BY MigrationAssumption DEF MigrationConfig, FirstLedger
<1>1. metas \in SUBSET (0 .. MaxMeta)
    BY <1>0 DEF Metas
<1>2. CASE metas = {}
    BY <1>0, <1>2 DEF LatestStored
<1>3. CASE metas # {}
    <2>1. LatestStored \in metas /\ \A l \in metas : LatestStored >= l
        BY Zenon, <1>0, <1>1, <1>3, SetMax DEF LatestStored
    <2> QED BY <1>0, <1>1, <2>1
<1> QED BY <1>2, <1>3

\* Which ledgers GetMigrationLedgerRange and IsLedgerIncluded choose.
LEMMA Included ==
    ASSUME metas \subseteq Metas, NEW l \in metas
    PROVE  /\ \A m \in Migrations : IsLedgerIncluded(m, l) <=> l >= LatestStored - HistoryWindow
           /\ IsLedgerIncluded("fees", l) <=> l >= LatestStored - FeeStatsWindow
           /\ \A m \in Migrations \union {"fees"} : FirstOf(m) \in Nat
<1>1. /\ HistoryWindow \in Nat /\ FeeStatsWindow \in Nat /\ FirstLedger = 2
      /\ LatestStored \in Nat /\ l \in Nat /\ l <= LatestStored /\ l >= FirstLedger
    BY StoredMax, MigrationAssumption DEF MigrationConfig, FirstLedger, Metas
<1>2. \A m \in Migrations : m # "fees"
    BY DEF Migrations
<1>3. ASSUME NEW size \in Nat
      PROVE  LET first == IF LatestStored > size THEN LatestStored - size ELSE FirstLedger
             IN  first \in Nat /\ (l >= first <=> l >= LatestStored - size)
    BY <1>1
<1> QED BY <1>1, <1>2, <1>3 DEF IsLedgerIncluded, FirstOf

\* MultiMigration.ApplicableRange misses no ledger of a member.
LEMMA Applicable ==
    ASSUME metas \subseteq Metas, NEW unmigrated \in SUBSET Migrations
    PROVE  LET range == ApplicableRange(unmigrated \union {"fees"})
           IN  /\ range \subseteq metas
               /\ Kept(FeeStatsWindow) \subseteq range
               /\ unmigrated # {} => Kept(HistoryWindow) \subseteq range
<1> DEFINE firsts == {FirstOf(m) : m \in unmigrated \union {"fees"}}
<1> SUFFICES ASSUME NEW l \in metas
             PROVE  /\ l >= LatestStored - FeeStatsWindow => l \in ApplicableRange(unmigrated \union {"fees"})
                    /\ unmigrated # {} /\ l >= LatestStored - HistoryWindow =>
                          l \in ApplicableRange(unmigrated \union {"fees"})
    BY DEF Kept, ApplicableRange
<1>1. \A m \in Migrations \union {"fees"} : FirstOf(m) \in Nat
    BY Included
<1>2. firsts \in SUBSET Nat /\ firsts # {}
    BY <1>1
<1>3. Min(firsts) \in Nat /\ \A first \in firsts : Min(firsts) <= first
    <2> HIDE DEF firsts
    <2> QED BY Zenon, <1>2, SetMin
<1>4. ASSUME NEW m \in unmigrated \union {"fees"}, IsLedgerIncluded(m, l)
      PROVE  l \in ApplicableRange(unmigrated \union {"fees"})
    <2>1. FirstOf(m) \in firsts /\ FirstOf(m) \in Nat
        BY <1>1
    <2>2. l \in Nat /\ l >= FirstOf(m) /\ l <= LatestStored
        BY <1>4, StoredMax DEF IsLedgerIncluded
    <2>3. l >= Min(firsts)
        <3> HIDE DEF firsts
        <3> QED BY <1>3, <2>1, <2>2
    <2> QED BY <2>2, <2>3 DEF ApplicableRange
<1>5. l >= LatestStored - FeeStatsWindow => IsLedgerIncluded("fees", l)
    BY Included
<1>6. ASSUME NEW m \in unmigrated, l >= LatestStored - HistoryWindow
      PROVE  IsLedgerIncluded(m, l)
    BY <1>6, Included
<1> QED BY <1>4, <1>5, <1>6

LEMMA FiniteMigrations == IsFiniteSet(Migrations) /\ Cardinality(Migrations) \in Nat
<1>1. IsFiniteSet({"transactions"} \union {"events"})
    BY Zenon, FS_Singleton, FS_AddElement
<1>2. Migrations = {"transactions"} \union {"events"}
    BY DEF Migrations
<1> QED BY <1>1, <1>2, FS_CardinalityType

\* The order in which a Go map is walked is some order of all of its keys.
LEMMA AllInOrder ==
    ASSUME NEW unmigrated \in SUBSET Migrations, NEW s \in SetToSeqs(unmigrated)
    PROVE  s \in Seq(Migrations) /\ Len(s) <= Cardinality(Migrations) /\ Range(s) = unmigrated
<1>1. IsFiniteSet(Migrations) /\ Cardinality(Migrations) \in Nat
    BY FiniteMigrations
<1>2. /\ IsFiniteSet(unmigrated) /\ Cardinality(unmigrated) \in Nat
      /\ Cardinality(unmigrated) <= Cardinality(Migrations)
    BY <1>1, FS_Subset, FS_CardinalityType
<1> DEFINE n == Cardinality(unmigrated)
<1>3. s \in [1 .. n -> unmigrated] /\ \A i, j \in 1 .. n : i # j => s[i] # s[j]
    BY DEF SetToSeqs
<1>4. s \in Injection(1 .. n, unmigrated)
    BY <1>3 DEF Injection, IsInjective
<1>5. Cardinality(1 .. n) = n
    BY <1>2, FS_Interval
<1>6. s \in Surjection(1 .. n, unmigrated)
    BY <1>2, <1>4, <1>5, FS_Injection
<1>7. Range(s) = unmigrated
    BY <1>3, <1>6 DEF Range, Surjection
<1>8. s \in Seq(Migrations) /\ Len(s) = n
    BY <1>2, <1>3
<1> QED BY <1>2, <1>7, <1>8

-----------------------------------------------------------------------------
LEMMA InitMigration == MigrationInit => MigrationInv
<1> SUFFICES ASSUME MigrationInit PROVE MigrationInv
    OBVIOUS
<1>0. MaxMeta \in Nat /\ MaxOld \in 0 .. MaxMeta /\ MaxStarts \in Nat /\ FirstLedger = 2
    BY MigrationAssumption DEF MigrationConfig, FirstLedger
<1>1. metas \subseteq Metas
    BY SMTT(60), <1>0 DEF MigrationInit, Metas
<1>2. table \in [Migrations -> SUBSET metas]
    BY DEF MigrationInit
<1>3. done \subseteq {"transactions"} /\ done \subseteq Migrations /\ (done # {} => table["transactions"] = metas)
    BY DEF MigrationInit, Migrations
<1>4. MigrationTypeOK
    <2>1. Cardinality(Migrations) \in Nat
        BY FiniteMigrations
    <2>2. order \in Seq(Migrations) /\ Len(order) <= Cardinality(Migrations)
        BY <2>1 DEF MigrationInit
    <2>3. /\ process \in {"down", "starting", "running"} /\ starts \in 0 .. MaxStarts
          /\ todo \union fed \subseteq Metas /\ outside \subseteq Migrations
        BY <1>0 DEF MigrationInit
    <2>4. table \in [Migrations -> SUBSET Metas]
        BY <1>1, <1>2
    <2> QED BY Zenon, <1>1, <1>3, <2>2, <2>3, <2>4 DEF MigrationTypeOK, Metas
<1>5. TxTyped
    BY DEF MigrationInit, NoTx, TxTyped
<1>6. NothingForeign /\ Guarded
    BY <1>2, <1>3 DEF MigrationInit, NothingForeign, Guarded, Kept
<1>7. Streaming /\ Feeding
    BY DEF MigrationInit, Streaming, Feeding
<1> QED BY <1>4, <1>5, <1>6, <1>7 DEF MigrationInv

LEMMA BuildInv == MigrationInv /\ BuildMigrations => MigrationInv'
<1> SUFFICES ASSUME MigrationInv, BuildMigrations PROVE MigrationInv'
    OBVIOUS
<1> DEFINE unmigrated == Migrations \ done
<1>1. /\ MigrationTypeOK /\ metas \subseteq Metas /\ done \subseteq Migrations
      /\ table \in [Migrations -> SUBSET Metas] /\ NothingForeign
    BY DEF MigrationInv, MigrationTypeOK, Metas
<1>2. /\ UNCHANGED <<metas, table, done, fed, outside>> /\ fed = {}
      /\ process = "down" /\ process' = "starting" /\ starts' = starts + 1 /\ starts < MaxStarts
      /\ order' \in SetToSeqs(unmigrated) /\ todo' = ApplicableRange(unmigrated \union {"fees"})
      /\ tx' = [open |-> TRUE, done |-> done,
                table |-> [m \in Migrations |-> IF m = "transactions" /\ m \in unmigrated THEN {} ELSE table[m]]]
    BY DEF BuildMigrations, stored, MigrationInv, Feeding
<1>3. order' \in Seq(Migrations) /\ Len(order') <= Cardinality(Migrations) /\ Range(order') = unmigrated
    BY <1>2, AllInOrder
<1>4. /\ todo' \subseteq metas /\ Kept(FeeStatsWindow) \subseteq todo'
      /\ unmigrated # {} => Kept(HistoryWindow) \subseteq todo'
    BY Zenon, <1>1, <1>2, Applicable
<1> HIDE DEF unmigrated
<1>5. LatestStored' = LatestStored /\ \A w : Kept(w)' = Kept(w)
    BY <1>2 DEF LatestStored, Kept
<1>6. MigrationTypeOK'
    <2>1. starts \in 0 .. MaxStarts /\ MaxStarts \in Nat
        BY SMTT(60), <1>1, MigrationAssumption DEF MigrationTypeOK, MigrationConfig
    <2>2. starts' \in 0 .. MaxStarts
        BY <1>2, <2>1
    <2>3. todo' \union fed' \subseteq Metas
        BY Zenon, <1>1, <1>2, <1>4
    <2>4. (metas \subseteq Metas)' /\ (table \in [Migrations -> SUBSET Metas])' /\ (done \subseteq Migrations)'
        BY <1>1, <1>2 DEF Metas
    <2>5. process' \in {"down", "starting", "running"} /\ outside' \subseteq Migrations
        BY <1>1, <1>2 DEF MigrationTypeOK
    <2> QED BY <1>3, <2>2, <2>3, <2>4, <2>5, Zenon DEF MigrationTypeOK, Metas
<1>7. TxTyped'
    BY <1>1, <1>2 DEF TxTyped
<1>8. NothingForeign' /\ Guarded'
    BY <1>1, <1>2, <1>5 DEF NothingForeign, Guarded, MigrationInv
<1>9. Streaming'
    <2>1. \A m \in done : tx'.table[m] = table[m]
        BY <1>1, <1>2 DEF unmigrated
    <2>2. \A m \in unmigrated : tx'.table[m] \subseteq metas
        BY <1>1, <1>2 DEF NothingForeign, unmigrated
    <2>3. tx'.done \union Range(order') = Migrations /\ done = Migrations \ Range(order')
        BY <1>1, <1>2, <1>3 DEF unmigrated
    <2> QED BY <1>2, <1>4, <1>5, <2>1, <2>2, <2>3 DEF Streaming, unmigrated
<1>10. Feeding'
    <2>1. {l \in todo' : l >= LatestStored - FeeStatsWindow} = Kept(FeeStatsWindow)
        BY <1>4 DEF Kept
    <2> QED BY Zenon, <1>2, <1>4, <1>5, <2>1 DEF Feeding
<1> QED BY <1>6, <1>7, <1>8, <1>9, <1>10 DEF MigrationInv

LEMMA ApplyInv == MigrationInv /\ Apply => MigrationInv'
<1> SUFFICES ASSUME MigrationInv, Apply PROVE MigrationInv'
    OBVIOUS
<1> DEFINE l == Min(todo)
           members == {m \in Range(order) : IsLedgerIncluded(m, l)}
<1>1. /\ MigrationTypeOK /\ metas \subseteq Metas /\ done \subseteq Migrations /\ TxTyped /\ Feeding /\ Streaming
      /\ todo \subseteq Metas /\ fed \subseteq Metas /\ todo # {} /\ process = "starting" /\ todo \subseteq metas
    BY SMTT(60) DEF MigrationInv, MigrationTypeOK, Metas, Feeding, Apply
<1>2. Metas \subseteq Nat
    BY MigrationAssumption DEF MigrationConfig, FirstLedger, Metas
<1>3. l \in todo /\ l \in metas /\ l \in Metas
    BY Zenon, <1>1, <1>2, SetMin
<1>4. /\ UNCHANGED <<metas, table, done, process, order, outside, starts>>
      /\ tx' = [tx EXCEPT !.table = [m \in Migrations |-> @[m] \union (IF m \in members THEN {l} ELSE {})]]
      /\ fed' = IF IsLedgerIncluded("fees", l) THEN fed \union {l} ELSE fed
      /\ todo' = todo \ {l}
    BY DEF Apply, stored
<1>5. LatestStored' = LatestStored /\ \A w : Kept(w)' = Kept(w)
    BY <1>4 DEF LatestStored, Kept
<1>6. IsLedgerIncluded("fees", l) <=> l >= LatestStored - FeeStatsWindow
    BY <1>1, <1>3, Included
<1>7. \A m \in Migrations : l >= LatestStored - HistoryWindow => IsLedgerIncluded(m, l)
    BY <1>1, <1>3, Included
<1> HIDE DEF l
<1>8. /\ tx.open /\ tx'.open /\ tx'.done = tx.done /\ tx'.table \in [Migrations -> SUBSET Metas]
      /\ \A m \in Migrations : tx'.table[m] = tx.table[m] \union (IF m \in members THEN {l} ELSE {})
    <2> HIDE DEF members
    <2> QED BY <1>1, <1>3, <1>4 DEF TxTyped, Feeding
<1>9. TxTyped'
    <2> HIDE DEF members
    <2> QED BY <1>1, <1>3, <1>4 DEF TxTyped, Metas
<1>10. MigrationTypeOK'
    <2>1. todo' \union fed' \subseteq Metas
        BY <1>1, <1>3, <1>4
    <2> QED BY <1>1, <1>4, <2>1 DEF MigrationTypeOK, Metas
<1>11. NothingForeign' /\ Guarded'
    BY <1>4, <1>5 DEF NothingForeign, Guarded, MigrationInv
<1>12. Streaming'
    <2>1. /\ \A m \in done : tx.table[m] = table[m]
          /\ \A m \in Migrations \ done :
                tx.table[m] \subseteq metas /\ Kept(HistoryWindow) \subseteq tx.table[m] \union todo
          /\ tx.done \union Range(order) = Migrations /\ done = Migrations \ Range(order)
        BY <1>1, <1>8 DEF Streaming
    <2>2. Range(order)' = Range(order)
        BY <1>4
    <2>3. \A m \in done : tx'.table[m] = table[m]
        <3> TAKE m \in done
        <3>1. m \in Migrations /\ m \notin members /\ tx.table[m] = table[m]
            BY <1>1, <2>1
        <3>2. tx'.table[m] = tx.table[m] \union (IF m \in members THEN {l} ELSE {})
            BY Zenon, <1>8, <3>1
        <3> HIDE DEF members
        <3>3. tx.table[m] \union (IF m \in members THEN {l} ELSE {}) = table[m]
            BY <3>1
        <3> QED BY Zenon, <3>2, <3>3
    <2>4. ASSUME NEW m \in Migrations \ done
          PROVE  tx'.table[m] \subseteq metas /\ Kept(HistoryWindow) \subseteq tx'.table[m] \union todo'
        <3>1. l \in Kept(HistoryWindow) => m \in members
            BY <1>7, <2>1 DEF Kept
        <3>2. tx.table[m] \subseteq metas /\ Kept(HistoryWindow) \subseteq tx.table[m] \union todo
            BY <2>1
        <3> HIDE DEF members
        <3> QED BY <1>3, <1>4, <1>8, <3>1, <3>2
    <2> QED BY <1>4, <1>5, <1>8, <2>1, <2>2, <2>3, <2>4 DEF Streaming
<1>13. Feeding'
    <2>1. fed \union {k \in todo : k >= LatestStored - FeeStatsWindow} = Kept(FeeStatsWindow)
        BY <1>1 DEF Feeding
    <2>2. fed' \union {k \in todo' : k >= LatestStored - FeeStatsWindow} = Kept(FeeStatsWindow)
        BY <1>3, <1>4, <1>6, <2>1
    <2>3. todo' \subseteq metas
        BY <1>1, <1>4
    <2> QED BY <1>1, <1>4, <1>5, <1>8, <2>2, <2>3 DEF Feeding
<1> QED BY <1>9, <1>10, <1>11, <1>12, <1>13 DEF MigrationInv

LEMMA FatalInv == MigrationInv /\ Fatal => MigrationInv'
<1> SUFFICES ASSUME MigrationInv, Fatal PROVE MigrationInv'
    OBVIOUS
<1>1. /\ UNCHANGED <<metas, table, done, outside, starts>> /\ process' = "down"
      /\ tx' = NoTx /\ todo' = {} /\ order' = <<>> /\ fed' = {}
    BY DEF Fatal, stored
<1>2. LatestStored' = LatestStored /\ \A w : Kept(w)' = Kept(w)
    BY <1>1 DEF LatestStored, Kept
<1>3. MigrationTypeOK'
    <2>1. order' \in Seq(Migrations) /\ Len(order') <= Cardinality(Migrations)
        <3>1. Len(order) \in Nat /\ Len(order) <= Cardinality(Migrations) /\ Cardinality(Migrations) \in Nat
            BY FiniteMigrations DEF MigrationInv, MigrationTypeOK
        <3> QED BY <1>1, <3>1
    <2> QED BY <1>1, <2>1 DEF MigrationInv, MigrationTypeOK
<1>4. TxTyped'
    BY <1>1 DEF TxTyped, NoTx
<1>5. NothingForeign' /\ Guarded'
    BY <1>1, <1>2 DEF NothingForeign, Guarded, MigrationInv
<1>6. Streaming' /\ Feeding'
    BY <1>1 DEF Streaming, Feeding
<1> QED BY <1>3, <1>4, <1>5, <1>6 DEF MigrationInv

\* What the steps of MultiMigration.Commit have in common: the next migration leaves
\* the order, nothing is stored but its guard.
LEMMA CommitStep ==
    ASSUME MigrationInv, process = "starting", todo = {}, order # <<>>, order' = Tail(order),
           UNCHANGED <<metas, table, process, todo, fed, starts>>,
           done' \in SUBSET Migrations, outside' \in SUBSET Migrations
    PROVE  /\ MigrationTypeOK' /\ NothingForeign' /\ Feeding' /\ LatestStored' = LatestStored
           /\ \A w : Kept(w)' = Kept(w)
           /\ Head(order) \in Migrations /\ Range(order) \subseteq {Head(order)} \union Range(order')
           /\ Range(order') \subseteq Migrations
<1>1. /\ order \in Seq(Migrations) /\ Len(order) <= Cardinality(Migrations)
      /\ Cardinality(Migrations) \in Nat
    BY FiniteMigrations DEF MigrationInv, MigrationTypeOK
<1>2. /\ order' \in Seq(Migrations) /\ Len(order') = Len(order) - 1 /\ Len(order) \in Nat \ {0}
      /\ Head(order) = order[1] /\ Head(order) \in Migrations
      /\ \A i \in 1 .. Len(order') : order'[i] = order[i + 1]
    BY <1>1
<1>3. order \in [1 .. Len(order) -> Migrations] /\ order' \in [1 .. Len(order') -> Migrations]
    BY Zenon, <1>1, <1>2, LenProperties
<1>4. Range(order) \subseteq {Head(order)} \union Range(order')
    <2> SUFFICES ASSUME NEW i \in 1 .. Len(order), i # 1
                 PROVE  order[i] \in Range(order')
        BY SMTT(60), <1>2, <1>3 DEF Range
    <2>1. i - 1 \in 1 .. Len(order') /\ (i - 1) + 1 = i
        BY <1>2
    <2> QED BY Zenon, <1>2, <1>3, <2>1 DEF Range
<1>5. Range(order') \subseteq Migrations
    BY <1>3 DEF Range
<1>6. LatestStored' = LatestStored /\ \A w : Kept(w)' = Kept(w)
    BY DEF LatestStored, Kept
<1>7. MigrationTypeOK'
    <2>1. Len(order') <= Cardinality(Migrations)
        BY <1>1, <1>2
    <2> QED BY <1>2, <2>1 DEF MigrationInv, MigrationTypeOK
<1>8. NothingForeign' /\ Feeding'
    <2>1. todo' = {} /\ process' = "starting"
        OBVIOUS
    <2> QED BY <1>6, <2>1 DEF MigrationInv, NothingForeign, Feeding
<1> QED BY <1>2, <1>4, <1>5, <1>6, <1>7, <1>8

LEMMA SetGuardInv == MigrationInv /\ SetGuard => MigrationInv'
<1> SUFFICES ASSUME MigrationInv, SetGuard PROVE MigrationInv'
    OBVIOUS
<1> DEFINE m == Head(order)
<1>1. /\ process = "starting" /\ todo = {} /\ order # <<>> /\ order' = Tail(order)
      /\ UNCHANGED <<metas, table, process, todo, fed, starts>>
    BY DEF SetGuard
<1>2. done \subseteq Migrations /\ outside \subseteq Migrations /\ TxTyped /\ Streaming /\ Guarded
    BY DEF MigrationInv, MigrationTypeOK
<1>3. order \in Seq(Migrations)
    BY DEF MigrationInv, MigrationTypeOK
<1>4. m \in Migrations
    BY <1>1, <1>3
<1>5. CASE tx.open
    <2>1. tx' = [tx EXCEPT !.done = @ \union {m}] /\ UNCHANGED <<done, outside>>
        BY <1>5 DEF SetGuard
    <2>2. /\ MigrationTypeOK' /\ NothingForeign' /\ Feeding' /\ \A w : Kept(w)' = Kept(w)
          /\ Range(order) \subseteq {m} \union Range(order') /\ Range(order') \subseteq Migrations
        BY <1>1, <1>2, <2>1, CommitStep
    <2> HIDE DEF m
    <2>3. /\ TxTyped' /\ tx'.open /\ tx'.table = tx.table /\ tx'.done = tx.done \union {m}
          /\ tx'.done \subseteq Migrations
        BY <1>2, <1>4, <1>5, <2>1 DEF TxTyped, Metas
    <2>4. Guarded'
        BY <1>1, <1>2, <2>1, <2>2 DEF Guarded
    <2>5. Streaming'
        <3>1. /\ \A k \in done : tx.table[k] = table[k]
              /\ \A k \in Migrations \ done :
                    tx.table[k] \subseteq metas /\ Kept(HistoryWindow) \subseteq tx.table[k] \union todo
              /\ tx.done \union Range(order) = Migrations
            BY <1>1, <1>2, <1>5 DEF Streaming
        <3>2. tx'.done \union Range(order') = Migrations
            BY <2>2, <2>3, <3>1
        <3> QED BY <1>1, <2>1, <2>2, <2>3, <3>1, <3>2 DEF Streaming
    <2> QED BY <2>2, <2>3, <2>4, <2>5 DEF MigrationInv
<1>6. CASE ~tx.open
    <2>1. done' = done \union {m} /\ outside' = outside \union {m} /\ UNCHANGED tx
        BY <1>6 DEF SetGuard
    <2>2. done' \in SUBSET Migrations /\ outside' \in SUBSET Migrations
        BY <1>2, <1>4, <2>1
    <2>3. MigrationTypeOK' /\ NothingForeign' /\ Feeding' /\ \A w : Kept(w)' = Kept(w)
        BY <1>1, <2>2, CommitStep
    <2> HIDE DEF m
    <2>4. Guarded'
        BY <1>1, <1>2, <2>1, <2>3 DEF Guarded
    <2>5. TxTyped' /\ Streaming'
        BY <1>2, <1>6, <2>1 DEF TxTyped, Streaming, Metas
    <2> QED BY <2>3, <2>4, <2>5 DEF MigrationInv
<1> QED BY <1>5, <1>6

LEMMA SetGuardFailsInv == MigrationInv /\ SetGuardFails => MigrationInv'
<1> SUFFICES ASSUME MigrationInv, SetGuardFails PROVE MigrationInv'
    OBVIOUS
<1>1. /\ process = "starting" /\ todo = {} /\ order # <<>> /\ order' = Tail(order) /\ tx' = NoTx
      /\ UNCHANGED <<metas, table, process, todo, fed, starts>> /\ UNCHANGED <<done, outside>>
    BY DEF SetGuardFails, stored
<1>2. done \subseteq Migrations /\ outside \subseteq Migrations /\ Guarded
    BY DEF MigrationInv, MigrationTypeOK
<1>3. MigrationTypeOK' /\ NothingForeign' /\ Feeding' /\ \A w : Kept(w)' = Kept(w)
    BY <1>1, <1>2, CommitStep
<1>4. TxTyped' /\ Streaming' /\ Guarded'
    BY <1>1, <1>2, <1>3 DEF TxTyped, NoTx, Streaming, Guarded
<1> QED BY <1>3, <1>4 DEF MigrationInv

LEMMA CommitInv == MigrationInv /\ CommitMigrations => MigrationInv'
<1> SUFFICES ASSUME MigrationInv, CommitMigrations PROVE MigrationInv'
    OBVIOUS
<1>1. /\ process = "starting" /\ todo = {} /\ order = <<>> /\ tx.open /\ process' = "running"
      /\ table' = tx.table /\ done' = tx.done /\ tx' = NoTx
      /\ UNCHANGED <<metas, todo, order, fed, outside, starts>>
    BY DEF CommitMigrations
<1>2. TxTyped /\ Streaming /\ Guarded /\ NothingForeign /\ MigrationTypeOK
    BY DEF MigrationInv
<1>3. LatestStored' = LatestStored /\ \A w : Kept(w)' = Kept(w)
    BY <1>1 DEF LatestStored, Kept
<1>4. Range(order) = {}
    BY <1>1 DEF Range
<1>5. /\ \A m \in done : tx.table[m] = table[m]
      /\ \A m \in Migrations \ done :
            tx.table[m] \subseteq metas /\ Kept(HistoryWindow) \subseteq tx.table[m] \union todo
      /\ tx.done \union Range(order) = Migrations
    BY <1>1, <1>2 DEF Streaming
<1>6. MigrationTypeOK'
    <2>1. (table \in [Migrations -> SUBSET Metas])' /\ done' \subseteq Migrations
        BY <1>1, <1>2 DEF TxTyped, Metas
    <2> QED BY <1>1, <1>2, <2>1 DEF MigrationTypeOK, Metas
<1>7. TxTyped' /\ Streaming' /\ Feeding'
    BY <1>1 DEF TxTyped, NoTx, Streaming, Feeding
<1>8. NothingForeign'
    BY <1>1, <1>2, <1>5 DEF NothingForeign
<1>9. Guarded'
    <2>1. \A m \in Migrations \ outside : Kept(HistoryWindow) \subseteq tx.table[m]
        BY <1>1, <1>2, <1>5 DEF Guarded
    <2> QED BY Zenon, <1>1, <1>3, <1>4, <1>5, <2>1 DEF Guarded
<1> QED BY <1>6, <1>7, <1>8, <1>9 DEF MigrationInv

LEMMA IngestedInv == MigrationInv /\ Ingest => MigrationInv'
<1> SUFFICES ASSUME MigrationInv, Ingest PROVE MigrationInv'
    OBVIOUS
<1> DEFINE next == Max({LatestStored + 1, FirstLedger})
           keep(rows) == {l \in rows \union {next} : l > next - HistoryWindow}
<1>1. /\ process = "running" /\ LatestStored < MaxMeta /\ metas' = keep(metas)
      /\ table' = [m \in Migrations |-> keep(table[m])]
      /\ UNCHANGED <<done, process, tx, todo, order, fed, outside, starts>>
    BY Zenon DEF Ingest
<1>2. /\ MigrationTypeOK /\ TxTyped /\ NothingForeign /\ Guarded /\ metas \subseteq Metas
      /\ table \in [Migrations -> SUBSET Metas]
    BY DEF MigrationInv, MigrationTypeOK, Metas
<1>3. MaxMeta \in Nat \ {0, 1} /\ HistoryWindow \in Nat \ {0} /\ FirstLedger = 2 /\ Metas = 2 .. MaxMeta
    BY MigrationAssumption DEF MigrationConfig, FirstLedger, Metas
<1>4. LatestStored \in Nat /\ \A l \in metas : l \in Nat /\ l <= LatestStored
    BY <1>2, <1>3, StoredMax
<1>5. next \in Metas /\ next >= LatestStored + 1
    <2>1. {LatestStored + 1, FirstLedger} \in SUBSET (0 .. LatestStored + 2) /\ LatestStored + 2 \in Nat
        BY <1>3, <1>4
    <2>2. next \in {LatestStored + 1, FirstLedger} /\ next >= LatestStored + 1 /\ next >= FirstLedger
        BY Zenon, <2>1, SetMax
    <2> HIDE DEF next
    <2> QED BY <1>1, <1>3, <1>4, <2>2
<1> HIDE DEF next
<1>6. metas' \subseteq Metas /\ next \in metas' /\ \A l \in metas' : l <= next
    <2>1. next \in Nat /\ next > next - HistoryWindow
        BY <1>3, <1>5
    <2>2. \A l \in metas : l <= next
        <3> TAKE l \in metas
        <3>1. l \in Nat /\ l <= LatestStored
            BY <1>4
        <3> QED BY <1>4, <1>5, <2>1, <3>1
    <2>3. metas' \subseteq metas \union {next} /\ next \in metas'
        BY <1>1, <2>1
    <2> HIDE DEF keep
    <2> QED BY <1>2, <1>5, <2>1, <2>2, <2>3
<1>7. LatestStored' = next
    <2>1. metas' \in SUBSET (0 .. MaxMeta) /\ metas' # {}
        BY <1>3, <1>6
    <2>2. Max(metas') \in metas' /\ \A y \in metas' : Max(metas') >= y
        BY Zenon, <1>3, <2>1, SetMax
    <2>3. Max(metas') = next
        <3>0. Metas \subseteq Nat
            BY <1>3
        <3>1. Max(metas') \in Nat /\ next \in Nat
            BY Zenon, <1>5, <1>6, <2>2, <3>0
        <3>2. Max(metas') <= next /\ Max(metas') >= next
            BY <1>6, <2>2
        <3> HIDE DEF keep
        <3> QED BY <3>1, <3>2
    <2> QED BY Zenon, <2>1, <2>3 DEF LatestStored
<1>8. MigrationTypeOK'
    <2>1. (table \in [Migrations -> SUBSET Metas])'
        <3>1. \A m \in Migrations : keep(table[m]) \subseteq Metas
            BY <1>2, <1>5
        <3> HIDE DEF keep
        <3> QED BY <1>1, <3>1 DEF Metas
    <2>2. (metas \subseteq Metas)'
        BY <1>6 DEF Metas
    <2> HIDE DEF keep
    <2> QED BY <1>1, <1>2, <2>1, <2>2 DEF MigrationTypeOK, Metas
<1>9. TxTyped' /\ Streaming' /\ Feeding'
    <2> HIDE DEF keep
    <2> QED BY <1>1, <1>2 DEF TxTyped, Streaming, Feeding, Metas
<1>10. NothingForeign'
    BY <1>1, <1>2 DEF NothingForeign
<1>11. Guarded'
    <2>1. done' = Migrations
        BY <1>1, <1>2 DEF Guarded
    <2>2. ASSUME NEW m \in Migrations \ outside, NEW l \in metas'
          PROVE  l \in table'[m]
        <3>1. CASE l = next
            BY <1>1, <1>3, <1>5, <3>1
        <3>2. CASE l # next
            <4>1. l \in metas /\ l > next - HistoryWindow
                BY <1>1, <2>2, <3>2
            <4>2. l >= LatestStored - HistoryWindow
                BY <1>3, <1>4, <1>5, <4>1
            <4>3. l \in table[m]
                BY <1>1, <1>2, <4>1, <4>2 DEF Guarded, Kept
            <4> QED BY <1>1, <4>1, <4>3
        <3> QED BY <3>1, <3>2
    <2> QED BY <1>1, <2>1, <2>2 DEF Guarded, Kept
<1> QED BY <1>8, <1>9, <1>10, <1>11 DEF MigrationInv

LEMMA NextMigration == MigrationInv /\ [MigrationNext]_migrationVars => MigrationInv'
<1> SUFFICES ASSUME MigrationInv, [MigrationNext]_migrationVars PROVE MigrationInv'
    OBVIOUS
<1>1. CASE BuildMigrations
    BY <1>1, BuildInv
<1>2. CASE Apply
    BY <1>2, ApplyInv
<1>3. CASE Exit \/ CommitFails
    BY <1>3, FatalInv DEF Exit, CommitFails
<1>4. CASE SetGuard
    BY <1>4, SetGuardInv
<1>5. CASE SetGuardFails
    BY <1>5, SetGuardFailsInv
<1>6. CASE CommitMigrations
    BY <1>6, CommitInv
<1>7. CASE Ingest
    BY <1>7, IngestedInv
<1>8. CASE UNCHANGED migrationVars
    BY SMTT(60), <1>8 DEF migrationVars, stored, MigrationInv, MigrationTypeOK, TxTyped, NothingForeign, Guarded, Streaming,
                Feeding, Kept, LatestStored, Metas
<1> QED BY <1>1, <1>2, <1>3, <1>4, <1>5, <1>6, <1>7, <1>8 DEF MigrationNext

LEMMA MigratedWholly == MigrationInv => MigratesWholly
<1> SUFFICES ASSUME MigrationInv PROVE MigratesWholly
    OBVIOUS
<1>1. /\ MigrationTypeOK /\ NothingForeign /\ Guarded /\ Feeding /\ done \subseteq Migrations
    BY DEF MigrationInv, MigrationTypeOK
<1>2. \A m \in done \ outside :
         {l \in metas : l >= LatestStored - HistoryWindow} \subseteq table[m] /\ table[m] \subseteq metas
    BY <1>1 DEF Guarded, NothingForeign, Kept
<1>3. process = "starting" /\ todo = {} => fed = {l \in metas : l >= LatestStored - FeeStatsWindow}
    BY <1>1 DEF Feeding, Kept
<1> QED BY <1>1, <1>2, <1>3 DEF MigratesWholly, GuardsHold, Guarded

\* For any windows and however often a start fails or is cut short between two
\* steps of MultiMigration: a migration whose guard is set has the rows of every
\* retained ledger and no other, but for a guard set after a rollback; the service
\* runs only when all guards are set; the fee windows got exactly their ledgers.
THEOREM MigrationsWhole == MigrationSpec => []MigratesWholly
<1>1. MigrationInit => MigrationInv
    BY InitMigration
<1>2. MigrationInv /\ [MigrationNext]_migrationVars => MigrationInv'
    BY NextMigration
<1>3. MigrationInv => MigratesWholly
    BY MigratedWholly
<1> QED BY <1>1, <1>2, <1>3, PTL DEF MigrationSpec
=============================================================================
