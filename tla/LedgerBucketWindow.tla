------------------------- MODULE LedgerBucketWindow -------------------------
(***************************************************************************)
(* The sliding window of stellar-rpc over the last ledgers, a circular     *)
(* buffer (ledgerbucketwindow).                                            *)
(***************************************************************************)
EXTENDS Integers, Sequences

CONSTANTS
    Capacity,   \* retentionWindow
    Content,    \* what a bucket holds
    MaxSeq      \* bound on the ledger sequences

ASSUME WindowAssumption == Capacity \in Nat \ {0} /\ MaxSeq \in Nat

VARIABLES
    buckets,    \* the buffer
    start,      \* index of the oldest bucket, from 0
    log         \* history: every bucket appended since the last Reset

window == <<buckets, start>>

Bucket == [seq : 1 .. MaxSeq, content : Content]

InitWindow == buckets = <<>> /\ start = 0 /\ log = <<>>

Length == Len(buckets)

\* The i-th oldest bucket, from 0.
Get(i) == buckets[((start + i) % Length) + 1]

\* The oldest and the newest ledger in the window.
GetLedgerRange ==
    IF Length = 0 THEN [first |-> 0, last |-> 0]
                  ELSE [first |-> Get(0).seq, last |-> Get(Length - 1).seq]

ContiguousAnyLater(b) == Length > 0 => b.seq >= buckets[start + 1].seq + Length

Contiguous(b) == Length > 0 => b.seq = buckets[start + 1].seq + Length

\* A full buffer is overwritten at its oldest bucket.
AppendNotFullOffByOne(b) ==
    /\ Length <= Capacity
    /\ buckets' = Append(buckets, b)
    /\ start' = start

AppendNotFull(b) ==
    /\ Length < Capacity
    /\ buckets' = Append(buckets, b)
    /\ start' = start

AppendFullUnshifted(b) ==
    /\ Length >= Capacity
    /\ buckets' = [buckets EXCEPT ![start + 1] = b]
    /\ start' = start

AppendFull(b) ==
    /\ Length >= Capacity
    /\ buckets' = [buckets EXCEPT ![start + 1] = b]
    /\ start' = (start + 1) % Length

AppendBucket(b) ==
    /\ Contiguous(b)
    /\ AppendNotFull(b) \/ AppendFull(b)
    /\ log' = Append(log, b)

\* A bucket of the wrong ledger is refused with an error.
RefuseBucket(b) == ~Contiguous(b) /\ UNCHANGED <<window, log>>

Reset == buckets' = <<>> /\ start' = 0 /\ log' = <<>>

NextWindow ==
    \/ \E b \in Bucket : AppendBucket(b) \/ RefuseBucket(b)
    \/ Reset

SpecWindow == InitWindow /\ [][NextWindow]_<<window, log>>

-----------------------------------------------------------------------------
\* The buffer is within its capacity and starts at one of its buckets.
WindowTypeOK ==
    /\ buckets \in Seq(Bucket) /\ Length <= Capacity
    /\ start \in 0 .. Capacity /\ (start < Length \/ start = 0)
    /\ log \in Seq(Bucket)

\* However often the buffer wraps around, Get reads the most recent buckets in
\* the order in which they were appended.
SlidingWindow ==
    /\ Length = IF Len(log) < Capacity THEN Len(log) ELSE Capacity
    /\ \A i \in 0 .. Length - 1 : Get(i) = log[Len(log) - Length + 1 + i]

\* The window covers its ledgers without a gap and names its ends rightly.
NoGap ==
    /\ \A i \in 0 .. Length - 1 : Get(i).seq = GetLedgerRange.first + i
    /\ Length > 0 => GetLedgerRange.last - GetLedgerRange.first + 1 = Length

\* So what a reader gets from the window is exactly the latest ledgers.
LatestLedgers == SlidingWindow /\ NoGap
=============================================================================
