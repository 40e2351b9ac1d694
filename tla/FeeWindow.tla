----------------------------- MODULE FeeWindow -----------------------------
(***************************************************************************)
(* Fee statistics of stellar-rpc (feewindow): the fees of the last ledgers *)
(* and their distribution, recomputed with every ledger.                   *)
(***************************************************************************)
EXTENDS LedgerBucketWindow, FiniteSets, FiniteSetsExt, SequencesExt

VARIABLE distribution

Percents == {10, 20, 30, 40, 50, 60, 70, 80, 90, 95, 99}

Empty == [count |-> 0]

Sorted(fees) == SortSeq(fees, <)

\* The scan for the longest cluster of equal values.
ScanModeIgnoringTail(fees) ==
    LET Scan(s, f) ==
            IF f = s.last THEN [s EXCEPT !.local = @ + 1]
            ELSE [last |-> f, local |-> 0,
                  best |-> IF s.local > s.best THEN s.local ELSE s.best,
                  mode |-> IF s.local > s.best THEN s.last ELSE s.mode]
    IN  FoldLeft(Scan, [last |-> fees[1], local |-> 0, best |-> 0, mode |-> fees[1]], Tail(fees)).mode

ScanMode(fees) ==
    LET Scan(s, f) ==
            IF f = s.last THEN [s EXCEPT !.local = @ + 1]
            ELSE [last |-> f, local |-> 0,
                  best |-> IF s.local > s.best THEN s.local ELSE s.best,
                  mode |-> IF s.local > s.best THEN s.last ELSE s.mode]
        end == FoldLeft(Scan, [last |-> fees[1], local |-> 0, best |-> 0, mode |-> fees[1]], Tail(fees))
    IN  IF end.local > end.best THEN fees[Len(fees)] ELSE end.mode

\* The nearest rank, ceiling(p * count / 100).
PercentileFloor(fees, p) ==
    LET kth == (p * Len(fees)) \div 100 IN fees[IF kth = 0 THEN 1 ELSE kth]

Percentile(fees, p) == fees[(p * Len(fees) + 100 - 1) \div 100]

ComputeFeeDistribution(allFees, ledgerCount) ==
    IF allFees = <<>> THEN Empty
    ELSE LET fees == Sorted(allFees)
         IN  [count |-> Len(fees), ledgers |-> ledgerCount, max |-> fees[Len(fees)], min |-> fees[1],
              mode |-> ScanMode(fees), percentile |-> [p \in Percents |-> Percentile(fees, p)]]

Init == InitWindow /\ distribution = Empty

\* The fees of every ledger in the window after the append.
AllFees == FlattenSeq([i \in 1 .. Length |-> Get(i - 1).content])

AppendLedgerFees(b) ==
    /\ AppendBucket(b)
    /\ distribution' = ComputeFeeDistribution(AllFees', Length')

AppendFails(b) == RefuseBucket(b) /\ UNCHANGED distribution

ResetFees == Reset /\ distribution' = Empty

Next ==
    \/ \E b \in Bucket : AppendLedgerFees(b) \/ AppendFails(b)
    \/ ResetFees

vars == <<window, log, distribution>>
Spec == Init /\ [][Next]_vars

-----------------------------------------------------------------------------
\* The fees of the last ledgers, from the history and as a bag.
RecentFees ==
    LET n == IF Len(log) < Capacity THEN Len(log) ELSE Capacity
    IN  FlattenSeq([i \in 1 .. n |-> log[Len(log) - n + i].content])
Occurrences(f) == Cardinality({i \in DOMAIN RecentFees : RecentFees[i] = f})

TypeOK == WindowTypeOK /\ distribution.count \in Nat

\* The reported mode is the smallest of the most frequent fees of the last
\* ledgers: the scan finds the longest cluster also at the end of the list.
ModeIsMostFrequent ==
    distribution.count > 0 =>
        \A f \in Range(RecentFees) :
            \/ Occurrences(f) < Occurrences(distribution.mode)
            \/ Occurrences(f) = Occurrences(distribution.mode) /\ distribution.mode <= f

\* A percentile is the smallest fee such that at least p percent of the fees of
\* the last ledgers are not above it; nothing older is counted.
PercentilesAreNearestRank ==
    /\ distribution.count = Len(RecentFees)
    /\ distribution.count > 0 =>
          LET NotAbove(v) == Cardinality({i \in DOMAIN RecentFees : RecentFees[i] <= v})
          IN  \A p \in Percents :
                distribution.percentile[p] =
                    Min({v \in Range(RecentFees) : 100 * NotAbove(v) >= p * Len(RecentFees)})
=============================================================================
