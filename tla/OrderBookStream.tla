-------------------------- MODULE OrderBookStream --------------------------
(***************************************************************************)
(* The in-memory order book of a Horizon process and the offers and        *)
(* liquidity pools that the ingesting process keeps in the database.       *)
(*                                                                         *)
(* Offers and pools are handled alike and in the same transactions: both   *)
(* are entries here, and their two compaction sequences are one.           *)
(***************************************************************************)
EXTENDS Integers, Sequences, FiniteSets, FiniteSetsExt

CONSTANTS
    Entries, Values,
    Window,         \* compactionWindow
    MaxBookLedger, MaxRebuilds      \* bounds

StreamConfig == Window \in Nat \ {0} /\ MaxBookLedger \in Nat \ {0} /\ MaxRebuilds \in Nat
ASSUME StreamAssumption == StreamConfig

VARIABLES
    truth,          \* the entries of the network after each ledger
    rows,           \* the rows of the tables, the deleted ones included
    lastIngested, lastHistory, compaction, bookInvalid, outdated,    \* the key-value rows
    graph, lastLedger,          \* of the stream
    rebuilds

bookDbVars == <<truth, rows, lastIngested, lastHistory, compaction, bookInvalid, outdated, rebuilds>>
bookVars == <<bookDbVars, graph, lastLedger>>

NoEntry == [value |-> 0, modified |-> 0, deleted |-> FALSE]
LiveEntries(stored) == {e \in Entries : stored[e] # NoEntry /\ ~stored[e].deleted}
ValuesOf(stored) == [e \in LiveEntries(stored) |-> stored[e].value]
NoGraph == [e \in {} |-> 0]

\* The entries after a ledger in which at most one entry changed.
ChangedAt(seq, entries) ==
    {entries}
      \union {[entries EXCEPT ![e] = [value |-> v, modified |-> seq, deleted |-> FALSE]] : e \in Entries, v \in Values}
      \union {[entries EXCEPT ![e] = NoEntry] : e \in Entries}

BookInit ==
    /\ \E entries \in ChangedAt(1, [e \in Entries |-> NoEntry]) : truth = <<entries>> /\ rows = entries
    /\ lastIngested = 1 /\ lastHistory = 0 /\ compaction = 0
    /\ bookInvalid = FALSE /\ outdated = FALSE /\ rebuilds = 0
    /\ graph = NoGraph /\ lastLedger = 0

CloseLedger ==
    /\ Len(truth) < MaxBookLedger
    /\ \E entries \in ChangedAt(Len(truth) + 1, truth[Len(truth)]) : truth' = Append(truth, entries)
    /\ UNCHANGED <<rows, lastIngested, lastHistory, compaction, bookInvalid, outdated, rebuilds, graph, lastLedger>>

-----------------------------------------------------------------------------
\* The change processors: a removed entry stays as a row marked deleted until
\* it is compacted.
RowsAfter(seq) ==
    [e \in Entries |->
        IF truth[seq][e] # NoEntry THEN truth[seq][e]
        ELSE IF e \in LiveEntries(rows) THEN [value |-> rows[e].value, modified |-> seq, deleted |-> TRUE]
        ELSE rows[e]]

CompactUnder(stored, cutOff) ==
    [e \in Entries |-> IF stored[e].deleted /\ stored[e].modified <= cutOff THEN NoEntry ELSE stored[e]]

CommitRows(seq, stored) ==
    IF seq > Window
    THEN rows' = CompactUnder(stored, seq - Window) /\ compaction' = seq - Window
    ELSE rows' = stored /\ UNCHANGED compaction

IngestLedger ==
    /\ ~outdated /\ lastIngested < Len(truth)
    /\ lastIngested' = lastIngested + 1
    /\ lastHistory' = Max({lastHistory, lastIngested'})
    /\ CommitRows(lastIngested', RowsAfter(lastIngested'))
    /\ UNCHANGED <<truth, bookInvalid, outdated, rebuilds, graph, lastLedger>>

MarkStateInvalid ==
    /\ ~bookInvalid /\ rebuilds < MaxRebuilds
    /\ bookInvalid' = TRUE
    /\ UNCHANGED <<truth, rows, lastIngested, lastHistory, compaction, outdated, rebuilds, graph, lastLedger>>

\* A rebuild is asked for; history is then ingested up to the checkpoint, and
\* the tables are filled from the checkpoint in one transaction.
TriggerStateRebuild ==
    /\ ~outdated /\ rebuilds < MaxRebuilds
    /\ outdated' = TRUE /\ rebuilds' = rebuilds + 1
    /\ UNCHANGED <<truth, rows, lastIngested, lastHistory, compaction, bookInvalid, graph, lastLedger>>

HistoryRange ==
    /\ outdated /\ lastHistory < Len(truth)
    /\ \E seq \in lastHistory + 1 .. Len(truth) : lastHistory' = seq
    /\ UNCHANGED <<truth, rows, lastIngested, compaction, bookInvalid, outdated, rebuilds, graph, lastLedger>>

BuildState ==
    /\ outdated
    /\ \E checkpoint \in 1 .. lastHistory :
          lastIngested' = checkpoint /\ CommitRows(checkpoint, truth[checkpoint])
    /\ bookInvalid' = FALSE /\ outdated' = FALSE
    /\ UNCHANGED <<truth, lastHistory, rebuilds, graph, lastLedger>>

-----------------------------------------------------------------------------
HistoryConsistentWithState == lastIngested = lastHistory \/ lastHistory = 0

MustResetUnlessCompacted ==
    \/ lastLedger = 0
    \/ bookInvalid
    \/ ~HistoryConsistentWithState
    \/ lastIngested < lastLedger

MustResetForwardOnly ==
    \/ lastLedger = 0
    \/ bookInvalid
    \/ lastLedger < compaction

MustReset ==
    \/ lastLedger = 0
    \/ bookInvalid
    \/ ~HistoryConsistentWithState
    \/ lastIngested < lastLedger
    \/ lastLedger < compaction

\* The order book is given up or, once the tables are valid, read anew.
Reset ==
    IF bookInvalid \/ ~HistoryConsistentWithState
    THEN graph' = NoGraph /\ lastLedger' = 0
    ELSE graph' = ValuesOf(rows) /\ lastLedger' = lastIngested

GetUpdated(sequence) == {e \in Entries : rows[e].modified > sequence}

UpdatedGraph ==
    LET updated == GetUpdated(lastLedger)
        kept    == (DOMAIN graph \ updated) \union (updated \intersect LiveEntries(rows))
    IN  [e \in kept |-> IF e \in updated THEN rows[e].value ELSE graph[e]]

\* The hourly comparison with the tables.
VerifiedNever(g) == lastIngested

Verified(g) == IF g = ValuesOf(rows) THEN lastIngested ELSE 0

\* Update, in one repeatable-read transaction, without and with verification.
Update ==
    /\ IF MustReset THEN Reset
       ELSE graph' = UpdatedGraph /\ lastLedger' = lastIngested
    /\ UNCHANGED bookDbVars

UpdateAndVerify ==
    /\ ~MustReset
    /\ graph' = UpdatedGraph
    /\ lastLedger' = Verified(UpdatedGraph)
    /\ UNCHANGED bookDbVars

\* A failed query discards the changes; a reset has cleared the graph before.
UpdateFails ==
    /\ MustReset
    /\ graph' = NoGraph /\ lastLedger' = 0
    /\ UNCHANGED bookDbVars

DbStep == CloseLedger \/ IngestLedger \/ MarkStateInvalid \/ TriggerStateRebuild \/ HistoryRange \/ BuildState

BookNext == DbStep \/ Update \/ UpdateAndVerify \/ UpdateFails

BookSpec == BookInit /\ [][BookNext]_bookVars

\* The ticker calls Update again and again, and its time for verification
\* comes again and again; a rebuild that was asked for is carried out, as the
\* rebuild of an invalid state has to be asked for by an operator.
BookFairSpec ==
    /\ BookSpec
    /\ WF_bookVars(Update) /\ SF_bookVars(UpdateAndVerify)
    /\ WF_bookVars(IngestLedger) /\ WF_bookVars(HistoryRange) /\ WF_bookVars(BuildState)

-----------------------------------------------------------------------------
BookTypeOK ==
    /\ Len(truth) \in 1 .. MaxBookLedger
    /\ rows \in [Entries -> [value : Values \union {0}, modified : 0 .. MaxBookLedger, deleted : BOOLEAN]]
    /\ lastIngested \in 1 .. Len(truth) /\ lastHistory \in 0 .. Len(truth)
    /\ compaction \in 0 .. MaxBookLedger
    /\ DOMAIN graph \subseteq Entries /\ lastLedger \in 0 .. Len(truth)

\* The order book holds exactly the offers and pools of the network after the
\* ledger it claims to be at.
GraphIsState == lastLedger > 0 => graph = ValuesOf(truth[lastLedger])

\* Whatever rebuilds it misses, an order book is never without a live offer or
\* pool, and never has an old value of one.
NothingMissing ==
    lastLedger > 0 =>
        \A e \in LiveEntries(truth[lastLedger]) : e \in DOMAIN graph /\ graph[e] = truth[lastLedger][e].value

\* Until the state is rebuilt the order book is that of the ledger it claims, whatever
\* was compacted meanwhile; after a rebuild it may keep removed offers, but misses none
\* (OrderBookStream.Update).
BookIsRight == BookTypeOK /\ NothingMissing /\ (rebuilds = 0 => GraphIsState)
=============================================================================
