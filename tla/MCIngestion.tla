---------------------------- MODULE MCIngestion ----------------------------
(***************************************************************************)
(* IngestionFSM for TLC.  A behaviour plays one of five deployments, which *)
(* differ in who ingests, what operators do and how much goes wrong.       *)
(***************************************************************************)
EXTENDS IngestionFSM

CONSTANTS a, b, c

VARIABLE deployment

\* b runs a newer release than the others.
Upgrade == [n \in Node |-> IF n = b THEN 2 ELSE 1]

ReingestCommands ==
    {St("reingest", 2, 4), St("reingestForce", 4, 5), St("buildStop", 0, 3),
     St("trigger", 0, 0), St("save", 1, 0)}
LoadTestCommands == {St("save", 0, 0), St("restore", 0, 0)}
AllCommands == ReingestCommands \union LoadTestCommands

\* Two releases ingest, over the history of an earlier installation.
Releases == INSTANCE IngestionFSM WITH
    InitHistory <- {2}, Live <- {a, b}, Commands <- {}, MaxCommands <- 0
\* Two processes ingest while an operator reingests and rebuilds.
Reingesting == INSTANCE IngestionFSM WITH
    InitHistory <- {}, Live <- {a, c}, Commands <- ReingestCommands, MaxCommands <- 2, MaxFaults <- 1, MaxLedger <- 5
\* One process ingests, others load test and restore.
LoadTesting == INSTANCE IngestionFSM WITH
    InitHistory <- {}, Live <- {a}, Commands <- LoadTestCommands, MaxCommands <- 3, MaxLedger <- 5
\* Two releases, and one release over an old history, left alone.
Following == INSTANCE IngestionFSM WITH
    InitHistory <- {}, Live <- {a, b}, Commands <- {}, MaxCommands <- 0, MaxFaults <- 1
Reconciling == INSTANCE IngestionFSM WITH
    InitHistory <- {2}, Live <- {a, c}, Commands <- {}, MaxCommands <- 0, MaxFaults <- 1

MCInit ==
    \/ deployment = "releases" /\ Releases!Init
    \/ deployment = "reingesting" /\ Reingesting!Init
    \/ deployment = "load testing" /\ LoadTesting!Init
    \/ deployment = "following" /\ Following!Init
    \/ deployment = "reconciling" /\ Reconciling!Init

MCNext ==
    /\ UNCHANGED deployment
    /\ \/ deployment = "releases" /\ Releases!Next
       \/ deployment = "reingesting" /\ Reingesting!Next
       \/ deployment = "load testing" /\ LoadTesting!Next
       \/ deployment = "following" /\ Following!Next
       \/ deployment = "reconciling" /\ Reconciling!Next

MCSpec ==
    /\ MCInit
    /\ [][MCNext]_<<vars, deployment>>
    /\ Fairness

-----------------------------------------------------------------------------
\* A load test that was restored has left nothing behind, unless it was run with
\* generated fixtures, and no hole in the history (LoadTestLeavesNoTrace,
\* NoHistoryGap).
LoadTestUndone == deployment = "load testing" => LoadTestLeavesNoTrace /\ NoHistoryGap

\* Processes that are left alone follow the network for good, and a single
\* release reconciles an old history as well.
FollowsNetwork ==
    deployment \in {"following", "reconciling"} =>
        <>[](/\ last = MaxLedger /\ stateAt = MaxLedger
             /\ deployment = "reconciling" => LastHistory = last)
=============================================================================
