------------------------------- MODULE MCRpc -------------------------------
(***************************************************************************)
(* stellar-rpc, for TLC: what it keeps of the last ledgers (the fee        *)
(* window, the database with its cache, the backfill, the migrations of a  *)
(* start) and its requests (paging through what is stored, the limits a    *)
(* simulation passes).  A behaviour exercises one of them, the others stay *)
(* as they are.                                                            *)
(***************************************************************************)
EXTENDS FeeWindow, RpcIngest, RpcBackfill, RpcRequests, RpcMigrations, TLC

CONSTANTS reader, r1, r2, r3, r4, w1, w2, Unused

VARIABLES
    part,
    count, kind, cursor, first, seen, repeated, scan

pagingVars == <<count, kind, cursor, first, seen, repeated, scan>>
MCVars == <<part, vars, ingestVars, backfillVars, pagingVars, requestVars, migrationVars>>

\* The fees of a ledger.
Fees == {<<>>, <<1>>, <<2>>, <<3, 3>>, <<2, 1>>}

\* Old ledgers are trimmed while a client pages.
Trimmed == INSTANCE RpcPaging WITH
    Kinds <- {"transactions", "events", "ledgers"}, Retention <- 2, ScanLimit <- 2, Datastore <- FALSE,
    Limits <- {1, 3}, MaxItems <- 2, MaxLedger <- 5
\* Older ledgers come from the datastore.
Stored == INSTANCE RpcPaging WITH
    Kinds <- {"events", "ledgers"}, Retention <- 3, ScanLimit <- 2, Datastore <- TRUE,
    Limits <- {1, 3}, MaxItems <- 2, MaxLedger <- 5

ASSUME RpcConfig ==
    Trimmed!PagingAssumption /\ Stored!PagingAssumption

\* The paging is not used.
NoPaging ==
    /\ count = Unused /\ kind = Unused /\ cursor = Unused /\ first = Unused /\ seen = Unused
    /\ repeated = Unused /\ scan = Unused

MCInit ==
    /\ part \in {"fees", "ingesting", "backfilling", "trimmed", "stored", "requests", "migrating"}
    /\ Init /\ IngestInit /\ RequestsInit
    /\ MigrationInit /\ (part # "migrating" => metas = {} /\ done = {})
    /\ BackfillInit /\ (part # "backfilling" => tip = MaxTip)
    /\ CASE part = "trimmed" -> Trimmed!Init
         [] part = "stored" -> Stored!Init
         [] OTHER -> NoPaging

\* A step of one instance leaves the others alone.
InPaging == UNCHANGED <<part, vars, ingestVars, backfillVars, requestVars, migrationVars>>
MCNext ==
    \/ /\ part = "fees" /\ Next
       /\ UNCHANGED <<part, ingestVars, backfillVars, pagingVars, requestVars, migrationVars>>
    \/ /\ part = "ingesting" /\ IngestNext
       /\ UNCHANGED <<part, vars, backfillVars, pagingVars, requestVars, migrationVars>>
    \/ /\ part = "backfilling" /\ BackfillNext
       /\ UNCHANGED <<part, vars, ingestVars, pagingVars, requestVars, migrationVars>>
    \/ part = "trimmed" /\ Trimmed!Next /\ InPaging
    \/ part = "stored" /\ Stored!Next /\ InPaging
    \/ /\ part = "requests" /\ RequestsNext
       /\ UNCHANGED <<part, vars, ingestVars, backfillVars, pagingVars, migrationVars>>
    \/ /\ part = "migrating" /\ MigrationNext
       /\ UNCHANGED <<part, vars, ingestVars, backfillVars, pagingVars, requestVars>>

MCSpec == MCInit /\ [][MCNext]_MCVars

\* Requests are alike, and so are the workers.
Symmetry == Permutations({r1, r2, r3, r4}) \union Permutations({w1, w2})

-----------------------------------------------------------------------------
\* The fee distribution is what its name says: the mode is a most frequent fee and
\* the percentiles are of nearest rank, over the fees of the buckets that are left.
DistributionIsRight == TypeOK /\ ModeIsMostFrequent /\ PercentilesAreNearestRank

\* Nothing that is still stored is skipped by a client that follows the cursors,
\* nor are events and ledgers given twice (NothingSkipped, SeenOnce).
EverythingOnce ==
    /\ part = "trimmed" => Trimmed!TypeOK /\ Trimmed!NothingSkipped /\ (kind # "transactions" => Trimmed!SeenOnce)
    /\ part = "stored" => Stored!TypeOK /\ Stored!NothingSkipped /\ Stored!SeenOnce
=============================================================================
