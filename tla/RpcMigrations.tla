--------------------------- MODULE RpcMigrations ---------------------------
(***************************************************************************)
(* The data migrations of stellar-rpc: on a start the stored ledgers are   *)
(* streamed through the migrations whose guard is not set and through the  *)
(* fee windows, in one transaction; then the guards are set and the        *)
(* transaction is committed.  Any of it may fail or be cut short.          *)
(***************************************************************************)
EXTENDS Integers, Sequences, FiniteSets, FiniteSetsExt, SequencesExt

CONSTANTS
    HistoryWindow,  \* HistoryRetentionWindow
    FeeStatsWindow, \* the larger fee statistics window
    MaxOld,         \* bound on the ledgers of an earlier release
    MaxStarts, MaxMeta      \* bounds

\* buildMigrations refuses a fee window above the retention window.
MigrationConfig ==
    /\ HistoryWindow \in Nat \ {0} /\ FeeStatsWindow \in 1 .. HistoryWindow
    /\ MaxStarts \in Nat /\ MaxMeta \in Nat \ {0, 1} /\ MaxOld \in 0 .. MaxMeta
ASSUME MigrationAssumption == MigrationConfig

VARIABLES
    metas,      \* ledger_close_meta
    table,      \* the ledgers whose transactions and whose events are stored
    done,       \* the migrations whose guard is set
    process,    \* down, starting, running
    tx,         \* what the common transaction sees; open until a rollback
    todo,       \* ledgers still to be streamed
    order,      \* migrations still to be committed, in the order of a Go map
    fed,        \* ledgers the fee windows were initialized with
    outside,    \* migrations whose guard was set after the transaction was rolled back
    starts

stored == <<metas, table, done>>
migrationVars == <<stored, process, tx, todo, order, fed, outside, starts>>

Migrations == {"transactions", "events"}
FirstLedger == 2
LatestStored == IF metas = {} THEN 0 ELSE Max(metas)
NoTx == [open |-> FALSE, table |-> [m \in Migrations |-> {}], done |-> {}]

MigrationTypeOK ==
    /\ metas \subseteq FirstLedger .. MaxMeta
    /\ table \in [Migrations -> SUBSET (FirstLedger .. MaxMeta)] /\ done \subseteq Migrations
    /\ process \in {"down", "starting", "running"}
    /\ todo \union fed \subseteq FirstLedger .. MaxMeta /\ outside \subseteq Migrations
    /\ order \in Seq(Migrations) /\ Len(order) <= Cardinality(Migrations) /\ starts \in 0 .. MaxStarts

\* A new database, one of a release that stored transactions without a guard (from
\* some ledger on), or one of a release that had not yet the table of events.
MigrationInit ==
    /\ metas \in {{}} \union {first .. last : first, last \in FirstLedger .. MaxOld}
    /\ \E since \in metas \union {FirstLedger} :
          table = [m \in Migrations |-> IF m = "transactions" THEN {l \in metas : l >= since} ELSE {}]
    /\ done \in {{}, {"transactions"}} /\ (done # {} => table["transactions"] = metas)
    /\ process = "down" /\ tx = NoTx /\ todo = {} /\ order = <<>> /\ fed = {} /\ outside = {} /\ starts = 0

-----------------------------------------------------------------------------
\* GetMigrationLedgerRange; m is a migration or the fee windows.
\* Mutant: the first ledger is taken for the one after it.
FirstOfShort(m) ==
    LET window == IF m = "fees" THEN FeeStatsWindow ELSE HistoryWindow
    IN  IF LatestStored > window THEN LatestStored - window + 2 ELSE FirstLedger
FirstOf(m) ==
    LET window == IF m = "fees" THEN FeeStatsWindow ELSE HistoryWindow
    IN  IF LatestStored > window THEN LatestStored - window ELSE FirstLedger

\* Mutant: the last ledger of a range is left out.
IsLedgerIncludedExclusive(m, l) == l >= FirstOf(m) /\ l < LatestStored
IsLedgerIncluded(m, l) == l >= FirstOf(m) /\ l <= LatestStored

\* MultiMigration.ApplicableRange: the ranges are merged into one.
ApplicableRange(members) == {l \in metas : l >= Min({FirstOf(m) : m \in members}) /\ l <= LatestStored}

\* BuildMigrations: a transaction is begun, the migrations that are not yet done are
\* made, and the one of the transactions empties its table.
BuildMigrations ==
    /\ process = "down" /\ starts < MaxStarts
    /\ LET pending == Migrations \ done
       IN  /\ tx' = [open |-> TRUE, done |-> done,
                     table |-> [m \in Migrations |-> IF m = "transactions" /\ m \in pending THEN {} ELSE table[m]]]
           /\ order' \in SetToSeqs(pending)
           /\ todo' = ApplicableRange(pending \union {"fees"})
    /\ process' = "starting" /\ starts' = starts + 1
    /\ UNCHANGED <<stored, fed, outside>>

\* MultiMigration.Apply: each migration stores its rows of the ledger, of which
\* there must be none.
Apply ==
    /\ process = "starting" /\ todo # {}
    /\ LET l == Min(todo)
           members == {m \in Range(order) : IsLedgerIncluded(m, l)}
       IN  /\ \A m \in members : l \notin tx.table[m]
           /\ tx' = [tx EXCEPT !.table = [m \in Migrations |-> @[m] \union (IF m \in members THEN {l} ELSE {})]]
           /\ fed' = IF IsLedgerIncluded("fees", l) THEN fed \union {l} ELSE fed
           /\ todo' = todo \ {l}
    /\ UNCHANGED <<stored, process, order, outside, starts>>

\* The process ends with what is committed: it could not start a transaction, a
\* migration failed on a ledger (after the rollback the statements of the others
\* fail as well), reading the ledgers failed or took too long, or it was killed.
Fatal ==
    /\ process' = "down" /\ tx' = NoTx /\ todo' = {} /\ order' = <<>> /\ fed' = {}
    /\ UNCHANGED <<stored, outside, starts>>
Exit == process # "down" /\ Fatal

\* guardedMigration.Commit within MultiMigration.Commit.  Once the transaction is
\* rolled back, the session has none and the guard is stored at once.
\* Mutant: the guard is not part of the transaction.
SetGuardAtOnce ==
    /\ process = "starting" /\ todo = {} /\ order # <<>>
    /\ done' = done \union {Head(order)}
    /\ tx' = [tx EXCEPT !.done = @ \union {Head(order)}]
    /\ order' = Tail(order)
    /\ UNCHANGED <<metas, table, process, todo, fed, outside, starts>>
SetGuard ==
    /\ process = "starting" /\ todo = {} /\ order # <<>>
    /\ LET m == Head(order)
       IN  IF tx.open
           THEN tx' = [tx EXCEPT !.done = @ \union {m}] /\ UNCHANGED <<done, outside>>
           ELSE done' = done \union {m} /\ outside' = outside \union {m} /\ UNCHANGED tx
    /\ order' = Tail(order)
    /\ UNCHANGED <<metas, table, process, todo, fed, starts>>

SetGuardFails ==
    /\ process = "starting" /\ todo = {} /\ order # <<>>
    /\ tx' = NoTx /\ order' = Tail(order)
    /\ UNCHANGED <<stored, process, todo, fed, outside, starts>>

\* The end of MultiMigration.Commit; without a transaction it is an error.
CommitMigrations ==
    /\ process = "starting" /\ todo = {} /\ order = <<>> /\ tx.open
    /\ table' = tx.table /\ done' = tx.done
    /\ tx' = NoTx /\ process' = "running"
    /\ UNCHANGED <<metas, todo, order, fed, outside, starts>>

CommitFails == process = "starting" /\ todo = {} /\ order = <<>> /\ Fatal

-----------------------------------------------------------------------------
\* Live ingestion stores the next ledger with its rows and trims all tables.
Ingest ==
    /\ process = "running" /\ LatestStored < MaxMeta
    /\ LET next == Max({LatestStored + 1, FirstLedger})
           kept(rows) == {l \in rows \union {next} : l > next - HistoryWindow}
       IN  /\ metas' = kept(metas)
           /\ table' = [m \in Migrations |-> kept(table[m])]
    /\ UNCHANGED <<done, process, tx, todo, order, fed, outside, starts>>

MigrationNext ==
    \/ BuildMigrations \/ Apply \/ Exit \/ SetGuard \/ SetGuardFails \/ CommitMigrations \/ CommitFails
    \/ Ingest

MigrationSpec == MigrationInit /\ [][MigrationNext]_migrationVars

-----------------------------------------------------------------------------
\* A migration whose guard was set inside the common transaction has the rows of every
\* ledger that is retained, whenever and however often a start was cut short, and of
\* none that is gone; requests are only served when all guards are set, and the fee
\* windows start from the ledgers of their own window.  Nothing is said of the rows of a
\* guard in outside: when one guard cannot be set, MultiMigration.Commit rolls back and
\* goes on, and the guards that follow are stored without the rows.
GuardsHold ==
    /\ \A m \in done \ outside :
          /\ {l \in metas : l >= LatestStored - HistoryWindow} \subseteq table[m]
          /\ table[m] \subseteq metas
    /\ process = "running" => done = Migrations
    /\ process = "starting" /\ todo = {} => fed = {l \in metas : l >= LatestStored - FeeStatsWindow}

\* As long as no guard is set after a rollback, a migration counts as done only with
\* its rows, wherever a start fails or is cut short, and nothing is served before all are
\* done.
MigratesWholly == MigrationTypeOK /\ GuardsHold
=============================================================================
