---------------------------- MODULE LookupTables ----------------------------
(***************************************************************************)
(* A history lookup table (history_accounts and the like: key -> id), the  *)
(* loaders of live ingestion that resolve keys to ids in their transaction *)
(* (db2/history/loader.go, ConcurrentDeletes), and the reaper of rows that *)
(* no history row refers to any more (ingest/reap.go, db2/history/main.go).*)
(* Transactions are READ COMMITTED: each statement sees what was committed *)
(* when it began.                                                          *)
(***************************************************************************)
EXTENDS Integers, FiniteSets, FiniteSetsExt

CONSTANTS
    Key,        \* accounts, assets, ...
    Ledger,     \* ledgers of history at one time
    LookupBatchSize,  \* reapLookupTablesBatchSize
    MaxId       \* bound on the ids

LookupConfig ==
    /\ IsFiniteSet(Key)
    /\ LookupBatchSize \in Nat \ {0}
    /\ MaxId \in Nat
ASSUME LookupAssumption == LookupConfig

VARIABLES
    ids,       \* the table: ids[k], 0 when there is no row for k
    nextId,    \* its sequence
    refs,      \* refs[l]: the ids that the history rows of ledger l refer to
    offset,    \* the table's reap offset in key_value_store
    loader,    \* where the ingestion transaction is
    keys,      \* the keys registered with the loader
    known,     \* loader.ids, 0 for unknown keys
    inserted,  \* the keys that it has inserted rows for
    toShare,   \* ids that its SELECT ... FOR KEY SHARE has still to lock
    shared,    \* ids that it holds FOR KEY SHARE
    reaper,    \* where the reaper is
    newOffset, \* results of FindLookupTableRowsToReap: the next offset
    orphans,   \*   and the ids to delete
    snapshot,  \* DELETE: the referenced ids it sees
    toLock,    \* DELETE: ids it has still to lock FOR UPDATE
    locked,    \* DELETE: ids it has locked
    late       \* DELETE: the ledgers committed since it began

table == <<ids, nextId, refs, offset>>
ingestion == <<loader, keys, known, inserted, toShare, shared>>
reaping == <<reaper, newOffset, orphans, snapshot, toLock, locked, late>>
lookupVars == <<table, ingestion, reaping>>

LiveIds == {ids[k] : k \in Key} \ {0}
Referenced == UNION {refs[l] : l \in Ledger}
Unresolved == [k \in Key |-> 0]

LookupInit ==
    /\ ids = Unresolved /\ nextId = 1
    /\ refs = [l \in Ledger |-> {}]
    /\ offset = 0
    /\ loader = "idle" /\ keys = {} /\ known = Unresolved /\ inserted = {}
    /\ toShare = {} /\ shared = {}
    /\ reaper = "idle" /\ newOffset = 0 /\ orphans = {}
    /\ snapshot = {} /\ toLock = {} /\ locked = {} /\ late = {}
-----------------------------------------------------------------------------
\* Ingestion of one ledger: Exec resolves the keys, then history rows are
\* written and the transaction commits.
Query(ks) ==
    /\ loader = "idle"
    /\ loader' = "query"
    /\ keys' = ks
    /\ toShare' = {ids[k] : k \in ks} \ {0}
    /\ UNCHANGED <<table, known, inserted, shared, reaping>>

\* Mutant: the rows are read without a lock.
ShareRowUnlocked ==
    LET id == Min(toShare) IN
    /\ loader = "query"
    /\ toShare # {}
    /\ toShare' = toShare \ {id}
    /\ known' = [k \in Key |-> IF ids[k] = id THEN id ELSE known[k]]
    /\ UNCHANGED <<table, loader, keys, inserted, shared, reaping>>

\* ORDER BY id ASC FOR KEY SHARE: the next row, unless the reaper holds it; a
\* row that is gone by now is left out.
ShareRow ==
    LET id == Min(toShare) IN
    /\ loader = "query"
    /\ toShare # {}
    /\ id \notin locked
    /\ toShare' = toShare \ {id}
    /\ shared' = IF id \in LiveIds THEN shared \cup {id} ELSE shared
    /\ known' = [k \in Key |-> IF ids[k] = id THEN id ELSE known[k]]
    /\ UNCHANGED <<table, loader, keys, inserted, reaping>>

\* The keys that the query did not find get new rows, with ids in any order.
Insert ==
    LET new == {k \in keys : known[k] = 0} IN
    /\ loader = "query"
    /\ toShare = {}
    /\ nextId + Cardinality(new) <= MaxId + 1
    /\ loader' = "write"
    /\ inserted' = new
    /\ nextId' = nextId + Cardinality(new)
    /\ \E number \in [new -> nextId .. nextId + Cardinality(new) - 1] :
        /\ \A j, k \in new : number[j] = number[k] => j = k
        /\ known' = [k \in Key |-> IF k \in new THEN number[k] ELSE known[k]]
    /\ UNCHANGED <<ids, refs, offset, keys, toShare, shared, reaping>>

EndIngestion ==
    /\ loader' = "idle"
    /\ keys' = {} /\ known' = Unresolved /\ inserted' = {}
    /\ toShare' = {} /\ shared' = {}

CommitLedger(l) ==
    /\ loader = "write"
    /\ refs[l] = {}
    /\ ids' = [k \in Key |-> IF k \in inserted THEN known[k] ELSE ids[k]]
    /\ refs' = [refs EXCEPT ![l] = {known[k] : k \in keys}]
    /\ late' = IF reaper = "delete" THEN late \cup {l} ELSE {}
    /\ EndIngestion
    /\ UNCHANGED <<nextId, offset, reaper, newOffset, orphans, snapshot, toLock, locked>>

RollbackLedger ==
    /\ loader # "idle"
    /\ EndIngestion
    /\ UNCHANGED <<table, reaping>>

\* The history reaper removes a ledger.
DeleteHistory(l) ==
    /\ refs[l] # {}
    /\ refs' = [refs EXCEPT ![l] = {}]
    /\ UNCHANGED <<ids, nextId, offset, ingestion, reaping>>
-----------------------------------------------------------------------------
\* Rows from the offset on, in the order of their ids.
From(n) == {id \in LiveIds : id >= n}
Rank(id, n) == Cardinality({i \in From(n) : i < id})

\* Mutant: one row is skipped between two batches.
NextOffsetSkips ==
    LET rest == {id \in From(offset) : Rank(id, offset) >= LookupBatchSize + 1} IN
    IF rest = {} THEN 0 ELSE Min(rest)

NextOffset ==
    LET rest == {id \in From(offset) : Rank(id, offset) >= LookupBatchSize} IN
    IF rest = {} THEN 0 ELSE Min(rest)

FindOffset ==
    /\ reaper = "idle"
    /\ newOffset' = NextOffset
    /\ reaper' = "find"
    /\ UNCHANGED <<table, ingestion, orphans, snapshot, toLock, locked, late>>

FindRows ==
    /\ reaper = "find"
    /\ orphans' = {id \in From(offset) : Rank(id, offset) < LookupBatchSize} \ Referenced
    /\ reaper' = "reap"
    /\ UNCHANGED <<table, ingestion, newOffset, snapshot, toLock, locked, late>>

\* ReapLookupTable: its DELETE begins.
BeginDelete ==
    /\ reaper = "reap"
    /\ reaper' = "delete"
    /\ snapshot' = Referenced
    /\ toLock' = orphans \cap LiveIds
    /\ UNCHANGED <<table, ingestion, newOffset, orphans, locked, late>>

\* Mutant: the rows are locked in another order.
LockRowDescending ==
    LET id == Max(toLock) IN
    /\ reaper = "delete"
    /\ toLock # {}
    /\ id \notin shared
    /\ toLock' = toLock \ {id}
    /\ locked' = locked \cup {id}
    /\ UNCHANGED <<table, ingestion, reaper, newOffset, orphans, snapshot, late>>

\* SELECT ... ORDER BY id ASC FOR UPDATE
LockRow ==
    LET id == Min(toLock) IN
    /\ reaper = "delete"
    /\ toLock # {}
    /\ id \notin shared
    /\ toLock' = toLock \ {id}
    /\ locked' = locked \cup {id}
    /\ UNCHANGED <<table, ingestion, reaper, newOffset, orphans, snapshot, late>>

\* Mutant: the candidates are not checked again.
DeletableAll == locked

\* NOT EXISTS ... is evaluated with the snapshot of the statement.
Deletable == locked \ snapshot

EndReap ==
    /\ reaper' = "idle"
    /\ newOffset' = 0 /\ orphans' = {} /\ snapshot' = {}
    /\ toLock' = {} /\ locked' = {} /\ late' = {}

CommitReap ==
    /\ reaper = "delete"
    /\ toLock = {}
    /\ ids' = [k \in Key |-> IF ids[k] \in Deletable THEN 0 ELSE ids[k]]
    /\ offset' = newOffset
    /\ EndReap
    /\ UNCHANGED <<nextId, refs, ingestion>>

RollbackReap ==
    /\ reaper # "idle"
    /\ EndReap
    /\ UNCHANGED <<table, ingestion>>

Reap == FindOffset \/ FindRows \/ BeginDelete \/ LockRow \/ CommitReap

Steps ==
    \/ \E ks \in SUBSET Key \ {{}} : Query(ks)
    \/ ShareRow \/ Insert \/ RollbackLedger
    \/ \E l \in Ledger : CommitLedger(l) \/ DeleteHistory(l)
    \/ Reap

LookupNext == Steps \/ RollbackReap

LookupSpec == LookupInit /\ [][LookupNext]_lookupVars

\* A reap starts after every ledger at the tip of the network; those that fail
\* leave no trace and are left out.  An ingestion transaction ends, and those
\* who wait for a row are served in turn.
ReapStep == FindOffset \/ FindRows \/ BeginDelete \/ CommitReap

LookupFairSpec ==
    /\ LookupInit /\ [][Steps]_lookupVars
    /\ WF_lookupVars(ReapStep) /\ SF_lookupVars(LockRow) /\ WF_lookupVars(RollbackLedger)
-----------------------------------------------------------------------------
LookupTypeOK ==
    /\ ids \in [Key -> 0..MaxId] /\ nextId \in 1..MaxId + 1
    /\ refs \in [Ledger -> SUBSET (1..MaxId)]
    /\ {offset, newOffset} \subseteq 0..MaxId
    /\ loader \in {"idle", "query", "write"}
    /\ inserted \subseteq keys /\ keys \subseteq Key /\ known \in [Key -> 0..MaxId]
    /\ toShare \cup shared \subseteq 1..MaxId
    /\ reaper \in {"idle", "find", "reap", "delete"}
    /\ orphans \cup snapshot \cup toLock \cup locked \subseteq 1..MaxId
    /\ late \subseteq Ledger

\* A ledger refers to existing rows when it is committed: the reaper cannot
\* take one away between the loader's look-up and the commit (FOR KEY SHARE),
\* and whoever looks a key up while it is being deleted gets a new row.
LedgersResolve == \A l \in Ledger : refs'[l] \subseteq refs[l] \cup {ids'[k] : k \in Key}

\* The second check protects every ledger that was committed before the DELETE
\* began, however long ago the candidates were found.  It does not protect one that is
\* committed while the DELETE waits for its row locks: the rows are locked then, but the
\* statement looks for references in the snapshot it began with.
ReapsSettled ==
    \A k \in Key : ids[k] # 0 /\ ids'[k] # ids[k] => \A l \in Ledger \ late : ids[k] \notin refs[l]

\* Ingestion and the reaper never wait for each other.
NoLockCycle ==
    ~ /\ loader = "query" /\ toShare # {} /\ Min(toShare) \in locked
      /\ reaper = "delete" /\ toLock # {} /\ Min(toLock) \in shared

\* History refers to existing rows when it is committed, row locks do not form a
\* cycle, and the reaper takes no row that a ledger committed before its DELETE began
\* refers to.
ReferencesResolve ==
    [][(LookupTypeOK /\ NoLockCycle)' /\ LedgersResolve /\ ReapsSettled]_lookupVars
=============================================================================
