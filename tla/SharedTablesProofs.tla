------------------------ MODULE SharedTablesProofs ------------------------
(***************************************************************************)
(* Tables that one part of Horizon writes while another relies on them.    *)
(*                                                                         *)
(* The lookup tables, for any keys, ledgers and batch sizes.  A key that   *)
(* the loader resolved keeps its row, because the loader holds it          *)
(* (Resolved) and nobody else has locked it (LocksExclude); both sides     *)
(* lock rows in ascending order (LocksAscend); and what was referred to    *)
(* when the DELETE began is all there is as long as no ledger was          *)
(* committed meanwhile (SnapshotValid).                                    *)
(*                                                                         *)
(* The order book that follows the tables of offers and pools, for any     *)
(* entries, any number of ledgers and rebuilds, and any compaction window. *)
(* What makes an incremental update right is that the tables tell when an  *)
(* entry was last modified: one that was not modified since the stream's   *)
(* ledger was the same then (Settled), the live rows are the entries of    *)
(* the last ingested ledger (RowsMirror), and an entry that is gone has a  *)
(* row that says since when, unless it was compacted (NothingMissing).     *)
(***************************************************************************)
EXTENDS LookupTables, OrderBookStream, FiniteSetTheorems, WellFoundedInduction, TLAPS

Resolved ==
    /\ loader = "idle" => toShare = {} /\ shared = {} /\ known = Unresolved
    /\ loader # "write" => inserted = {}
    /\ loader = "write" => toShare = {} /\ \A k \in keys : known[k] # 0
    /\ \A k \in Key \ inserted : known[k] # 0 => ids[k] = known[k] /\ known[k] \in shared
    /\ loader = "query" => \A k \in keys : known[k] = 0 /\ ids[k] # 0 => ids[k] \in toShare
    /\ \A k \in inserted : ids[k] = 0

LocksExclude ==
    /\ shared \cap locked = {}
    /\ reaper # "delete" => locked = {}

LocksAscend ==
    /\ \A a \in shared, b \in toShare : a < b
    /\ \A a \in locked, b \in toLock : a < b

SnapshotValid == reaper = "delete" => \A l \in Ledger \ late : refs[l] \subseteq snapshot

LookupInv == LookupTypeOK /\ Resolved /\ LocksExclude /\ LocksAscend /\ SnapshotValid

-----------------------------------------------------------------------------
LEMMA SmallestId ==
    ASSUME NEW S \in SUBSET Nat, S # {}
    PROVE  Min(S) \in S /\ \A y \in S : Min(S) <= y
<1>1. PICK x \in S : \A y \in S : ~(<<y, x>> \in OpToRel(<, Nat))
    BY Zenon, NatLessThanWellFounded, WFMin
<1>2. \A y \in S : x <= y
    <2> TAKE y \in S
    <2>1. x \in Nat /\ y \in Nat
        OBVIOUS
    <2>2. ~(y < x)
        BY Zenon, <1>1, <2>1 DEF OpToRel
    <2> QED BY <2>1, <2>2
<1> QED BY Zenon, <1>2 DEF Min

LEMMA NoCycle ==
    ASSUME LookupTypeOK, LocksAscend PROVE NoLockCycle
<1> SUFFICES ASSUME toShare # {}, Min(toShare) \in locked, toLock # {}, Min(toLock) \in shared
             PROVE  FALSE
    BY DEF NoLockCycle
<1>1. toShare \in SUBSET Nat /\ toLock \in SUBSET Nat
    BY LookupAssumption DEF LookupTypeOK, LookupConfig
<1>2. Min(toShare) \in toShare /\ Min(toLock) \in toLock
    BY <1>1, SmallestId
<1>3. Min(toShare) < Min(toLock) /\ Min(toLock) < Min(toShare)
    BY <1>2 DEF LocksAscend
<1> DEFINE a == Min(toShare)
           b == Min(toLock)
<1>4. a \in Nat /\ b \in Nat /\ a < b /\ b < a
    BY Zenon, <1>1, <1>2, <1>3
<1> HIDE DEF a, b
<1> QED BY <1>4

LEMMA LookupInitInv == LookupInit => LookupInv
<1> SUFFICES ASSUME LookupInit PROVE LookupInv
    OBVIOUS
<1> USE DEF LookupInit
<1>1. LookupTypeOK
    <2>1. MaxId \in Nat
        BY LookupAssumption DEF LookupConfig
    <2>2. /\ ids \in [Key -> 0..MaxId] /\ known \in [Key -> 0..MaxId]
          /\ refs \in [Ledger -> SUBSET (1..MaxId)] /\ nextId \in 1..MaxId + 1
        BY <2>1 DEF Unresolved
    <2>3. /\ {offset, newOffset} \subseteq 0..MaxId
          /\ inserted \subseteq keys /\ keys \subseteq Key /\ toShare \cup shared \subseteq 1..MaxId
          /\ orphans \cup snapshot \cup toLock \cup locked \subseteq 1..MaxId
        BY <2>1
    <2> QED BY Zenon, <2>2, <2>3 DEF LookupTypeOK
<1>2. Resolved
    BY DEF Resolved, Unresolved
<1>3. LocksExclude /\ LocksAscend /\ SnapshotValid
    BY DEF LocksExclude, LocksAscend, SnapshotValid
<1> QED BY <1>1, <1>2, <1>3 DEF LookupInv

LEMMA IdTypes ==
    ASSUME LookupInv
    PROVE  /\ MaxId \in Nat /\ LiveIds \subseteq 1..MaxId /\ LiveIds \in SUBSET Nat
           /\ \A k \in Key : ids[k] \in 0..MaxId /\ known[k] \in 0..MaxId
           /\ toShare \in SUBSET Nat /\ toLock \in SUBSET Nat
           /\ toShare \subseteq 1..MaxId /\ toLock \subseteq 1..MaxId
           /\ keys \subseteq Key /\ inserted \subseteq keys
           /\ nextId \in Nat
BY LookupAssumption DEF LookupInv, LookupTypeOK, LookupConfig, LiveIds

-----------------------------------------------------------------------------
LEMMA QueryInv ==
    ASSUME LookupInv, NEW ks \in SUBSET Key, Query(ks) PROVE LookupInv'
<1> USE DEF Query, table, reaping
<1>1. LookupTypeOK'
    BY IdTypes DEF LookupInv, LookupTypeOK, Resolved
<1>2. Resolved'
    BY DEF LookupInv, Resolved, Unresolved
<1>3. LocksExclude' /\ LocksAscend'
    BY DEF LookupInv, LocksExclude, LocksAscend, Resolved
<1>4. SnapshotValid'
    BY DEF LookupInv, SnapshotValid, Referenced
<1> QED BY <1>1, <1>2, <1>3, <1>4 DEF LookupInv

LEMMA ShareRowInv ==
    ASSUME LookupInv, ShareRow PROVE LookupInv'
<1> DEFINE id == Min(toShare)
<1>1. /\ loader = "query" /\ toShare # {} /\ id \notin locked
      /\ toShare' = toShare \ {id}
      /\ shared' = IF id \in LiveIds THEN shared \cup {id} ELSE shared
      /\ known' = [k \in Key |-> IF ids[k] = id THEN id ELSE known[k]]
      /\ UNCHANGED <<ids, nextId, refs, offset, loader, keys, inserted, reaper, newOffset, orphans, snapshot,
                     toLock, locked, late>>
    BY DEF ShareRow, table, reaping
<1>2. id \in toShare /\ \A y \in toShare : id <= y
    BY <1>1, IdTypes, SmallestId
<1>3. id \in 1..MaxId
    BY <1>2, IdTypes
<1> HIDE DEF id
<1>4. LookupTypeOK'
    BY <1>1, <1>3, IdTypes DEF LookupInv, LookupTypeOK
<1>5. Resolved'
    <2>1. \A k \in Key : ids[k] = id => id \in LiveIds
        BY <1>3, IdTypes DEF LiveIds
    <2>2. \A k \in Key : known'[k] = IF ids[k] = id THEN id ELSE known[k]
        BY <1>1
    <2>3. \A k \in Key \ inserted : known'[k] # 0 => ids[k] = known'[k] /\ known'[k] \in shared'
        BY <1>1, <2>1, <2>2 DEF LookupInv, Resolved
    <2>4. \A k \in keys : known'[k] = 0 /\ ids[k] # 0 => ids[k] \in toShare'
        BY <1>1, <1>3, <2>2, IdTypes DEF LookupInv, Resolved
    <2> QED BY <1>1, <2>3, <2>4 DEF LookupInv, Resolved
<1>6. LocksExclude'
    BY <1>1 DEF LookupInv, LocksExclude
<1>7. LocksAscend'
    <2>1. \A y \in toShare' : id < y
        BY <1>1, <1>2, <1>3, IdTypes
    <2> QED BY <1>1, <2>1 DEF LookupInv, LocksAscend
<1>8. SnapshotValid'
    BY <1>1 DEF LookupInv, SnapshotValid, Referenced
<1> QED BY <1>4, <1>5, <1>6, <1>7, <1>8 DEF LookupInv

LEMMA InsertInv ==
    ASSUME LookupInv, Insert PROVE LookupInv'
<1> DEFINE new == {k \in keys : known[k] = 0}
           size == Cardinality(new)
<1>1. PICK number \in [new -> nextId .. nextId + size - 1] :
          known' = [k \in Key |-> IF k \in new THEN number[k] ELSE known[k]]
    BY SMTT(60) DEF Insert
<1>2. /\ loader = "query" /\ toShare = {} /\ nextId + size <= MaxId + 1
      /\ loader' = "write" /\ inserted' = new /\ nextId' = nextId + size
      /\ UNCHANGED <<ids, refs, offset, keys, toShare, shared, reaper, newOffset, orphans, snapshot,
                     toLock, locked, late>>
    BY DEF Insert, reaping
<1>3. size \in Nat
    <2>1. IsFiniteSet(Key) /\ new \subseteq Key
        BY LookupAssumption, IdTypes DEF LookupConfig
    <2> QED BY <2>1, FS_Subset, FS_CardinalityType
<1>4. new \subseteq keys /\ (\A k \in keys : k \in new <=> known[k] = 0) /\ nextId \in 1..MaxId + 1
    BY DEF LookupInv, LookupTypeOK
<1> HIDE DEF new, size
<1>5. \A k \in new : number[k] \in 1..MaxId
    BY <1>1, <1>2, <1>3, <1>4, IdTypes
<1>6. \A k \in Key : known'[k] = IF k \in new THEN number[k] ELSE known[k]
    BY <1>1
<1>7. known' \in [Key -> 0..MaxId]
    BY <1>1, <1>5, IdTypes
<1>8. LookupTypeOK'
    BY <1>2, <1>3, <1>4, <1>7, IdTypes DEF LookupInv, LookupTypeOK
<1>9. Resolved'
    <2>1. \A k \in keys : known'[k] # 0
        BY <1>4, <1>5, <1>6, IdTypes
    <2>2. \A k \in new : ids[k] = 0
        BY <1>2, <1>4 DEF LookupInv, Resolved
    <2>3. \A k \in Key \ new : known'[k] = known[k]
        BY <1>6
    <2> QED BY <1>2, <2>1, <2>2, <2>3 DEF LookupInv, Resolved
<1>10. LocksExclude' /\ LocksAscend'
    BY <1>2 DEF LookupInv, LocksExclude, LocksAscend
<1>11. SnapshotValid'
    BY <1>2 DEF LookupInv, SnapshotValid, Referenced
<1> QED BY <1>8, <1>9, <1>10, <1>11 DEF LookupInv

LEMMA EndIngestionInv ==
    ASSUME LookupInv, EndIngestion, ids' \in [Key -> 0..MaxId], refs' \in [Ledger -> SUBSET (1..MaxId)],
           late' \subseteq Ledger, SnapshotValid',
           UNCHANGED <<nextId, offset, reaper, newOffset, orphans, snapshot, toLock, locked>>
    PROVE  LookupInv'
<1> USE DEF EndIngestion
<1>1. LookupTypeOK'
    <2>1. known' \in [Key -> 0..MaxId]
        BY IdTypes DEF Unresolved
    <2> QED BY <2>1 DEF LookupInv, LookupTypeOK
<1>2. Resolved'
    BY DEF Resolved, Unresolved
<1>3. LocksExclude' /\ LocksAscend'
    BY DEF LookupInv, LocksExclude, LocksAscend
<1> QED BY <1>1, <1>2, <1>3 DEF LookupInv

LEMMA CommitLedgerInv ==
    ASSUME LookupInv, NEW l \in Ledger, CommitLedger(l)
    PROVE  LookupInv' /\ LedgersResolve /\ ReapsSettled
<1>1. /\ loader = "write"
      /\ ids' = [k \in Key |-> IF k \in inserted THEN known[k] ELSE ids[k]]
      /\ refs' = [refs EXCEPT ![l] = {known[k] : k \in keys}]
      /\ late' = IF reaper = "delete" THEN late \cup {l} ELSE {}
      /\ EndIngestion
      /\ UNCHANGED <<nextId, offset, reaper, newOffset, orphans, snapshot, toLock, locked>>
    BY DEF CommitLedger
<1>2. \A k \in Key : ids'[k] = IF k \in inserted THEN known[k] ELSE ids[k]
    BY <1>1
<1>3. \A k \in keys : known[k] = ids'[k] /\ known[k] \in 1..MaxId
    BY <1>1, <1>2, IdTypes DEF LookupInv, Resolved
<1>4. ids' \in [Key -> 0..MaxId] /\ refs' \in [Ledger -> SUBSET (1..MaxId)]
    BY SMTT(60), <1>1, <1>3, IdTypes DEF LookupInv, LookupTypeOK
<1>5. late' \subseteq Ledger /\ (reaper = "delete" => late' = late \cup {l})
    BY <1>1 DEF LookupInv, LookupTypeOK
<1>6. SnapshotValid'
    <2>1. \A m \in Ledger \ {l} : refs'[m] = refs[m]
        BY <1>1 DEF LookupInv, LookupTypeOK
    <2> QED BY <1>1, <1>5, <2>1 DEF SnapshotValid, LookupInv
<1>7. LookupInv'
    BY <1>1, <1>4, <1>5, <1>6, EndIngestionInv
<1>8. LedgersResolve
    <2>1. \A m \in Ledger \ {l} : refs'[m] = refs[m]
        BY <1>1 DEF LookupInv, LookupTypeOK
    <2>2. refs'[l] = {known[k] : k \in keys}
        BY <1>1 DEF LookupInv, LookupTypeOK
    <2>3. refs'[l] \subseteq {ids'[k] : k \in Key}
        BY <1>3, <2>2, IdTypes
    <2> QED BY <2>1, <2>3 DEF LedgersResolve
<1>9. ReapsSettled
    BY <1>2 DEF ReapsSettled, LookupInv, Resolved
<1> QED BY <1>7, <1>8, <1>9

\* A step that changes no id and adds no reference.
LEMMA IdsKept ==
    ASSUME LookupInv, ids' = ids, \A l \in Ledger : refs'[l] \subseteq refs[l]
    PROVE  LedgersResolve /\ ReapsSettled
BY DEF LedgersResolve, ReapsSettled

LEMMA RollbackLedgerInv ==
    ASSUME LookupInv, RollbackLedger PROVE LookupInv'
<1>1. SnapshotValid'
    BY DEF LookupInv, SnapshotValid, RollbackLedger, table, reaping, Referenced
<1> QED BY <1>1, EndIngestionInv DEF RollbackLedger, table, reaping, LookupInv, LookupTypeOK

LEMMA DeleteHistoryInv ==
    ASSUME LookupInv, NEW l \in Ledger, DeleteHistory(l)
    PROVE  LookupInv' /\ \A m \in Ledger : refs'[m] \subseteq refs[m]
<1> USE DEF DeleteHistory, ingestion, reaping
<1>1. LookupTypeOK'
    BY DEF LookupInv, LookupTypeOK
<1>2. Resolved' /\ LocksExclude' /\ LocksAscend'
    BY DEF LookupInv, Resolved, LocksExclude, LocksAscend
<1>3. \A m \in Ledger : refs'[m] \subseteq refs[m]
    BY DEF LookupInv, LookupTypeOK
<1>4. SnapshotValid'
    BY <1>3 DEF LookupInv, SnapshotValid, Referenced
<1> QED BY <1>1, <1>2, <1>3, <1>4 DEF LookupInv

-----------------------------------------------------------------------------
\* The steps of the reaper before it deletes.
LEMMA FindOffsetInv ==
    ASSUME LookupInv, FindOffset PROVE LookupInv'
<1> USE DEF FindOffset, table, ingestion
<1>1. NextOffset \in 0..MaxId
    <2> DEFINE rest == {i \in From(offset) : Rank(i, offset) >= LookupBatchSize}
    <2>1. rest \subseteq 1..MaxId /\ rest \in SUBSET Nat
        BY IdTypes DEF From
    <2>2. NextOffset = IF rest = {} THEN 0 ELSE Min(rest)
        BY DEF NextOffset
    <2> HIDE DEF rest
    <2> QED BY <2>1, <2>2, SmallestId, IdTypes
<1>2. LookupTypeOK'
    BY <1>1 DEF LookupInv, LookupTypeOK
<1>3. Resolved' /\ LocksExclude' /\ LocksAscend'
    BY DEF LookupInv, Resolved, LocksExclude, LocksAscend
<1>4. SnapshotValid'
    BY DEF SnapshotValid
<1> QED BY <1>2, <1>3, <1>4 DEF LookupInv

LEMMA FindRowsInv ==
    ASSUME LookupInv, FindRows PROVE LookupInv'
<1> USE DEF FindRows, table, ingestion
<1>1. LookupTypeOK'
    <2>1. orphans' \subseteq 1..MaxId
        BY IdTypes DEF From
    <2> QED BY <2>1 DEF LookupInv, LookupTypeOK
<1>2. Resolved' /\ LocksExclude' /\ LocksAscend'
    BY DEF LookupInv, Resolved, LocksExclude, LocksAscend
<1>3. SnapshotValid'
    BY DEF SnapshotValid
<1> QED BY <1>1, <1>2, <1>3 DEF LookupInv

LEMMA BeginDeleteInv ==
    ASSUME LookupInv, BeginDelete PROVE LookupInv'
<1> USE DEF BeginDelete, table, ingestion
<1>1. LookupTypeOK'
    <2>1. Referenced \subseteq 1..MaxId
        BY DEF LookupInv, LookupTypeOK, Referenced
    <2> QED BY Zenon, <2>1, IdTypes DEF LookupInv, LookupTypeOK
<1>2. Resolved' /\ LocksExclude' /\ LocksAscend'
    BY DEF LookupInv, Resolved, LocksExclude, LocksAscend
<1>3. SnapshotValid'
    BY DEF SnapshotValid, Referenced
<1> QED BY <1>1, <1>2, <1>3 DEF LookupInv

LEMMA LockRowInv ==
    ASSUME LookupInv, LockRow PROVE LookupInv'
<1> DEFINE id == Min(toLock)
<1>1. /\ reaper = "delete" /\ toLock # {} /\ id \notin shared
      /\ toLock' = toLock \ {id} /\ locked' = locked \cup {id}
      /\ UNCHANGED <<ids, nextId, refs, offset, loader, keys, known, inserted, toShare, shared,
                     reaper, newOffset, orphans, snapshot, late>>
    BY DEF LockRow, table, ingestion
<1>2. id \in toLock /\ \A y \in toLock : id <= y
    BY <1>1, IdTypes, SmallestId
<1>3. id \in 1..MaxId
    BY <1>2, IdTypes
<1> HIDE DEF id
<1>4. LookupTypeOK'
    BY <1>1, <1>3 DEF LookupInv, LookupTypeOK
<1>5. Resolved' /\ LocksExclude'
    BY <1>1 DEF LookupInv, Resolved, LocksExclude
<1>6. LocksAscend'
    <2>1. \A y \in toLock' : id < y
        <3> SUFFICES ASSUME NEW y \in toLock, y # id PROVE id < y
            BY <1>1, Zenon
        <3>1. toLock \in SUBSET Nat /\ id \in toLock /\ id <= y
            BY <1>2, IdTypes, Zenon
        <3>2. y \in Nat /\ id \in Nat
            BY <3>1, Zenon
        <3> QED
            BY <3>1, <3>2, SMT
    <2> QED BY <1>1, <2>1 DEF LookupInv, LocksAscend
<1>7. SnapshotValid'
    BY <1>1 DEF LookupInv, SnapshotValid, Referenced
<1> QED BY <1>4, <1>5, <1>6, <1>7 DEF LookupInv

LEMMA EndReapInv ==
    ASSUME LookupInv, EndReap, ids' \in [Key -> 0..MaxId], offset' \in 0..MaxId,
           \A k \in Key : ids'[k] = ids[k] \/ (ids'[k] = 0 /\ ids[k] \notin shared),
           UNCHANGED <<nextId, refs, loader, keys, known, inserted, toShare, shared>>
    PROVE  LookupInv'
<1> USE DEF EndReap
<1>1. LookupTypeOK'
    <2>1. {offset', newOffset'} \subseteq 0..MaxId
        BY IdTypes
    <2>2. orphans' \cup snapshot' \cup toLock' \cup locked' \subseteq 1..MaxId
        OBVIOUS
    <2>3. /\ nextId \in 1..MaxId + 1 /\ refs \in [Ledger -> SUBSET (1..MaxId)]
          /\ loader \in {"idle", "query", "write"} /\ known \in [Key -> 0..MaxId]
          /\ inserted \subseteq keys /\ keys \subseteq Key /\ toShare \cup shared \subseteq 1..MaxId
        BY DEF LookupInv, LookupTypeOK
    <2> QED BY Zenon, <2>1, <2>2, <2>3 DEF LookupTypeOK
<1>2. Resolved'
    <2>1. \A k \in Key \ inserted : known[k] # 0 => ids'[k] = known[k] /\ known[k] \in shared
        BY DEF LookupInv, Resolved
    <2>2. loader = "query" => \A k \in keys : known[k] = 0 /\ ids'[k] # 0 => ids'[k] \in toShare
        BY IdTypes DEF LookupInv, Resolved
    <2>3. \A k \in inserted : ids'[k] = 0
        BY IdTypes DEF LookupInv, Resolved
    <2> QED BY <2>1, <2>2, <2>3 DEF LookupInv, Resolved
<1>3. LocksExclude' /\ LocksAscend' /\ SnapshotValid'
    BY DEF LookupInv, LocksExclude, LocksAscend, SnapshotValid
<1> QED BY <1>1, <1>2, <1>3 DEF LookupInv

LEMMA CommitReapInv ==
    ASSUME LookupInv, CommitReap PROVE LookupInv' /\ LedgersResolve /\ ReapsSettled
<1>1. /\ reaper = "delete" /\ EndReap /\ offset' = newOffset
      /\ ids' = [k \in Key |-> IF ids[k] \in locked \ snapshot THEN 0 ELSE ids[k]]
      /\ UNCHANGED <<nextId, refs, loader, keys, known, inserted, toShare, shared>>
    BY DEF CommitReap, Deletable, ingestion
<1>2. \A k \in Key : ids'[k] = IF ids[k] \in locked \ snapshot THEN 0 ELSE ids[k]
    BY <1>1
<1>3. \A k \in Key : ids'[k] = ids[k] \/ (ids'[k] = 0 /\ ids[k] \notin shared)
    BY <1>2 DEF LookupInv, LocksExclude
<1>4. ids' \in [Key -> 0..MaxId] /\ offset' \in 0..MaxId
    BY <1>1, IdTypes DEF LookupInv, LookupTypeOK
<1>5. LookupInv'
    BY <1>1, <1>3, <1>4, EndReapInv
<1>6. LedgersResolve
    BY Zenon, <1>1 DEF LedgersResolve
<1>7. ReapsSettled
    BY <1>1, <1>2 DEF ReapsSettled, LookupInv, SnapshotValid
<1> QED BY <1>5, <1>6, <1>7

\* For any keys, ledgers and batch sizes, with the loader and the reaper
\* interleaved row by row and rolled back at any moment (loader.go, reap.go,
\* main.go of db2/history): a ledger that is committed refers to rows that exist,
\* the reaper deletes no row that a ledger committed before its DELETE began
\* refers to, and the two never wait for each other.
THEOREM ReferencesKept == LookupSpec => ReferencesResolve
<1> DEFINE Kept == LedgersResolve /\ ReapsSettled
<1>1. ASSUME LookupInv, LookupNext PROVE LookupInv' /\ Kept
    <2>1. ASSUME LookupInv', ids' = ids, refs' = refs PROVE LookupInv' /\ Kept
        BY <1>1, <2>1, IdsKept
    <2>2. ASSUME NEW ks \in SUBSET Key, Query(ks) PROVE LookupInv' /\ Kept
        BY <1>1, <2>1, <2>2, QueryInv DEF Query, table
    <2>3. CASE ShareRow
        BY <1>1, <2>1, <2>3, ShareRowInv DEF ShareRow, table
    <2>4. CASE Insert
        BY SMTT(60), <1>1, <2>1, <2>4, InsertInv DEF Insert
    <2>5. CASE RollbackLedger
        BY <1>1, <2>1, <2>5, RollbackLedgerInv DEF RollbackLedger, table
    <2>6. ASSUME NEW l \in Ledger, CommitLedger(l) PROVE LookupInv' /\ Kept
        BY <1>1, <2>6, CommitLedgerInv
    <2>7. ASSUME NEW l \in Ledger, DeleteHistory(l) PROVE LookupInv' /\ Kept
        BY Zenon, <1>1, <2>7, DeleteHistoryInv, IdsKept DEF DeleteHistory
    <2>8. CASE FindOffset \/ FindRows \/ BeginDelete \/ LockRow
        BY <1>1, <2>1, <2>8, FindOffsetInv, FindRowsInv, BeginDeleteInv, LockRowInv
            DEF FindOffset, FindRows, BeginDelete, LockRow, table
    <2>9. CASE CommitReap
        BY <1>1, <2>9, CommitReapInv
    <2>10. CASE RollbackReap
        <3>1. LookupInv'
            BY <1>1, <2>10, EndReapInv DEF RollbackReap, table, ingestion, LookupInv, LookupTypeOK
        <3> QED BY <2>1, <2>10, <3>1 DEF RollbackReap, table
    <2> QED BY <1>1, <2>2, <2>3, <2>4, <2>5, <2>6, <2>7, <2>8, <2>9, <2>10 DEF LookupNext, Steps, Reap
<1>2. ASSUME LookupInv, UNCHANGED lookupVars PROVE LookupInv'
    BY <1>2 DEF lookupVars, table, ingestion, reaping, LookupInv, LookupTypeOK, Resolved, LocksExclude, LocksAscend,
        SnapshotValid, Referenced
<1>3. LookupInv /\ [LookupNext]_lookupVars => LookupInv'
    BY <1>1, <1>2
<1>4. LookupInv /\ [LookupNext]_lookupVars =>
        [(LookupTypeOK /\ NoLockCycle)' /\ LedgersResolve /\ ReapsSettled]_lookupVars
    <2>1. ASSUME LookupInv' PROVE (LookupTypeOK /\ NoLockCycle)'
        BY <2>1, NoCycle, PTL DEF LookupInv
    <2> QED BY <1>1, <2>1
<1> QED BY <1>3, <1>4, LookupInitInv, PTL DEF LookupSpec, ReferencesResolve

-----------------------------------------------------------------------------
\* The order book.
EntryType == [value : Values \union {0}, modified : Nat, deleted : BOOLEAN]

BookTyped ==
    /\ truth \in Seq([Entries -> EntryType]) /\ rows \in [Entries -> EntryType]
    /\ lastIngested \in 1 .. Len(truth) /\ lastHistory \in 0 .. Len(truth) /\ lastLedger \in 0 .. Len(truth)
    /\ compaction \in Nat
    /\ graph = [e \in DOMAIN graph |-> graph[e]] /\ DOMAIN graph \subseteq Entries

\* An entry of ledger i.
DatedBy(entry, i) ==
    entry.deleted = FALSE /\ entry.modified <= i /\ (entry # NoEntry => entry.modified >= 1)

Dated == \A i \in 1 .. Len(truth) : \A e \in Entries : DatedBy(truth[i][e], i)

Settled ==
    \A j \in 1 .. Len(truth) : \A i \in 1 .. j : \A e \in Entries :
        truth[j][e] # NoEntry /\ truth[j][e].modified <= i => truth[i][e] = truth[j][e]

RowsMirror ==
    \A e \in Entries :
        IF truth[lastIngested][e] # NoEntry THEN rows[e] = truth[lastIngested][e]
        ELSE rows[e] = NoEntry \/ rows[e].deleted

DbInv == BookTyped /\ Dated /\ Settled /\ RowsMirror
TablesInv == DbInv /\ NothingMissing

-----------------------------------------------------------------------------
LEMMA AbsentType == NoEntry \in EntryType /\ NoEntry.modified = 0 /\ NoEntry.deleted = FALSE
BY DEF NoEntry, EntryType

LEMMA AbsentDated ==
    ASSUME NEW i \in Nat PROVE DatedBy(NoEntry, i)
BY AbsentType DEF DatedBy

LEMMA DatedLater ==
    ASSUME NEW entry \in EntryType, NEW i \in Nat, DatedBy(entry, i) PROVE DatedBy(entry, i + 1)
BY DEF DatedBy, EntryType

\* What a ledger may do to an entry.
Changes(seq, before, after) ==
    after = before \/ after = NoEntry \/ (after.modified = seq /\ DatedBy(after, seq))

LEMMA ChangeMember ==
    ASSUME NEW before, NEW seq, NEW after,
           after \in {[before EXCEPT ![e] = [value |-> v, modified |-> seq, deleted |-> FALSE]] : e \in Entries, v \in Values}
    PROVE  \E e \in Entries, v \in Values : after = [before EXCEPT ![e] = [value |-> v, modified |-> seq, deleted |-> FALSE]]
OBVIOUS

LEMMA ChangedEntries ==
    ASSUME NEW seq \in Nat \ {0}, NEW before \in [Entries -> EntryType], NEW after \in ChangedAt(seq, before)
    PROVE  after \in [Entries -> EntryType] /\ \A e \in Entries : Changes(seq, before[e], after[e])
<1>1. CASE after = before
    BY <1>1 DEF Changes
<1>2. ASSUME NEW e \in Entries, NEW v \in Values,
             after = [before EXCEPT ![e] = [value |-> v, modified |-> seq, deleted |-> FALSE]]
      PROVE  after \in [Entries -> EntryType] /\ \A x \in Entries : Changes(seq, before[x], after[x])
    <2> DEFINE entry == [value |-> v, modified |-> seq, deleted |-> FALSE]
    <2>1. entry \in EntryType /\ entry.modified = seq /\ DatedBy(entry, seq)
        BY DEF EntryType, DatedBy
    <2>2. after = [before EXCEPT ![e] = entry]
        BY <1>2
    <2> HIDE DEF entry
    <2> QED
        BY <2>1, <2>2 DEF Changes
<1>3. ASSUME NEW e \in Entries, after = [before EXCEPT ![e] = NoEntry]
      PROVE  after \in [Entries -> EntryType] /\ \A x \in Entries : Changes(seq, before[x], after[x])
    BY <1>3, AbsentType DEF Changes
<1> DEFINE Set == {[before EXCEPT ![e] = [value |-> v, modified |-> seq, deleted |-> FALSE]] : e \in Entries, v \in Values}
           Removed == {[before EXCEPT ![e] = NoEntry] : e \in Entries}
<1>4. ChangedAt(seq, before) = {before} \union Set \union Removed
    BY DEF ChangedAt
<1>5. ASSUME after \in Set
      PROVE  \E e \in Entries, v \in Values :
                after = [before EXCEPT ![e] = [value |-> v, modified |-> seq, deleted |-> FALSE]]
    BY SMT, <1>5, ChangeMember
<1>6. ASSUME after \in Removed PROVE \E e \in Entries : after = [before EXCEPT ![e] = NoEntry]
    BY Zenon, <1>6
<1> HIDE DEF Set, Removed
<1>7. after = before \/ after \in Set \/ after \in Removed
    BY <1>4
<1> QED
    BY <1>1, <1>2, <1>3, <1>5, <1>6, <1>7

LEMMA InitInv == BookInit => TablesInv
<1> SUFFICES ASSUME BookInit PROVE TablesInv
    OBVIOUS
<1>1. PICK entries \in ChangedAt(1, [e \in Entries |-> NoEntry]) : truth = <<entries>> /\ rows = entries
    BY DEF BookInit
<1>2. /\ entries \in [Entries -> EntryType]
      /\ \A e \in Entries : Changes(1, NoEntry, entries[e])
    <2> DEFINE none == [e \in Entries |-> NoEntry]
    <2>1. none \in [Entries -> EntryType] /\ \A e \in Entries : none[e] = NoEntry
        BY AbsentType
    <2>2. entries \in ChangedAt(1, none)
        OBVIOUS
    <2> HIDE DEF none
    <2> QED
        BY <2>1, <2>2, ChangedEntries
<1>3. truth \in Seq([Entries -> EntryType]) /\ Len(truth) = 1 /\ truth[1] = entries
    BY <1>1, <1>2
<1>4. BookTyped
    BY <1>1, <1>2, <1>3 DEF BookInit, BookTyped, NoGraph
<1>5. Dated
    BY <1>2, <1>3, AbsentDated DEF Dated, Changes
<1>6. Settled
    BY <1>3 DEF Settled
<1>7. RowsMirror
    BY <1>1, <1>3 DEF RowsMirror, BookInit
<1>8. NothingMissing
    BY DEF NothingMissing, BookInit
<1> QED
    BY <1>4, <1>5, <1>6, <1>7, <1>8 DEF TablesInv, DbInv

LEMMA CloseLedgerInv ==
    ASSUME TablesInv, CloseLedger PROVE TablesInv'
<1> DEFINE n == Len(truth)
<1>1. PICK entries \in ChangedAt(n + 1, truth[n]) : truth' = Append(truth, entries)
    BY DEF CloseLedger
<1>2. /\ n \in Nat \ {0} /\ n + 1 \in Nat \ {0} /\ truth[n] \in [Entries -> EntryType]
      /\ n = Len(truth)
    BY SMTT(60) DEF TablesInv, DbInv, BookTyped
<1> HIDE DEF n
<1>3. /\ entries \in [Entries -> EntryType]
      /\ \A e \in Entries : Changes(n + 1, truth[n][e], entries[e])
    BY <1>2, ChangedEntries
<1>4. /\ truth' \in Seq([Entries -> EntryType]) /\ Len(truth') = n + 1
      /\ \A i \in 1 .. n : truth'[i] = truth[i]
      /\ truth'[n + 1] = entries
    BY <1>1, <1>2, <1>3 DEF TablesInv, DbInv, BookTyped
<1>5. BookTyped'
    BY <1>2, <1>4 DEF TablesInv, DbInv, BookTyped, CloseLedger
<1>6. Dated'
    <2> SUFFICES ASSUME NEW i \in 1 .. n + 1, NEW e \in Entries PROVE DatedBy(truth'[i][e], i)
        BY <1>4 DEF Dated
    <2>1. CASE i \in 1 .. n
        BY <2>1, <1>2, <1>4 DEF TablesInv, DbInv, Dated
    <2>2. CASE i = n + 1
        <3>1. DatedBy(truth[n][e], n) /\ truth[n][e] \in EntryType
            BY <1>2 DEF TablesInv, DbInv, Dated
        <3> QED
            BY <1>2, <1>3, <1>4, <2>2, <3>1, AbsentDated, DatedLater DEF Changes
    <2> QED
        BY <1>2, <2>1, <2>2
<1>7. Settled'
    <2> SUFFICES ASSUME NEW j \in 1 .. n + 1, NEW i \in 1 .. j, NEW e \in Entries,
                        truth'[j][e] # NoEntry, truth'[j][e].modified <= i
                 PROVE  truth'[i][e] = truth'[j][e]
        BY <1>4 DEF Settled
    <2>1. CASE j \in 1 .. n
        BY SMTT(60), <2>1, <1>2, <1>4 DEF TablesInv, DbInv, Settled
    <2>2. CASE j = n + 1 /\ i # n + 1
        <3>1. entries[e] # NoEntry /\ entries[e].modified <= i /\ i \in 1 .. n
            BY <2>2, <1>2, <1>4
        <3>2. entries[e] = truth[n][e]
            BY <3>1, <1>2, <1>3 DEF Changes
        <3>3. truth[i][e] = truth[n][e]
            BY <3>1, <3>2, <1>2 DEF TablesInv, DbInv, Settled
        <3> QED
            BY <3>1, <3>2, <3>3, <2>2, <1>4
    <2> QED
        BY <1>2, <2>1, <2>2
<1>8. RowsMirror'
    BY <1>2, <1>4 DEF TablesInv, DbInv, BookTyped, RowsMirror, CloseLedger
<1>9. NothingMissing'
    BY <1>2, <1>4 DEF TablesInv, DbInv, BookTyped, NothingMissing, LiveEntries, CloseLedger
<1> QED
    BY <1>5, <1>6, <1>7, <1>8, <1>9 DEF TablesInv, DbInv

-----------------------------------------------------------------------------
\* The steps of ingestion write the entries of the ledger they move to.
LEMMA LiveRows ==
    ASSUME DbInv
    PROVE  /\ LiveEntries(rows) = LiveEntries(truth[lastIngested])
           /\ \A e \in LiveEntries(rows) : rows[e] = truth[lastIngested][e]
<1>1. lastIngested \in 1 .. Len(truth) /\ \A e \in Entries : truth[lastIngested][e].deleted = FALSE
    BY DEF DbInv, BookTyped, Dated, DatedBy
<1> QED
    BY <1>1 DEF DbInv, RowsMirror, LiveEntries

\* Table holds the entries of ledger seq, and marks of deleted ones.
Holds(stored, seq) ==
    /\ stored \in [Entries -> EntryType]
    /\ \A e \in Entries :
          IF truth[seq][e] # NoEntry THEN stored[e] = truth[seq][e] ELSE stored[e] = NoEntry \/ stored[e].deleted

LEMMA CommitHolds ==
    ASSUME BookTyped, Dated, StreamConfig, NEW seq \in 1 .. Len(truth), NEW stored, Holds(stored, seq),
           CommitRows(seq, stored)
    PROVE  /\ rows' \in [Entries -> EntryType] /\ compaction' \in Nat
           /\ \A e \in Entries :
                 IF truth[seq][e] # NoEntry THEN rows'[e] = truth[seq][e] ELSE rows'[e] = NoEntry \/ rows'[e].deleted
<1>1. \A e \in Entries : truth[seq][e].deleted = FALSE
    BY DEF Dated, DatedBy
<1>2. CASE seq > Window
    <2>1. rows' = CompactUnder(stored, seq - Window) /\ compaction' = seq - Window
        BY <1>2 DEF CommitRows
    <2> QED
        BY <1>1, <1>2, <2>1, AbsentType DEF Holds, CompactUnder, StreamConfig
<1>3. CASE ~(seq > Window)
    BY <1>3 DEF CommitRows, Holds, BookTyped
<1> QED
    BY <1>2, <1>3

Marked(entry, seq) == [value |-> entry.value, modified |-> seq, deleted |-> TRUE]

LEMMA MarkedDeleted ==
    ASSUME NEW entry \in EntryType, NEW seq \in Nat
    PROVE  /\ Marked(entry, seq) \in EntryType
           /\ Marked(entry, seq).modified = seq /\ Marked(entry, seq).deleted = TRUE
BY DEF Marked, EntryType

LEMMA IngestLedgerInv ==
    ASSUME TablesInv, StreamConfig, IngestLedger PROVE TablesInv'
<1> DEFINE seq == lastIngested + 1
<1>1. seq \in 1 .. Len(truth) /\ lastIngested' = seq
    BY DEF TablesInv, DbInv, BookTyped, IngestLedger
<1>2. Holds(RowsAfter(seq), seq)
    <2>1. \A e \in Entries : Marked(rows[e], seq) \in EntryType /\ Marked(rows[e], seq).deleted = TRUE
        <3>1. seq \in Nat
            BY <1>1
        <3>2. \A e \in Entries : rows[e] \in EntryType
            BY DEF TablesInv, DbInv, BookTyped
        <3> HIDE DEF seq
        <3> QED
            BY Zenon, <3>1, <3>2, MarkedDeleted
    <2>2. RowsAfter(seq) = [e \in Entries |-> IF truth[seq][e] # NoEntry THEN truth[seq][e]
                                             ELSE IF e \in LiveEntries(rows) THEN Marked(rows[e], seq) ELSE rows[e]]
        BY DEF RowsAfter, Marked
    <2>3. \A e \in Entries : truth[seq][e] \in EntryType /\ rows[e] \in EntryType
        BY SMTT(60), <1>1 DEF TablesInv, DbInv, BookTyped
    <2>4. \A e \in Entries : e \in LiveEntries(rows) \/ rows[e] = NoEntry \/ rows[e].deleted
        BY DEF LiveEntries
    <2> QED
        BY <2>1, <2>2, <2>3, <2>4 DEF Holds
<1>3. CommitRows(seq, RowsAfter(seq))
    BY <1>1 DEF IngestLedger
<1>4. lastHistory' \in 0 .. Len(truth)
    <2>1. lastHistory' = lastHistory \/ lastHistory' = seq
        BY <1>1 DEF TablesInv, DbInv, BookTyped, IngestLedger, Max
    <2> QED
        BY SMTT(60), <1>1, <2>1 DEF TablesInv, DbInv, BookTyped
<1> HIDE DEF seq
<1>5. /\ rows' \in [Entries -> EntryType] /\ compaction' \in Nat
      /\ \A e \in Entries :
            IF truth[seq][e] # NoEntry THEN rows'[e] = truth[seq][e] ELSE rows'[e] = NoEntry \/ rows'[e].deleted
    BY <1>1, <1>2, <1>3, CommitHolds DEF TablesInv, DbInv
<1>6. UNCHANGED <<truth, graph, lastLedger>>
    BY DEF IngestLedger
<1>7. BookTyped'
    BY SMTT(60), <1>1, <1>4, <1>5, <1>6 DEF TablesInv, DbInv, BookTyped
<1>8. Dated' /\ Settled'
    BY <1>6 DEF TablesInv, DbInv, Dated, Settled
<1>9. RowsMirror'
    BY <1>1, <1>5, <1>6 DEF RowsMirror
<1>10. NothingMissing'
    BY <1>6 DEF TablesInv, NothingMissing, LiveEntries
<1> QED
    BY <1>7, <1>8, <1>9, <1>10 DEF TablesInv, DbInv

LEMMA BuildStateInv ==
    ASSUME TablesInv, StreamConfig, BuildState PROVE TablesInv'
<1>1. PICK seq \in 1 .. lastHistory : lastIngested' = seq /\ CommitRows(seq, truth[seq])
    BY DEF BuildState
<1>2. seq \in 1 .. Len(truth)
    BY DEF TablesInv, DbInv, BookTyped
<1>3. Holds(truth[seq], seq)
    BY SMTT(60), <1>2 DEF TablesInv, DbInv, BookTyped, Holds
<1>4. /\ rows' \in [Entries -> EntryType] /\ compaction' \in Nat
      /\ \A e \in Entries :
            IF truth[seq][e] # NoEntry THEN rows'[e] = truth[seq][e] ELSE rows'[e] = NoEntry \/ rows'[e].deleted
    BY <1>1, <1>2, <1>3, CommitHolds DEF TablesInv, DbInv
<1>5. UNCHANGED <<truth, lastHistory, graph, lastLedger>>
    BY DEF BuildState
<1>6. BookTyped'
    BY SMTT(60), <1>1, <1>2, <1>4, <1>5 DEF TablesInv, DbInv, BookTyped
<1>7. Dated' /\ Settled'
    BY SMTT(60), <1>5 DEF TablesInv, DbInv, Dated, Settled
<1>8. RowsMirror'
    BY <1>1, <1>4, <1>5 DEF RowsMirror
<1>9. NothingMissing'
    BY <1>5 DEF TablesInv, NothingMissing, LiveEntries
<1> QED
    BY <1>6, <1>7, <1>8, <1>9 DEF TablesInv, DbInv

LEMMA OtherDbInv ==
    ASSUME TablesInv, MarkStateInvalid \/ TriggerStateRebuild \/ HistoryRange PROVE TablesInv'
<1>1. UNCHANGED <<truth, rows, lastIngested, compaction, graph, lastLedger>>
    BY DEF MarkStateInvalid, TriggerStateRebuild, HistoryRange
<1>2. lastHistory' \in 0 .. Len(truth)
    BY SMTT(60) DEF TablesInv, DbInv, BookTyped, MarkStateInvalid, TriggerStateRebuild, HistoryRange
<1> QED
    BY <1>1, <1>2 DEF TablesInv, DbInv, BookTyped, Dated, Settled, RowsMirror, NothingMissing, LiveEntries

-----------------------------------------------------------------------------
\* An update that need not reset leaves out no live entry.
LEMMA UpdatedGraphComplete ==
    ASSUME TablesInv, ~MustReset
    PROVE  /\ UpdatedGraph = [e \in DOMAIN UpdatedGraph |-> UpdatedGraph[e]]
           /\ DOMAIN UpdatedGraph \subseteq Entries
           /\ \A e \in LiveEntries(truth[lastIngested]) :
                 e \in DOMAIN UpdatedGraph /\ UpdatedGraph[e] = truth[lastIngested][e].value
<1> DEFINE updated == GetUpdated(lastLedger)
           kept == (DOMAIN graph \ updated) \union (updated \intersect LiveEntries(rows))
<1>1. UpdatedGraph = [e \in kept |-> IF e \in updated THEN rows[e].value ELSE graph[e]]
    BY DEF UpdatedGraph
<1>2. kept \subseteq Entries
    BY DEF TablesInv, DbInv, BookTyped, GetUpdated
<1>3. lastLedger \in 1 .. lastIngested /\ lastIngested \in 1 .. Len(truth)
    BY DEF TablesInv, DbInv, BookTyped, MustReset
<1>4. ASSUME NEW e \in LiveEntries(truth[lastIngested])
      PROVE  e \in kept /\ (IF e \in updated THEN rows[e].value ELSE graph[e]) = truth[lastIngested][e].value
    <2>1. e \in Entries /\ e \in LiveEntries(rows) /\ rows[e] = truth[lastIngested][e] /\ rows[e] # NoEntry
        BY LiveRows DEF TablesInv, LiveEntries
    <2>2. CASE e \in updated
        BY <2>1, <2>2
    <2>3. CASE e \notin updated
        <3>1. truth[lastIngested][e].modified <= lastLedger
            BY SMTT(60), <1>3, <2>1, <2>3 DEF GetUpdated, TablesInv, DbInv, BookTyped, EntryType
        <3>2. truth[lastLedger][e] = truth[lastIngested][e]
            BY <1>3, <2>1, <3>1 DEF TablesInv, DbInv, Settled
        <3>3. e \in LiveEntries(truth[lastLedger])
            BY <2>1, <3>2 DEF LiveEntries
        <3> QED
            BY <1>3, <2>3, <3>2, <3>3 DEF TablesInv, NothingMissing
    <2> QED
        BY <2>2, <2>3
<1> HIDE DEF kept, updated
<1> QED
    BY <1>1, <1>2, <1>4

LEMMA ResetInv ==
    ASSUME TablesInv, Reset, UNCHANGED bookDbVars PROVE TablesInv'
<1>1. CASE graph' = NoGraph /\ lastLedger' = 0
    BY <1>1 DEF TablesInv, DbInv, BookTyped, Dated, Settled, RowsMirror, NothingMissing, NoGraph, bookDbVars
<1>2. CASE graph' = ValuesOf(rows) /\ lastLedger' = lastIngested
    <2>1. graph' = [e \in DOMAIN graph' |-> graph'[e]] /\ DOMAIN graph' = LiveEntries(rows)
        BY <1>2 DEF ValuesOf
    <2>2. NothingMissing'
        BY <1>2, LiveRows DEF TablesInv, NothingMissing, ValuesOf, bookDbVars, LiveEntries
    <2> QED
        BY <1>2, <2>1, <2>2 DEF TablesInv, DbInv, BookTyped, Dated, Settled, RowsMirror, bookDbVars, LiveEntries
<1> QED
    BY <1>1, <1>2 DEF Reset

LEMMA FollowInv ==
    ASSUME TablesInv, ~MustReset, graph' = UpdatedGraph, lastLedger' \in {0, lastIngested}, UNCHANGED bookDbVars
    PROVE  TablesInv'
<1> DEFINE g == UpdatedGraph
<1>1. /\ g = [e \in DOMAIN g |-> g[e]] /\ DOMAIN g \subseteq Entries
      /\ \A e \in LiveEntries(truth[lastIngested]) : e \in DOMAIN g /\ g[e] = truth[lastIngested][e].value
    BY UpdatedGraphComplete
<1>2. graph' = g
    OBVIOUS
<1> HIDE DEF g
<1>3. NothingMissing'
    BY <1>1, <1>2 DEF NothingMissing, bookDbVars, LiveEntries
<1> QED
    BY <1>1, <1>2, <1>3 DEF TablesInv, DbInv, BookTyped, Dated, Settled, RowsMirror, bookDbVars

LEMMA NextInv ==
    ASSUME TablesInv, StreamConfig, [BookNext]_bookVars PROVE TablesInv'
<1>1. CASE CloseLedger
    BY <1>1, CloseLedgerInv
<1>2. CASE IngestLedger
    BY <1>2, IngestLedgerInv
<1>3. CASE MarkStateInvalid \/ TriggerStateRebuild \/ HistoryRange
    BY <1>3, OtherDbInv
<1>4. CASE BuildState
    BY <1>4, BuildStateInv
<1>5. CASE Update
    BY <1>5, ResetInv, FollowInv DEF Update
<1>6. CASE UpdateAndVerify
    BY <1>6, FollowInv DEF UpdateAndVerify, Verified
<1>7. CASE UpdateFails
    BY <1>7 DEF UpdateFails, TablesInv, DbInv, BookTyped, Dated, Settled, RowsMirror, NothingMissing, NoGraph, bookDbVars
<1>8. CASE UNCHANGED bookVars
    <2>1. UNCHANGED <<truth, rows, lastIngested, lastHistory, lastLedger, compaction, graph>>
        BY Zenon, <1>8 DEF bookVars, bookDbVars
    <2>2. BookTyped' /\ RowsMirror'
        BY <2>1 DEF TablesInv, DbInv, BookTyped, RowsMirror
    <2>3. Dated' /\ Settled'
        BY <2>1 DEF TablesInv, DbInv, Dated, Settled
    <2>4. NothingMissing'
        BY <2>1 DEF TablesInv, NothingMissing, LiveEntries
    <2> QED
        BY Zenon, <2>2, <2>3, <2>4 DEF TablesInv, DbInv
<1> QED
    BY <1>1, <1>2, <1>3, <1>4, <1>5, <1>6, <1>7, <1>8 DEF BookNext, DbStep

-----------------------------------------------------------------------------
\* Without a rebuild the order book is exact: what left the ledger after the stream's
\* ledger is still there as a deleted row.
Undisturbed ==
    /\ rebuilds = 0 /\ outdated = FALSE
    /\ lastLedger <= lastIngested
    /\ compaction = IF lastIngested > Window THEN lastIngested - Window ELSE 0

GoneSince ==
    \A e \in Entries : \A i \in 1 .. lastIngested :
        truth[lastIngested][e] = NoEntry /\ compaction <= i /\ rows[e].modified <= i => truth[i][e] = NoEntry

ExactInv == TablesInv /\ Undisturbed /\ GoneSince /\ GraphIsState

LEMMA InitExact ==
    ASSUME StreamConfig, BookInit PROVE ExactInv
<1>1. TablesInv
    BY InitInv
<1>2. Undisturbed /\ GraphIsState
    BY DEF BookInit, Undisturbed, GraphIsState, StreamConfig
<1>3. GoneSince
    BY DEF BookInit, GoneSince
<1> QED
    BY <1>1, <1>2, <1>3 DEF ExactInv

LEMMA CloseLedgerExact ==
    ASSUME ExactInv, CloseLedger PROVE ExactInv'
<1>1. TablesInv'
    BY CloseLedgerInv DEF ExactInv
<1>2. /\ UNCHANGED <<rows, lastIngested, compaction, bookInvalid, outdated, rebuilds, graph, lastLedger>>
      /\ \A i \in 1 .. Len(truth) : truth'[i] = truth[i]
    BY DEF CloseLedger, ExactInv, TablesInv, DbInv, BookTyped
<1>3. GoneSince'
    BY SMTT(60), <1>2 DEF ExactInv, TablesInv, DbInv, BookTyped, GoneSince
<1>4. GraphIsState'
    BY SMTT(60), <1>2 DEF ExactInv, TablesInv, DbInv, BookTyped, GraphIsState, ValuesOf, LiveEntries
<1> QED
    BY <1>1, <1>2, <1>3, <1>4 DEF ExactInv, Undisturbed

LEMMA IngestLedgerExact ==
    ASSUME ExactInv, StreamConfig, IngestLedger PROVE ExactInv'
<1> DEFINE seq == lastIngested + 1
           stored == RowsAfter(seq)
<1>1. TablesInv'
    BY IngestLedgerInv DEF ExactInv
<1>2. /\ lastIngested \in Nat \ {0} /\ seq \in 1 .. Len(truth) /\ lastIngested' = seq
      /\ Window \in Nat \ {0} /\ compaction \in Nat
      /\ UNCHANGED <<truth, bookInvalid, outdated, rebuilds, graph, lastLedger>>
    BY SMTT(60) DEF ExactInv, TablesInv, DbInv, BookTyped, IngestLedger, StreamConfig
<1>3. CommitRows(seq, stored)
    BY DEF IngestLedger
<1>4. /\ compaction' = (IF seq > Window THEN seq - Window ELSE 0) /\ compaction' \in Nat
      /\ compaction <= compaction' /\ compaction' < seq
    BY <1>2, <1>3 DEF CommitRows, ExactInv, Undisturbed
<1>5. \A e \in Entries :
          rows'[e] = stored[e] \/ (rows'[e] = NoEntry /\ stored[e].modified <= compaction')
    BY Zenon, <1>2, <1>3, <1>4 DEF CommitRows, CompactUnder, RowsAfter
<1>6. GoneSince'
    <2> SUFFICES ASSUME NEW e \in Entries, NEW i \in 1 .. seq,
                        truth[seq][e] = NoEntry, compaction' <= i, rows'[e].modified <= i
                 PROVE  truth[i][e] = NoEntry
        BY SMTT(60), <1>2 DEF GoneSince
    <2>1. CASE i = seq
        BY <2>1
    <2>2. CASE i # seq
        <3>1. i \in 1 .. lastIngested
            BY <1>2, <2>2
        <3>2. stored[e].modified <= i
            <4>1. stored[e].modified \in Nat
                BY SMTT(60), <1>2, MarkedDeleted, AbsentType DEF RowsAfter, Marked, ExactInv, TablesInv, DbInv, BookTyped, EntryType
            <4> QED
                BY <1>4, <1>5, <4>1, <3>1
        <3>3. e \notin LiveEntries(rows)
            <4>1. e \in LiveEntries(rows) => stored[e] = Marked(rows[e], seq)
                BY DEF RowsAfter, Marked
            <4>2. e \in LiveEntries(rows) => stored[e].modified = seq
                BY <4>1 DEF Marked
            <4>3. i \in Nat /\ seq \in Nat /\ i < seq
                BY SMTT(60), <1>2, <3>1
            <4>4. e \in LiveEntries(rows) => seq <= i
                BY <3>2, <4>2, Zenon
            <4> HIDE DEF seq, stored
            <4> QED
                BY <4>3, <4>4, SMT
        <3>4. stored[e] = rows[e]
            BY <3>3 DEF RowsAfter
        <3>5. truth[lastIngested][e] = NoEntry
            <4>1. e \notin LiveEntries(truth[lastIngested])
                BY <3>3, LiveRows DEF ExactInv, TablesInv
            <4>2. lastIngested \in 1 .. Len(truth)
                BY DEF ExactInv, TablesInv, DbInv, BookTyped
            <4>3. truth[lastIngested][e].deleted = FALSE
                BY <4>2 DEF ExactInv, TablesInv, DbInv, Dated, DatedBy
            <4> QED
                BY <4>1, <4>3 DEF LiveEntries
        <3> QED
            BY <1>2, <1>4, <3>1, <3>2, <3>4, <3>5 DEF ExactInv, GoneSince
    <2> QED
        BY <2>1, <2>2
<1>7. GraphIsState'
    BY <1>2 DEF ExactInv, GraphIsState, ValuesOf, LiveEntries
<1>8. Undisturbed'
    BY SMTT(60), <1>2, <1>4 DEF ExactInv, TablesInv, DbInv, BookTyped, Undisturbed
<1> QED
    BY <1>1, <1>6, <1>7, <1>8 DEF ExactInv

\* The incremental update gives what reading the tables anew would give.
LEMMA UpdatedGraphExact ==
    ASSUME ExactInv, ~MustReset PROVE UpdatedGraph = ValuesOf(truth[lastIngested])
<1> DEFINE g == UpdatedGraph
           updated == GetUpdated(lastLedger)
<1>1. /\ g = [e \in DOMAIN g |-> g[e]] /\ DOMAIN g \subseteq Entries
      /\ \A e \in LiveEntries(truth[lastIngested]) : e \in DOMAIN g /\ g[e] = truth[lastIngested][e].value
    BY UpdatedGraphComplete DEF ExactInv
<1>2. DOMAIN g = (DOMAIN graph \ updated) \union (updated \intersect LiveEntries(rows))
    BY DEF UpdatedGraph
<1>3. lastLedger \in 1 .. lastIngested /\ lastIngested \in 1 .. Len(truth) /\ compaction <= lastLedger
    BY DEF ExactInv, TablesInv, DbInv, BookTyped, MustReset
<1>4. ASSUME NEW e \in DOMAIN g, e \notin LiveEntries(truth[lastIngested]) PROVE FALSE
    <2>1. e \in DOMAIN graph /\ e \in Entries /\ e \notin updated
        BY <1>1, <1>2, <1>4, LiveRows DEF ExactInv, TablesInv
    <2>2. rows[e].modified <= lastLedger
        BY SMTT(60), <1>3, <2>1 DEF GetUpdated, ExactInv, TablesInv, DbInv, BookTyped, EntryType
    <2>3. truth[lastIngested][e] = NoEntry
        BY <1>3, <1>4, <2>1 DEF LiveEntries, ExactInv, TablesInv, DbInv, Dated, DatedBy
    <2>4. truth[lastLedger][e] = NoEntry
        BY <1>3, <2>1, <2>2, <2>3 DEF ExactInv, GoneSince
    <2>5. DOMAIN graph = LiveEntries(truth[lastLedger])
        BY <1>3 DEF ExactInv, GraphIsState, ValuesOf
    <2> QED
        BY <2>1, <2>4, <2>5 DEF LiveEntries
<1> HIDE DEF g
<1>5. DOMAIN g = LiveEntries(truth[lastIngested])
    BY Zenon, <1>1, <1>4
<1>6. g = ValuesOf(truth[lastIngested])
    BY <1>1, <1>5 DEF ValuesOf
<1> QED
    BY <1>6 DEF g

LEMMA UpdateExact ==
    ASSUME ExactInv, StreamConfig, Update \/ UpdateAndVerify \/ UpdateFails PROVE ExactInv'
<1>1. TablesInv'
    BY NextInv DEF ExactInv, BookNext
<1>2. UNCHANGED bookDbVars
    BY DEF Update, UpdateAndVerify, UpdateFails
<1>3. ValuesOf(rows) = ValuesOf(truth[lastIngested])
    BY LiveRows DEF ExactInv, TablesInv, ValuesOf
<1>4. lastLedger' = 0 \/ (lastLedger' = lastIngested /\ graph' = ValuesOf(truth[lastIngested]))
    BY <1>3, UpdatedGraphExact DEF Update, UpdateAndVerify, UpdateFails, Reset, Verified
<1>5. GraphIsState'
    <2>1. CASE lastLedger' = 0
        BY <2>1 DEF GraphIsState
    <2>2. CASE lastLedger' = lastIngested /\ graph' = ValuesOf(truth[lastIngested])
        <3>1. truth' = truth
            BY <1>2 DEF bookDbVars
        <3>2. graph' = ValuesOf(truth'[lastLedger'])
            BY <2>2, <3>1
        <3> QED
            BY <3>2 DEF GraphIsState
    <2> QED
        BY <1>4, <2>1, <2>2
<1>6. Undisturbed' /\ GoneSince'
    BY <1>2, <1>4 DEF bookDbVars, ExactInv, TablesInv, DbInv, BookTyped, Undisturbed, GoneSince
<1> QED
    BY <1>1, <1>5, <1>6 DEF ExactInv

LEMMA NextExact ==
    ASSUME ExactInv, StreamConfig, rebuilds' = 0, [BookNext]_bookVars PROVE ExactInv'
<1>1. CASE CloseLedger
    BY <1>1, CloseLedgerExact
<1>2. CASE IngestLedger
    BY <1>2, IngestLedgerExact
<1>3. CASE TriggerStateRebuild \/ HistoryRange \/ BuildState
    BY <1>3 DEF TriggerStateRebuild, HistoryRange, BuildState, ExactInv, Undisturbed
<1>4. CASE Update \/ UpdateAndVerify \/ UpdateFails
    BY <1>4, UpdateExact
<1>5. CASE MarkStateInvalid \/ UNCHANGED bookVars
    <2>1. TablesInv'
        BY <1>5, NextInv DEF ExactInv, BookNext, DbStep
    <2>2. UNCHANGED <<truth, rows, lastIngested, compaction, outdated, rebuilds, graph, lastLedger>>
        BY <1>5 DEF MarkStateInvalid, bookVars, bookDbVars
    <2> QED
        BY <2>1, <2>2 DEF ExactInv, Undisturbed, GoneSince, GraphIsState, ValuesOf, LiveEntries
<1> QED
    BY <1>1, <1>2, <1>3, <1>4, <1>5 DEF BookNext, DbStep

-----------------------------------------------------------------------------
\* No date is ahead of the network, and the network keeps to its bound.
Sized ==
    /\ Len(truth) <= MaxBookLedger /\ rebuilds \in Nat
    /\ compaction <= Len(truth)
    /\ \A e \in Entries : rows[e].modified <= Len(truth)

BookInv == TablesInv /\ Sized /\ (rebuilds = 0 => ExactInv)

LEMMA CommitSized ==
    ASSUME DbInv, Sized, StreamConfig, NEW seq \in 1 .. Len(truth), NEW stored \in [Entries -> EntryType],
           \A e \in Entries : stored[e].modified <= Len(truth), CommitRows(seq, stored)
    PROVE  compaction' <= Len(truth) /\ \A e \in Entries : rows'[e].modified <= Len(truth)
<1>1. CASE seq > Window
    BY SMTT(60), <1>1, AbsentType DEF CommitRows, CompactUnder, StreamConfig, DbInv, BookTyped
<1>2. CASE ~(seq > Window)
    BY <1>2 DEF CommitRows, Sized
<1> QED
    BY <1>1, <1>2

LEMMA NextSized ==
    ASSUME TablesInv, TablesInv', Sized, StreamConfig, [BookNext]_bookVars PROVE Sized'
<1>1. CASE CloseLedger
    <2>1. Len(truth') = Len(truth) + 1 /\ Len(truth) \in Nat
        BY <1>1 DEF CloseLedger, TablesInv, DbInv, BookTyped
    <2>2. UNCHANGED <<rows, compaction, rebuilds>> /\ Len(truth) < MaxBookLedger
        BY <1>1 DEF CloseLedger
    <2>3. compaction \in Nat /\ \A e \in Entries : rows[e].modified \in Nat
        BY DEF TablesInv, DbInv, BookTyped, EntryType
    <2>4. Len(truth') <= MaxBookLedger /\ compaction' <= Len(truth')
        BY <2>1, <2>2, <2>3 DEF Sized, StreamConfig
    <2>5. \A e \in Entries : rows'[e].modified <= Len(truth')
        BY <2>1, <2>2, <2>3 DEF Sized
    <2> QED
        BY <2>2, <2>4, <2>5 DEF Sized
<1>2. CASE IngestLedger
    <2> DEFINE seq == lastIngested + 1
    <2>1. /\ seq \in 1 .. Len(truth) /\ CommitRows(seq, RowsAfter(seq))
          /\ UNCHANGED <<truth, rebuilds>>
        BY <1>2 DEF IngestLedger, TablesInv, DbInv, BookTyped
    <2>2. /\ \A e \in Entries : truth[seq][e] \in EntryType /\ truth[seq][e].modified <= seq
          /\ \A e \in Entries : rows[e] \in EntryType
        BY SMTT(60), <2>1 DEF TablesInv, DbInv, BookTyped, Dated, DatedBy
    <2>3. \A e \in Entries : Marked(rows[e], seq) \in EntryType /\ Marked(rows[e], seq).modified = seq
        <3>1. seq \in Nat
            BY <2>1
        <3> HIDE DEF seq
        <3> QED
            BY Zenon, <2>2, <3>1, MarkedDeleted
    <2>4. RowsAfter(seq) = [e \in Entries |-> IF truth[seq][e] # NoEntry THEN truth[seq][e]
                                             ELSE IF e \in LiveEntries(rows) THEN Marked(rows[e], seq) ELSE rows[e]]
        BY DEF RowsAfter, Marked
    <2> HIDE DEF seq
    <2>5. /\ RowsAfter(seq) \in [Entries -> EntryType]
          /\ \A e \in Entries : RowsAfter(seq)[e].modified <= Len(truth)
        <3>1. \A e \in Entries : truth[seq][e].modified <= Len(truth)
            BY <2>1, <2>2 DEF EntryType
        <3>2. seq <= Len(truth)
            BY <2>1
        <3>3. \A e \in Entries : rows[e].modified <= Len(truth)
            BY Zenon DEF Sized
        <3>4. \A e \in Entries : Marked(rows[e], seq).modified <= Len(truth)
            BY Zenon, <2>3, <3>2
        <3>5. \A e \in Entries : RowsAfter(seq)[e] \in {truth[seq][e], Marked(rows[e], seq), rows[e]}
            BY Zenon, <2>4
        <3>6. \A e \in Entries : RowsAfter(seq)[e] \in EntryType /\ RowsAfter(seq)[e].modified <= Len(truth)
            BY Zenon, <2>2, <2>3, <3>1, <3>3, <3>4, <3>5
        <3> QED
            BY Zenon, <2>4, <3>6
    <2> QED
        BY <2>1, <2>5, CommitSized DEF Sized, TablesInv
<1>3. CASE BuildState
    <2>1. PICK seq \in 1 .. lastHistory : CommitRows(seq, truth[seq])
        BY <1>3 DEF BuildState
    <2>2. seq \in 1 .. Len(truth) /\ truth[seq] \in [Entries -> EntryType] /\ UNCHANGED <<truth, rebuilds>>
        BY SMTT(60), <1>3 DEF TablesInv, DbInv, BookTyped, BuildState
    <2>3. \A e \in Entries : truth[seq][e].modified <= Len(truth)
        BY <2>2 DEF TablesInv, DbInv, Dated, DatedBy, EntryType
    <2> QED
        BY <2>1, <2>2, <2>3, CommitSized DEF Sized, TablesInv
<1>4. CASE MarkStateInvalid \/ TriggerStateRebuild \/ HistoryRange \/ Update \/ UpdateAndVerify \/ UpdateFails
           \/ UNCHANGED bookVars
    <2>1. UNCHANGED <<truth, rows, compaction>> /\ rebuilds' \in {rebuilds, rebuilds + 1}
        BY <1>4 DEF MarkStateInvalid, TriggerStateRebuild, HistoryRange, Update, UpdateAndVerify, UpdateFails,
                    bookVars, bookDbVars
    <2> QED
        BY <2>1 DEF Sized
<1> QED
    BY <1>1, <1>2, <1>3, <1>4 DEF BookNext, DbStep

LEMMA InitBook ==
    ASSUME StreamConfig, BookInit PROVE BookInv
<1>1. TablesInv /\ ExactInv
    BY InitInv, InitExact
<1>2. Len(truth) = 1 /\ \A e \in Entries : rows[e] = truth[1][e]
    BY DEF BookInit
<1>3. \A e \in Entries : rows[e].modified <= Len(truth)
    <2>1. 1 \in 1 .. Len(truth)
        BY <1>2
    <2>2. \A e \in Entries : truth[1][e].modified <= 1
        BY Zenon, <1>1, <2>1 DEF TablesInv, DbInv, Dated, DatedBy
    <2> QED
        BY Zenon, <1>2, <2>2
<1> QED
    BY <1>1, <1>2, <1>3 DEF BookInv, Sized, BookInit, StreamConfig

LEMMA NextBook ==
    ASSUME BookInv, StreamConfig, [BookNext]_bookVars PROVE BookInv'
<1>1. TablesInv' /\ Sized'
    BY NextInv, NextSized DEF BookInv
<1>2. rebuilds' = 0 => rebuilds = 0
  <2>1. rebuilds \in Nat
    BY DEF BookInv, Sized
  <2>2. rebuilds' = rebuilds \/ rebuilds' = rebuilds + 1
    BY Zenon DEF BookNext, DbStep, CloseLedger, IngestLedger, MarkStateInvalid, TriggerStateRebuild,
           HistoryRange, BuildState, Update, UpdateAndVerify, UpdateFails, bookVars, bookDbVars
  <2> QED
    BY <2>1, <2>2, SMT
<1> QED
    BY <1>1, <1>2, NextExact DEF BookInv

LEMMA BookRight ==
    ASSUME BookInv, StreamConfig PROVE BookIsRight
<1>1. /\ Len(truth) \in Nat \ {0} /\ MaxBookLedger \in Nat /\ Len(truth) <= MaxBookLedger
      /\ compaction \in Nat /\ compaction <= Len(truth)
    BY SMTT(60) DEF BookInv, TablesInv, DbInv, BookTyped, Sized, StreamConfig
<1>2. rows \in [Entries -> [value : Values \union {0}, modified : 0 .. MaxBookLedger, deleted : BOOLEAN]]
    <2>1. \A e \in Entries : rows[e] \in EntryType /\ rows[e].modified <= Len(truth)
        BY DEF BookInv, TablesInv, DbInv, BookTyped, Sized
    <2>2. \A e \in Entries : rows[e] \in [value : Values \union {0}, modified : 0 .. MaxBookLedger, deleted : BOOLEAN]
        BY <1>1, <2>1 DEF EntryType
    <2> QED
        BY <2>2 DEF BookInv, TablesInv, DbInv, BookTyped
<1>3. BookTypeOK
    BY SMTT(60), <1>1, <1>2 DEF BookTypeOK, BookInv, TablesInv, DbInv, BookTyped
<1> QED
    BY <1>3 DEF BookIsRight, BookInv, TablesInv, ExactInv

\* Whatever rebuilds and failed queries the stream went through, the order book has
\* every live offer and pool of the ledger it claims to be at, with its current value,
\* and until the first rebuild it has no other, whatever was compacted and however far
\* behind it was (OrderBookStream.Update).
THEOREM BookCorrect == BookSpec => []BookIsRight
<1>1. BookInit => BookInv
    BY InitBook, StreamAssumption
<1>2. BookInv /\ [BookNext]_bookVars => BookInv'
    BY NextBook, StreamAssumption
<1>3. BookInv => BookIsRight
    BY BookRight, StreamAssumption
<1> QED
    BY <1>1, <1>2, <1>3, PTL DEF BookSpec
=============================================================================
