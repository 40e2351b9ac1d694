----------------------------- MODULE AssetStats -----------------------------
(***************************************************************************)
(* AssetStatsProcessor: per-asset statistics over trust lines, claimable   *)
(* balances and liquidity pools (AssetStatSet), and over the balances that *)
(* contracts hold (ContractAssetStatSet), kept as sums that every ledger   *)
(* adjusts by differences while contract balances expire on their own.     *)
(***************************************************************************)
EXTENDS Integers, FiniteSets, FiniteSetsExt, Functions, TLC

CONSTANTS
    Holding,        \* keys of trust lines, claimable balances and pools
    Forms,          \* Forms[k]: the contents entry k may have
    Native, PoolShare,
    Contract,       \* asset contracts; each is also the key of its metadata entry
    AssetOf,        \* the asset of a contract
    BalanceKey, ContractOf,     \* contract balance entries and their contracts
    Amounts,        \* what a contract balance may hold
    None,
    Groups,         \* bound: the sets of entries of which one exists in a behaviour
    MaxLedger       \* bound

VARIABLES
    used,       \* the entries there are
    ledger,     \* [seq, classic, data]: the last ledger ingested
    next,       \* the ledger that is being ingested, or None
    archived,   \* whether it is read from a history archive
    todo,       \* changes the processor has not seen
    p,          \* the processor: its delta sets and TTL changes
    db          \* the tables, with err

vars == <<used, ledger, next, archived, todo, p, db>>

DataKey == Contract \cup BalanceKey
Class == {"authorized", "maintain", "unauthorized", "claimable", "pools"}
Zero == [c \in Class |-> 0]
Plus(a, b) == [c \in Class |-> a[c] + b[c]]
Empty == [k \in {} |-> None]
Without(f, K) == Restrict(f, DOMAIN f \ K)

AssetStatsAssumption ==
    /\ ContractOf \in [BalanceKey -> Contract]
    /\ Amounts \subseteq Nat /\ MaxLedger \in Nat

-----------------------------------------------------------------------------
(***************************************************************************)
(* AssetStatSet.                                                           *)
(***************************************************************************)
Stat(set, asset) == IF asset \in DOMAIN set THEN set[asset] ELSE [accounts |-> Zero, balances |-> Zero]

addDelta(set, asset, balances, accounts) ==
    LET current == Stat(set, asset)
        sum == [accounts |-> Plus(current.accounts, accounts),
                balances |-> Plus(current.balances, balances)]
    IN  IF sum.accounts = Zero /\ sum.balances = Zero THEN Without(set, {asset})
        ELSE (asset :> sum) @@ set

addByFlags(class, amount) == [c \in Class |-> IF c = class THEN amount ELSE 0]

\* What a holding [class, amount] adds (sign 1) or takes away (sign -1).
Amount(h, sign) == IF h = None THEN Zero ELSE addByFlags(h.class, sign * h.amount)
Account(h, sign) == IF h = None THEN Zero ELSE addByFlags(h.class, sign)

addChange(set, asset, pre, post) ==
    addDelta(set, asset, Plus(Amount(pre, -1), Amount(post, 1)), Plus(Account(pre, -1), Account(post, 1)))

Either(c) == IF c.post = None THEN c.pre ELSE c.post

\* Mutant: the flags of the line as it is now.
AddTrustlinePost(set, c) ==
    IF Either(c).asset \in {Native, PoolShare} THEN set
    ELSE addChange(set, Either(c).asset,
                   IF c.pre = None THEN None ELSE [c.pre EXCEPT !.class = Either(c).class], c.post)

AddTrustline(set, c) ==
    IF Either(c).asset \in {Native, PoolShare} THEN set ELSE addChange(set, Either(c).asset, c.pre, c.post)

AddClaimableBalance(set, c) ==
    IF Either(c).asset = Native THEN set ELSE addChange(set, Either(c).asset, c.pre, c.post)

AddLiquidityPool(set, c) ==
    LET Reserve(e, i) == IF e = None THEN None ELSE [class |-> "pools", amount |-> e.reserves[i]]
        Side(s, i) ==
            IF Either(c).assets[i] = Native THEN s
            ELSE addChange(s, Either(c).assets[i], Reserve(c.pre, i), Reserve(c.post, i))
    IN  Side(Side(set, 1), 2)

-----------------------------------------------------------------------------
(***************************************************************************)
(* ContractAssetStatSet.  A balance that was restored is a creation.       *)
(***************************************************************************)
getContractAssetStat(stats, id) == IF id \in DOMAIN stats THEN stats[id] ELSE [holders |-> 0, balance |-> 0]

maybeAddContractAssetStat(stats, id, holders, balance) ==
    LET current == getContractAssetStat(stats, id)
        sum == [holders |-> current.holders + holders, balance |-> current.balance + balance]
    IN  IF sum.holders = 0 /\ sum.balance = 0 THEN Without(stats, {id}) ELSE (id :> sum) @@ stats

\* Keys of the TTLs ttls that are alive in the current ledger.
Alive(ttls, seq) == {k \in DOMAIN ttls : ttls[k] >= seq}

ingestAssetContractMetadata(s, c, created, seq) ==
    IF c.key \in Alive(created, seq) THEN [s EXCEPT !.contracts = (c.key :> created[c.key]) @@ @] ELSE s

CreatedBalance(s, c, created, seq) ==
    IF c.key \notin Alive(created, seq) THEN s
    ELSE [s EXCEPT !.created = (c.key :> [contract |-> ContractOf[c.key], amount |-> c.post,
                                          expiration |-> created[c.key]]) @@ @,
                   !.stats = maybeAddContractAssetStat(@, ContractOf[c.key], 1, c.post)]

\* Mutant: a balance that is removed keeps its row.
RemovedBalanceKept(s, c, removed, seq) ==
    [s EXCEPT !.stats = IF c.key \in Alive(removed, seq)
                        THEN maybeAddContractAssetStat(@, ContractOf[c.key], -1, -c.pre) ELSE @]

RemovedBalance(s, c, removed, seq) ==
    [s EXCEPT !.removed = @ \cup {c.key},
              !.stats = IF c.key \in Alive(removed, seq)
                        THEN maybeAddContractAssetStat(@, ContractOf[c.key], -1, -c.pre) ELSE @]

UpdatedBalance(s, c) ==
    IF c.post = c.pre THEN s
    ELSE [s EXCEPT !.updated = (c.key :> c.post) @@ @,
                   !.stats = maybeAddContractAssetStat(@, ContractOf[c.key], 0, c.post - c.pre)]

AddContractData(s, c, ttls, seq) ==
    IF c.key \in Contract
    THEN IF c.pre = None THEN ingestAssetContractMetadata(s, c, ttls.created, seq) ELSE s
    ELSE IF c.pre = None THEN CreatedBalance(s, c, ttls.created, seq)
    ELSE IF c.post = None THEN RemovedBalance(s, c, ttls.removed, seq)
    ELSE UpdatedBalance(s, c)

NoContractStats == [contracts |-> Empty, stats |-> Empty, created |-> Empty, removed |-> {}, updated |-> Empty]

ContractStatSet(changes, ttls, seq) ==
    FoldSet(LAMBDA c, s : AddContractData(s, c, ttls, seq), NoContractStats, changes)

-----------------------------------------------------------------------------
(***************************************************************************)
(* The tables.                                                             *)
(***************************************************************************)
\* The first error stays; the rest of the run is rolled back.
Fail(t, failed, error) == IF failed /\ t.err = None THEN [t EXCEPT !.err = error] ELSE t

\* Primary and unique keys: a duplicate is an error of the database.
InsertInto(t, table, rows) ==
    Fail([t EXCEPT ![table] = rows @@ @], DOMAIN rows \cap DOMAIN t[table] # {}, "duplicate")

InsertAssetStats(t, rows) == InsertInto(t, "assets", rows)
InsertContractAssetStats(t, rows) == InsertInto(t, "contractStats", rows)
InsertContractAssetBalances(t, rows) == InsertInto(t, "balances", rows)
InsertAssetContracts(t, rows) == InsertInto(t, "contracts", rows)
RemoveContractAssetBalances(t, keys) == [t EXCEPT !.balances = Without(@, keys)]
UpdateContractAssetBalanceAmounts(t, amounts) ==
    [t EXCEPT !.balances = [k \in DOMAIN @ |-> IF k \in DOMAIN amounts
                                               THEN [@[k] EXCEPT !.amount = amounts[k]] ELSE @[k]]]
UpdateContractAssetBalanceExpirations(t, ttls) ==
    [t EXCEPT !.balances = [k \in DOMAIN @ |-> IF k \in DOMAIN ttls
                                               THEN [@[k] EXCEPT !.expiration = ttls[k]] ELSE @[k]]]
UpdateAssetContractExpirations(t, ttls) ==
    [t EXCEPT !.contracts = [k \in DOMAIN @ |-> IF k \in DOMAIN ttls THEN ttls[k] ELSE @[k]]]
ExpiringAt(t, seq) == {k \in DOMAIN t.balances : t.balances[k].expiration = seq}
DeleteContractAssetBalancesExpiringAt(t, seq) == [t EXCEPT !.balances = Without(@, ExpiringAt(t, seq))]
DeleteAssetContractsExpiringAt(t, seq) ==
    [t EXCEPT !.contracts = Without(@, {c \in DOMAIN @ : @[c] = seq})]

Negative(counters) == \E c \in Class : counters[c] < 0

updateAssetStats(t, deltas) ==
    LET Sum(a) == [accounts |-> Plus(t.assets[a].accounts, deltas[a].accounts),
                   balances |-> Plus(t.assets[a].balances, deltas[a].balances)]
        known == DOMAIN deltas \cap DOMAIN t.assets
        gone == {a \in known : Sum(a).accounts = Zero}
        bad == \/ \E a \in DOMAIN deltas \ known : Negative(deltas[a].accounts)
               \/ \E a \in gone : Sum(a).balances # Zero
    IN  Fail([t EXCEPT !.assets = Without([a \in known |-> Sum(a)] @@ deltas @@ @, gone)], bad, "state")

updateContractAssetStats(t, deltas) ==
    LET Sum(i) == [holders |-> t.contractStats[i].holders + deltas[i].holders,
                   balance |-> t.contractStats[i].balance + deltas[i].balance]
        known == DOMAIN deltas \cap DOMAIN t.contractStats
        gone == {i \in known : Sum(i) = [holders |-> 0, balance |-> 0]}
    IN  [t EXCEPT !.contractStats = Without([i \in known |-> Sum(i)] @@ deltas @@ @, gone)]

updateContractDataExpirations(t, ttls) ==
    UpdateAssetContractExpirations(UpdateContractAssetBalanceExpirations(t, ttls), ttls)

\* The balances in rows expired with the ledger before.
ingestExpiredBalances(stats, rows, extended) ==
    FoldSet(LAMBDA k, s : maybeAddContractAssetStat(s, rows[k].contract, -1, -rows[k].amount),
            stats, DOMAIN rows \ DOMAIN extended)

\* Mutant: balances are deleted with the last ledger they live in.
updateDBEarly(t, deltas, s, ttls, seq) ==
    LET assets == InsertAssetContracts(updateAssetStats(t, deltas), s.contracts)
        amounts == UpdateContractAssetBalanceAmounts(RemoveContractAssetBalances(assets, s.removed), s.updated)
        extended == updateContractDataExpirations(InsertContractAssetBalances(amounts, s.created), ttls.updated)
        expired == Restrict(extended.balances, ExpiringAt(extended, seq))
        deleted == DeleteContractAssetBalancesExpiringAt(extended, seq)
    IN  updateContractAssetStats(DeleteAssetContractsExpiringAt(deleted, seq),
                                 ingestExpiredBalances(s.stats, expired, ttls.updated))

updateDB(t, deltas, s, ttls, seq) ==
    LET assets == InsertAssetContracts(updateAssetStats(t, deltas), s.contracts)
        amounts == UpdateContractAssetBalanceAmounts(RemoveContractAssetBalances(assets, s.removed), s.updated)
        extended == updateContractDataExpirations(InsertContractAssetBalances(amounts, s.created), ttls.updated)
        expired == Restrict(extended.balances, ExpiringAt(extended, seq - 1))
        deleted == DeleteContractAssetBalancesExpiringAt(extended, seq - 1)
    IN  updateContractAssetStats(DeleteAssetContractsExpiringAt(deleted, seq - 1),
                                 ingestExpiredBalances(s.stats, expired, ttls.updated))

\* updateDB of an archive: there is nothing but created entries.
InsertAll(t, deltas, s) ==
    InsertAssetContracts(
        InsertContractAssetBalances(
            InsertContractAssetStats(InsertAssetStats(t, deltas), s.stats), s.created), s.contracts)

NoTables == [assets |-> Empty, contractStats |-> Empty, balances |-> Empty, contracts |-> Empty, err |-> None]

-----------------------------------------------------------------------------
(***************************************************************************)
(* The processor and the ledgers it is fed.  A change is [key, pre, post]; *)
(* that of a data entry comes with one of its TTL.                         *)
(***************************************************************************)
NoChanges == [classic |-> {}, data |-> {}, ttl |-> {}]

NoProcessor == [assets |-> Empty, changes |-> {}, created |-> Empty, removed |-> Empty, updated |-> Empty,
                err |-> None]

\* The TTL changes are compacted: a key that comes twice is an error.
addExpirationChange(q, c) ==
    LET seen == DOMAIN q.created \cup DOMAIN q.removed \cup DOMAIN q.updated
    IN  IF c.key \in seen THEN [q EXCEPT !.err = "not compacted"]
        ELSE IF c.pre = None THEN [q EXCEPT !.created = (c.key :> c.post) @@ @]
        ELSE IF c.post = None THEN [q EXCEPT !.removed = (c.key :> c.pre) @@ @]
        ELSE IF c.pre = c.post THEN q
        ELSE IF c.post < next.seq THEN [q EXCEPT !.err = "post TTL"]
        ELSE IF c.pre < next.seq THEN q
        ELSE [q EXCEPT !.updated = (c.key :> c.post) @@ @]

Kind(c) == IF "assets" \in DOMAIN Either(c) THEN "pool"
           ELSE IF Either(c).class = "claimable" THEN "claimable" ELSE "line"

AddClassic(set, c) ==
    CASE Kind(c) = "pool" -> AddLiquidityPool(set, c)
      [] Kind(c) = "claimable" -> AddClaimableBalance(set, c)
      [] Kind(c) = "line" -> AddTrustline(set, c)

ProcessChange ==
    /\ next # None /\ p.err = None
    /\ \E type \in DOMAIN todo : \E c \in todo[type] :
        /\ todo' = [todo EXCEPT ![type] = @ \ {c}]
        /\ \/ type = "data" /\ p' = [p EXCEPT !.changes = @ \cup {c}]
           \/ type = "ttl" /\ p' = addExpirationChange(p, c)
           \/ type = "classic" /\ p' = [p EXCEPT !.assets = AddClassic(@, c)]
    /\ UNCHANGED <<used, ledger, next, archived, db>>

\* An error rolls the transaction back; the ledger is tried again and fails again.
Commit ==
    LET s == ContractStatSet(p.changes, p, next.seq) IN
    /\ next # None /\ todo = NoChanges /\ p.err = None /\ db.err = None
    /\ LET t == IF archived THEN InsertAll(NoTables, p.assets, s) ELSE updateDB(db, p.assets, s, p, next.seq)
       IN  IF t.err = None THEN db' = t /\ ledger' = next /\ next' = None
           ELSE db' = [db EXCEPT !.err = t.err] /\ UNCHANGED <<ledger, next>>
    /\ p' = NoProcessor
    /\ UNCHANGED <<used, archived, todo>>

\* A change that a key went through, as the compacting reader returns it: an entry
\* restored from the archive is created.  No change is returned for an archived entry
\* that is evicted, or restored and removed at once (SuppressRemoveAfterRestoreChange).
Before(k, from, to) ==
    LET pre == from.data[k]
    IN  IF pre # None /\ to.data[k] # None /\ pre.ttl < to.seq THEN None ELSE pre

DataChange(k, from, to, field) ==
    LET Value(e) == IF e = None THEN None ELSE e[field]
    IN  [key |-> k, pre |-> Value(Before(k, from, to)), post |-> Value(to.data[k])]

Changes(from, to) ==
    LET Silent(k) == to.data[k] = None /\ from.data[k].ttl < to.seq
        changed == {k \in DataKey : from.data[k] # to.data[k] /\ ~Silent(k)}
    IN  [classic |-> {[key |-> k, pre |-> from.classic[k], post |-> to.classic[k]] :
                          k \in {x \in Holding : from.classic[x] # to.classic[x]}},
         data |-> {DataChange(k, from, to, "amount") : k \in changed},
         ttl |-> {DataChange(k, from, to, "ttl") : k \in changed}]

\* What may become of a data entry in ledger seq: it is written, removed, or, when it
\* is archived, restored or evicted.  A live asset contract is not removed.
DataSuccessors(k, seq) ==
    LET e == ledger.data[k]
        live == [amount : IF k \in Contract THEN {0} ELSE Amounts, ttl : seq..MaxLedger + 1]
    IN  IF e = None THEN live
        ELSE IF e.ttl >= seq /\ k \in Contract THEN live
        ELSE live \cup {None}

Successors(k, seq) ==
    IF k \in Holding THEN {ledger.classic[k], None} \cup Forms[k]
    ELSE {ledger.data[k]} \cup DataSuccessors(k, seq)

Following(seq) ==
    {[seq |-> seq, classic |-> Restrict(f @@ ledger.classic, Holding), data |-> Restrict(f @@ ledger.data, DataKey)] :
        f \in {g \in [used -> UNION {Successors(k, seq) : k \in used}] :
                  \A k \in used : g[k] \in Successors(k, seq)}}

BeginLedger ==
    /\ next = None /\ ledger.seq < MaxLedger
    /\ next' \in Following(ledger.seq + 1)
    /\ archived' = FALSE
    /\ todo' = Changes(ledger, next')
    /\ UNCHANGED <<used, ledger, p, db>>

\* The state is rebuilt from the archive: the tables are truncated.
BeginArchive ==
    /\ next = None /\ ledger.seq > 0
    /\ next' = ledger
    /\ archived' = TRUE
    /\ todo' = Changes([seq |-> 0, classic |-> [k \in Holding |-> None], data |-> [k \in DataKey |-> None]], ledger)
    /\ UNCHANGED <<used, ledger, p, db>>

Init ==
    /\ used \in Groups
    /\ ledger = [seq |-> 0, classic |-> [k \in Holding |-> None], data |-> [k \in DataKey |-> None]]
    /\ next = None /\ archived = FALSE /\ todo = NoChanges
    /\ p = NoProcessor /\ db = NoTables

Next == BeginLedger \/ BeginArchive \/ ProcessChange \/ Commit

Spec == Init /\ [][Next]_vars

-----------------------------------------------------------------------------
(***************************************************************************)
(* Verification of the statistics against a checkpoint: the sets are built *)
(* from the entries, each of them created.                                 *)
(***************************************************************************)
Creation(k, e) == [key |-> k, pre |-> None, post |-> e]

ExpectedAssets ==
    FoldSet(LAMBDA c, s : AddClassic(s, c),
            Empty, {Creation(k, ledger.classic[k]) : k \in {x \in Holding : ledger.classic[x] # None}})

DataEntries == {k \in DataKey : ledger.data[k] # None}

ExpectedContracts ==
    ContractStatSet({Creation(k, ledger.data[k].amount) : k \in DataEntries},
                    [created |-> [k \in DataEntries |-> ledger.data[k].ttl], removed |-> Empty], ledger.seq)

\* The row an asset has in the API: its statistics and those of its contract.
ContractStatOf(asset, contracts, stats) ==
    LET ids == {c \in DOMAIN contracts : AssetOf[c] = asset}
    IN  <<ids, [c \in ids |-> getContractAssetStat(stats, c)]>>

extractAssetStats(assets, contracts, stats) ==
    [a \in DOMAIN assets \cup {AssetOf[c] : c \in DOMAIN contracts} |->
        <<Stat(assets, a), ContractStatOf(a, contracts, stats)>>]

\* Only the balances that the table has are compared.
checkContractBalances(expected) ==
    \A k \in DOMAIN db.balances \cap DOMAIN expected : db.balances[k] = expected[k]

checkAssetStats ==
    /\ extractAssetStats(db.assets, db.contracts, db.contractStats)
            = extractAssetStats(ExpectedAssets, ExpectedContracts.contracts, ExpectedContracts.stats)
    /\ checkContractBalances(Restrict(ExpectedContracts.created,
            {k \in DOMAIN ExpectedContracts.created : ContractOf[k] \in DOMAIN ExpectedContracts.stats}))

-----------------------------------------------------------------------------
(***************************************************************************)
(* Properties.                                                             *)
(***************************************************************************)
LiveAt(k) == ledger.data[k] # None /\ ledger.data[k].ttl >= ledger.seq

\* What the entries of the last ledger hold of an asset, as <<class, amount>> per holder.
HeldOf(asset) ==
    {<<k, ledger.classic[k].class, ledger.classic[k].amount>> :
        k \in {x \in Holding : /\ ledger.classic[x] # None /\ "asset" \in DOMAIN ledger.classic[x]
                               /\ ledger.classic[x].asset = asset}}
    \cup {<<k, "pools", ledger.classic[k].reserves[i]>> :
        <<k, i>> \in {x \in Holding \X {1, 2} : /\ ledger.classic[x[1]] # None
                                               /\ "assets" \in DOMAIN ledger.classic[x[1]]
                                               /\ ledger.classic[x[1]].assets[x[2]] = asset}}

\* However the changes are ordered and batched, whether the state was followed or
\* rebuilt, the statistics are the sums over what the last ledger holds, expired
\* contract balances excluded.
StatsAreTrue ==
    /\ \A a \in DOMAIN db.assets : HeldOf(a) # {}
    /\ \A k \in Holding : ledger.classic[k] # None =>
        \A a \in (IF "asset" \in DOMAIN ledger.classic[k] THEN {ledger.classic[k].asset}
                  ELSE Range(ledger.classic[k].assets)) \ {Native, PoolShare} :
            a \in DOMAIN db.assets /\ \A c \in Class :
                LET held == {h \in HeldOf(a) : h[2] = c}
                IN  /\ db.assets[a].accounts[c] = Cardinality(held)
                    /\ db.assets[a].balances[c] = MapThenSumSet(LAMBDA h : h[3], held)
    /\ db.balances = [k \in {x \in BalanceKey : LiveAt(x)} |->
            [contract |-> ContractOf[k], amount |-> ledger.data[k].amount, expiration |-> ledger.data[k].ttl]]
    /\ db.contracts = [c \in {x \in Contract : LiveAt(x)} |-> ledger.data[c].ttl]
    /\ \A c \in Contract :
        LET held == {k \in BalanceKey : LiveAt(k) /\ ContractOf[k] = c}
            stat == getContractAssetStat(db.contractStats, c)
        IN  /\ stat.holders = Cardinality(held)
            /\ stat.balance = MapThenSumSet(LAMBDA k : ledger.data[k].amount, held)
            /\ held = {} => c \notin DOMAIN db.contractStats

\* Verification never marks the statistics invalid.
StatsVerify == checkAssetStats

\* A ledger cannot be ingested for one reason only: it restores an entry in the ledger
\* right after the last one it lived in.  The new row is inserted (asset_stats_processor.go:235,
\* :247) before the one that expired is deleted (:255, :259), and the unique key refuses it.
FailsOnEarlyRestore ==
    /\ p.err = None
    /\ db.err # None =>
        /\ db.err = "duplicate"
        /\ \E k \in DataKey : /\ ledger.data[k] # None /\ next.data[k] # None
                              /\ ledger.data[k].ttl = next.seq - 1
=============================================================================
