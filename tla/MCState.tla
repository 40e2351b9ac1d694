------------------------------ MODULE MCState ------------------------------
(***************************************************************************)
(* The tables that mirror the ledger and what is derived from them, for    *)
(* TLC: the change processors with the verification of their tables, the   *)
(* asset statistics and the order book.  They share no state, so a         *)
(* behaviour exercises one of them.                                        *)
(***************************************************************************)
EXTENDS StateVerifier, OrderBookStream

CONSTANTS
    account, datum, offer, line, line2, balance, pool, s1, s2,
    usd, eur, claimable, c1, b1, b2, Native, PoolShare

VARIABLES
    part,
    entries, assetLedger, assetNext, archived, assetTodo, processor, stats

\* The contents of the entries; a behaviour has entries of one kind, two trust
\* lines where it fills batches.
Kinds ==
    account :> "account" @@ datum :> "data" @@ offer :> "offer" @@ line :> "trustLine" @@ line2 :> "trustLine"
    @@ balance :> "balance" @@ pool :> "pool"
AccountOf(master, signers) == [body |-> 1, sponsor |-> None, master |-> master, signers |-> signers]
SignedBy(sponsor) == s1 :> [weight |-> 1, sponsor |-> sponsor]
EntryContents ==
    account :> {AccountOf(1, <<>>), AccountOf(0, SignedBy(None)), AccountOf(1, SignedBy(s2))}
    @@ datum :> {[body |-> 1, sponsor |-> None], [body |-> 2, sponsor |-> None]}
    @@ offer :> {[body |-> 1, sponsor |-> None], [body |-> 2, sponsor |-> None]}
    @@ line :> {[body |-> 1, sponsor |-> None], [body |-> 1, sponsor |-> s2]}
    @@ line2 :> {[body |-> 1, sponsor |-> None]}
    @@ balance :> {[body |-> 1, sponsor |-> None, claimants |-> {s1}],
                   [body |-> 1, sponsor |-> s2, claimants |-> {s1}]}
    @@ pool :> {[body |-> 1], [body |-> 2]}
EntryGroups == {{account}, {datum}, {offer}, {line, line2}, {balance}, {pool}}

\* A line, a claimable balance, a pool and the contract of one asset with two
\* holders, in pairs.
HeldForms ==
    line :> {[class |-> h, asset |-> usd, amount |-> m] : h \in {"authorized", "maintain"}, m \in {0, 1}}
    @@ claimable :> {[class |-> "claimable", asset |-> usd, amount |-> 2]}
    @@ pool :> {[assets |-> <<usd, eur>>, reserves |-> r] : r \in {<<1, 2>>, <<0, 1>>}}
Assets == c1 :> usd
Owners == b1 :> c1 @@ b2 :> c1
Pairs == {{line, claimable}, {line, pool}, {b1, b2}, {c1, b1}}

Statistics == INSTANCE AssetStats WITH
    used <- entries, ledger <- assetLedger, next <- assetNext, todo <- assetTodo, p <- processor, db <- stats,
    Holding <- {line, claimable, pool}, Forms <- HeldForms, Contract <- {c1}, AssetOf <- Assets,
    BalanceKey <- {b1, b2}, ContractOf <- Owners, Amounts <- {0, 1},
    Groups <- Pairs, MaxLedger <- 4

ASSUME StateConfig == Statistics!AssetStatsAssumption

statVars == <<entries, assetLedger, assetNext, archived, assetTodo, processor, stats>>
MCVars == <<part, vars, statVars, bookVars>>

\* The variables of the other components are not used, or stay as they begin.
NoTables ==
    /\ used = None /\ ledger = None /\ next = None /\ checkpoint = None /\ archive = None
    /\ sequence = None /\ db = None /\ tx = None /\ source = None /\ todo = None /\ pending = None
    /\ diverged = None /\ calls = None /\ v = None /\ verdict = None /\ stateInvalid = None
NoStats ==
    /\ entries = None /\ assetLedger = None /\ assetNext = None /\ archived = None /\ assetTodo = None
    /\ processor = None /\ stats = None

MCInit ==
    /\ part \in {"tables", "stats", "book"}
    /\ IF part = "tables" THEN Init ELSE NoTables
    /\ IF part = "stats" THEN Statistics!Init ELSE NoStats
    /\ BookInit /\ (part # "book" => truth[1] = [e \in Entries |-> NoEntry])

MCNext ==
    /\ UNCHANGED part
    /\ \/ part = "tables" /\ Next /\ UNCHANGED <<statVars, bookVars>>
       \/ part = "stats" /\ Statistics!Next /\ UNCHANGED <<vars, bookVars>>
       \/ part = "book" /\ BookNext /\ UNCHANGED <<vars, statVars>>

MCSpec == MCInit /\ [][MCNext]_MCVars

-----------------------------------------------------------------------------
\* The tables hold exactly the entries of the last ledger (MirrorsLedger).
TablesMirror == part = "tables" => MirrorsLedger

\* Verification says of its snapshot what is true (VerdictIsRight).
VerifiesTruly == part = "tables" => VerdictIsRight

\* The statistics of an asset are what a fresh count over the ledger's entries
\* gives, entries that expire and are restored included; verification, which counts
\* differently, agrees; and ingestion fails only on an entry that is restored in the
\* ledger after it expired (StatsAreTrue, StatsVerify, FailsOnEarlyRestore).
StatsAddUp ==
    part = "stats" => Statistics!StatsAreTrue /\ Statistics!StatsVerify /\ Statistics!FailsOnEarlyRestore
=============================================================================
