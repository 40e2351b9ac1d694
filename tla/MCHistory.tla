----------------------------- MODULE MCHistory -----------------------------
(***************************************************************************)
(* The components that write and maintain the history tables, for TLC: the *)
(* processors of transactions with their filters, the effects and trades   *)
(* of operations, parallel reingestion and the two reapers.  They share no *)
(* state, so a behaviour exercises one of them; the other maintenance jobs *)
(* stay where they start.                                                  *)
(***************************************************************************)
EXTENDS HistoryProcessors, ParallelReingest, HistoryReaper, LookupTables, TLC

CONSTANTS
    Parts,      \* the components a behaviour may exercise
    c1, c2, n1, n2,
    alice, bob, carol, issuer, token, signKey, xlm, usd, eur, lp, balanceId, id1, id2

VARIABLES
    part,
    pair, net, ingested, tradeRows, buckets, client,
    group, core, told, count

\* Jobs have three ledgers: 2..11 is cut into three jobs and a dropped ledger
\* 11, 13..17 into a full and a short job, and 19..19 is dropped.
ThreeRanges == <<[from |-> 2, to |-> 11], [from |-> 13, to |-> 17], [from |-> 19, to |-> 19]>>

\* Two calls in two processes; nothing yet, a full history, a history with gaps.
Processes == c1 :> n1 @@ c2 :> n2
Histories == {{}, 1..5, {1, 2, 5, 6}}

\* Offers that cross in both directions, with rounding, a claim of nothing, pools
\* with and without slippage, and an operation that fails.
Amount(asset, m) == [asset |-> asset, amount |-> m]
OfferClaim(sold, bought, price) ==
    [pool |-> FALSE, seller |-> alice, offer |-> 7, sold |-> sold, bought |-> bought, price |-> price, slippage |-> None]
PoolClaim(sold, bought, slippage) ==
    [pool |-> TRUE, seller |-> alice, offer |-> None, sold |-> sold, bought |-> bought, price |-> None,
     slippage |-> slippage]
Trading(type, ok, atoms) == [type |-> type, ok |-> ok, buyer |-> bob, offer |-> None, atoms |-> atoms]
Sells == Trading("send", TRUE,
    <<OfferClaim(Amount(usd, 2), Amount(eur, 1), <<1, 2>>), OfferClaim(Amount(eur, 0), Amount(usd, 0), <<1, 1>>),
      OfferClaim(Amount(usd, 1), Amount(eur, 3), <<3, 1>>)>>)
Buys == Trading("offer", TRUE, <<OfferClaim(Amount(eur, 2), Amount(usd, 3), <<3, 2>>)>>)
Swaps == Trading("receive", TRUE,
    <<PoolClaim(Amount(eur, 3), Amount(usd, 1), 5), PoolClaim(Amount(usd, 4), Amount(eur, 1), 50),
      PoolClaim(Amount(usd, 1), Amount(eur, 1), None)>>)
Fails == Trading("send", FALSE, <<OfferClaim(Amount(usd, 2), Amount(eur, 1), <<1, 2>>)>>)
Asks(base, counter, resolution, shift, since, until, order) ==
    [base |-> base, counter |-> counter, resolution |-> resolution, offset |-> shift,
     start |-> since, end |-> until, order |-> order, limit |-> 1]

\* Every mix of trades with a few queries, and one kind of trade with clients that
\* follow the links, among them ones with resolutions and offsets that are refused.
TradeGroups ==
    <<[ops |-> {Sells, Buys, Swaps, Fails}, requests |-> {},
       queries |-> {Asks(usd, eur, 1, 0, 0, 0, "desc"), Asks(eur, usd, 2, 0, 0, 0, "desc"), Asks(eur, usd, 4, 2, 0, 0, "desc")}],
      [ops |-> {Sells}, queries |-> {},
       requests |-> {Asks(usd, eur, r, 0, f, t, "asc") : r \in {1, 2}, f \in {0, 9}, t \in {10, 12}}
            \cup {Asks(eur, usd, r, o, f, t, "desc") : r \in {2, 4, 3}, o \in {0, 1}, f \in {0, 9}, t \in {0, 11}}]>>

AssetIds == usd :> 1 @@ eur :> 2
Resolutions == {1, 2, 4}

\* A minute is the finest resolution; an hour has two of them and a day eight.
Aggregating == INSTANCE Trades WITH
    group <- pair, trades <- tradeRows, Asset <- {usd, eur}, AssetId <- AssetIds, Groups <- TradeGroups,
    AllowedResolutions <- Resolutions, Hour <- 2, Day <- 8, SlippageFilter <- 10, MaxSlippage <- 100,
    MaxLedger <- 3, MinMinute <- 8, MaxMinute <- 11

\* The filters: a payment, a failed fee bump, a sponsored trust line to a pool and a contract
\* call, with a filter of either kind that an administrator turns on and off.
FilteredOp(type, to, assets) ==
    [type |-> type, source |-> None, to |-> to, assets |-> assets, sac |-> {},
     keys |-> {}, sponsor |-> None, pools |-> {}, balances |-> {}]
FilteredTx(ok, source, feeSource, ops) ==
    [ok |-> ok, source |-> source, feeSource |-> feeSource, ops |-> ops,
     fee |-> {IF feeSource = None THEN source ELSE feeSource}]
Pay == FilteredTx(TRUE, alice, None, <<FilteredOp("payment", {bob}, {usd})>>)
Failed == FilteredTx(FALSE, bob, alice, <<FilteredOp("create_balance", {carol}, {usd})>>)
Sandwich == FilteredTx(TRUE, bob, None,
    <<FilteredOp("begin", {carol}, {}),
      [FilteredOp("change_trust", {}, {eur}) EXCEPT !.source = carol, !.sponsor = bob, !.pools = {lp}],
      [FilteredOp("end", {}, {}) EXCEPT !.source = carol]>>)
Invoke == FilteredTx(TRUE, carol, None,
    <<[FilteredOp("invoke", {}, {}) EXCEPT !.sac = {alice, bob}, !.keys = {bob}, !.balances = {balanceId}]>>)

TwoLedgers == 2 :> <<Pay, Failed>> @@ 3 :> <<Sandwich, Invoke>>
Lists == [asset |-> {{usd}}, account |-> {{carol}}]

Issuers == usd :> issuer @@ eur :> issuer
Operations == INSTANCE MCEffects WITH
    Native <- xlm, Issuer <- Issuers, Pool <- lp :> <<xlm, usd>>, Contract <- {token}
Telling == INSTANCE Effects WITH
    Native <- xlm, Issuer <- Issuers, Pool <- lp :> <<xlm, usd>>, Contract <- {token},
    Groups <- Operations!EffectGroups, MaxOps <- 5

ASSUME HistoryConfig == Aggregating!TradesAssumption

tradeVars == <<pair, net, ingested, tradeRows, buckets, client>>
effectVars == <<group, core, told, count>>
MCVars == <<part, parallelVars, reaperVars, lookupVars, tradeVars, vars, effectVars>>

\* The variables of the other components are not used.
NoTrade ==
    /\ pair = None /\ net = None /\ ingested = None /\ tradeRows = None /\ buckets = None
    /\ client = None
NoFilter ==
    /\ now = None /\ stored = None /\ cached = None /\ run = None /\ db = None /\ lastGC = None
    /\ asked = None
NoEffect ==
    /\ group = None /\ core = None /\ told = None /\ count = None

MCInit ==
    /\ part \in Parts
    /\ ParallelInit /\ ReaperInit /\ LookupInit
    /\ part # "reaper" => rows = [t \in Table |-> {}]
    /\ IF part = "trades" THEN Aggregating!Init ELSE NoTrade
    /\ IF part = "filters" THEN Init ELSE NoFilter
    /\ IF part = "effects" THEN Telling!Init ELSE NoEffect

MCNext ==
    /\ UNCHANGED part
    /\ \/ /\ part = "parallel" /\ ParallelNext
          /\ UNCHANGED <<reaperVars, lookupVars, tradeVars, vars, effectVars>>
       \/ /\ part = "reaper" /\ ReaperNext
          /\ UNCHANGED <<parallelVars, lookupVars, tradeVars, vars, effectVars>>
       \/ /\ part = "lookup" /\ LookupNext
          /\ UNCHANGED <<parallelVars, reaperVars, tradeVars, vars, effectVars>>
       \/ /\ part = "trades" /\ Aggregating!Next
          /\ UNCHANGED <<parallelVars, reaperVars, lookupVars, vars, effectVars>>
       \/ /\ part = "filters" /\ Next
          /\ UNCHANGED <<parallelVars, reaperVars, lookupVars, tradeVars, effectVars>>
       \/ /\ part = "effects" /\ Telling!Next
          /\ UNCHANGED <<parallelVars, reaperVars, lookupVars, tradeVars, vars>>

MCSpec == MCInit /\ [][MCNext]_MCVars

-----------------------------------------------------------------------------
\* Trades: whatever ranges were ingested in whatever order, the stored buckets are
\* those of the stored trades, every query adds them up as a direct aggregation of
\* the trades would, and a client that follows the links sees each bucket once
\* (AggregationsExact, WalkSeesAll).
TradesAddUp == part = "trades" => Aggregating!AggregationsExact /\ Aggregating!WalkSeesAll

\* Filters: the rows of a ledger are those of the transactions that the filters
\* in force when it was ingested let pass, with their participants, and the result
\* of one they do not is found for the period in which its sender may ask
\* (HistoryIsFiltered, ResultStaysFindable).
FiltersHold == part = "filters" => HistoryIsFiltered /\ ResultStaysFindable

\* Effects tell a client everything that happens to the entries it follows
\* (EffectsRetrace).
EffectsRetrace == part = "effects" => Telling!EffectsRetrace
=============================================================================
