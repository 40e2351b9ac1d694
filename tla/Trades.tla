------------------------------- MODULE Trades -------------------------------
(***************************************************************************)
(* Trades: how TradeProcessor turns the claim atoms of a ledger into rows  *)
(* of history_trades, how the one-minute aggregations are rebuilt, and how *)
(* the trade_aggregations endpoint sums them up and pages through them.    *)
(* Time is counted in the one-minute buckets.                              *)
(***************************************************************************)
EXTENDS Integers, Sequences, FiniteSets, FiniteSetsExt, SequencesExt, Functions, TLC

CONSTANTS
    Asset, AssetId,     \* AssetId: the identifiers of the lookup table, as assigned
    Groups,             \* bound: a sequence of [ops, queries, requests], one for each behaviour
    None,
    AllowedResolutions, Hour, Day,
    SlippageFilter, MaxSlippage,
    MaxLedger, MinMinute, MaxMinute     \* bounds

VARIABLES
    group,
    net,        \* the ledgers that closed: [minute, op] for each sequence
    ingested,   \* the ledgers in the history tables
    trades,     \* history_trades
    buckets,    \* history_trades_60000
    client      \* a client that follows the next links

vars == <<group, net, ingested, trades, buckets, client>>

TradesAssumption ==
    /\ AssetId \in [Asset -> Nat] /\ IsInjective(AssetId)
    /\ 1 \in AllowedResolutions /\ MaxLedger \in Nat /\ MaxMinute \in Nat
    /\ MinMinute >= Day    \* no trade is older than any offset

-----------------------------------------------------------------------------
(***************************************************************************)
(* TradeProcessor.  An operation is [type, ok, buyer, offer, atoms]; an    *)
(* atom [pool, seller, sold, bought, price, slippage], with sold and       *)
(* bought as [asset, amount].                                              *)
(***************************************************************************)
\* The price of the offer before the operation, or what the pool exchanged.
findTradeSellPrice(atom) ==
    IF atom.pool THEN <<atom.bought.amount, atom.sold.amount>> ELSE atom.price

\* CalculatePoolExpectation and CalculatePoolPayout fail when they would overflow.
roundingSlippage(atom) == IF atom.slippage = None THEN MaxSlippage ELSE atom.slippage

Side(asset, amount, party, offer) == [asset |-> asset, amount |-> amount, party |-> party, offer |-> offer]

\* The seller is the base, until Flush.
TradeRow(seq, minute, op, i) ==
    LET atom == op.atoms[i]
    IN  [id |-> <<seq, i>>, minute |-> minute,
         base |-> Side(AssetId[atom.sold.asset], atom.sold.amount, atom.seller,
                       IF atom.pool THEN None ELSE atom.offer),
         counter |-> Side(AssetId[atom.bought.asset], atom.bought.amount, op.buyer,
                          IF op.offer = None THEN seq ELSE op.offer),
         price |-> findTradeSellPrice(atom), baseIsSeller |-> TRUE,
         baseIsExact |-> CASE op.type = "send" -> FALSE
                           [] op.type = "receive" -> TRUE
                           [] OTHER -> None,
         slippage |-> IF atom.pool THEN roundingSlippage(atom) ELSE 0]

\* Atoms of offers that were only garbage collected are no trades.
extractTrades(seq, minute, op) ==
    {TradeRow(seq, minute, op, i) :
        i \in {x \in DOMAIN op.atoms : op.atoms[x].bought.amount # 0 \/ op.atoms[x].sold.amount # 0}}

\* Mutant: the price is not turned around.
FlushedPrice(row) ==
    IF row.base.asset <= row.counter.asset THEN row
    ELSE [row EXCEPT !.base = row.counter, !.counter = row.base, !.baseIsSeller = FALSE,
                     !.baseIsExact = IF @ = None THEN None ELSE ~@]

\* Flush puts the smaller asset identifier first.
Flushed(row) ==
    IF row.base.asset <= row.counter.asset THEN row
    ELSE [row EXCEPT !.base = row.counter, !.counter = row.base, !.baseIsSeller = FALSE,
                     !.baseIsExact = IF @ = None THEN None ELSE ~@,
                     !.price = <<@[2], @[1]>>]

ProcessTransaction(seq, minute, op) ==
    IF op.ok THEN {Flushed(r) : r \in extractTrades(seq, minute, op)} ELSE {}

-----------------------------------------------------------------------------
(***************************************************************************)
(* The one-minute buckets.                                                 *)
(***************************************************************************)
Before(i, j) == i[1] < j[1] \/ (i[1] = j[1] /\ i[2] < j[2])
InOrder(rows) == SetToSortSeq(rows, LAMBDA r, s : Before(r.id, s.id))

AtLeast(p, q) == p[1] * q[2] >= q[1] * p[2]
max_price(prices) == CHOOSE p \in prices : \A q \in prices : AtLeast(p, q)
min_price(prices) == CHOOSE p \in prices : \A q \in prices : AtLeast(q, p)

\* The aggregation of the rows of one pair and minute.
Rebuilt(rows) ==
    LET s == InOrder(rows)
        prices == {r.price : r \in rows}
    IN  [count |-> Cardinality(rows),
         base |-> MapThenSumSet(LAMBDA r : r.base.amount, rows),
         counter |-> MapThenSumSet(LAMBDA r : r.counter.amount, rows),
         high |-> max_price(prices), low |-> min_price(prices),
         open |-> s[1].price, openToid |-> s[1].id[1], close |-> Last(s).price]

Pair(r) == <<r.base.asset, r.counter.asset, r.minute>>
Counted(rows, from, to) == {r \in rows : r.slippage < SlippageFilter /\ r.minute \in from..to}

RebuildTradeAggregationTimes(rows, b, from, to) ==
    LET counted == Counted(rows, from, to)
    IN  [k \in {Pair(r) : r \in counted} |-> Rebuilt({r \in counted : Pair(r) = k})]
            @@ Restrict(b, {k \in DOMAIN b : k[3] \notin from..to})

\* Mutant: only the trades of the ledgers in the range.
RebuildTradeAggregationBucketsRange(rows, b, from, to) ==
    RebuildTradeAggregationTimes({r \in rows : r.id[1] \in from..to}, b, net[from].minute, net[to].minute)

\* The minutes of the first and the last ledger of the range.
RebuildTradeAggregationBuckets(rows, b, from, to) ==
    RebuildTradeAggregationTimes(rows, b, net[from].minute, net[to].minute)

\* Ledgers from..to are ingested, or ingested again: what there is of them is
\* deleted first, and the buckets they touch are rebuilt.
Ingest(from, to) ==
    LET rows == {r \in trades : r.id[1] \notin from..to}
                    \cup UNION {ProcessTransaction(s, net[s].minute, net[s].op) : s \in from..to}
    IN  /\ from..to \subseteq DOMAIN net
        /\ from..to \ ingested # {}
        /\ trades' = rows
        /\ buckets' = RebuildTradeAggregationBuckets(rows, buckets, from, to)
        /\ ingested' = ingested \cup from..to
        /\ UNCHANGED <<group, net, client>>

CloseLedger ==
    /\ Len(net) < MaxLedger
    /\ \E minute \in (IF net = <<>> THEN MinMinute ELSE Last(net).minute)..MaxMinute, op \in Groups[group].ops :
        net' = Append(net, [minute |-> minute, op |-> op])
    /\ UNCHANGED <<group, ingested, trades, buckets, client>>

-----------------------------------------------------------------------------
(***************************************************************************)
(* The trade_aggregations endpoint.  A request is                          *)
(* [base, counter, resolution, offset, start, end, order, limit]; a start  *)
(* or an end of zero is one that was not given.                            *)
(***************************************************************************)
Nil == 0

\* TradeAggregationsQuery.Validate and GetTradeAggregationsQ
Valid(q) ==
    /\ q.resolution \in AllowedResolutions
    /\ q.offset % Hour = 0 /\ q.offset < Day /\ q.offset <= q.resolution

RoundDown(t, n) == t - (t % n)
RoundUp(t, n) == IF t % n = 0 THEN t ELSE RoundDown(t, n) + n

WithStartTime(q) ==
    IF q.start = Nil THEN Nil
    ELSE IF q.start < q.offset THEN q.offset
    ELSE RoundUp(q.start - q.offset, q.resolution) + q.offset

WithEndTime(q) == IF q.end = Nil THEN Nil ELSE RoundDown(q.end - q.offset, q.resolution) + q.offset

EndAllowed(q) == q.end = Nil \/ (q.end >= q.offset /\ WithEndTime(q) >= WithStartTime(q))

formatBucketTimestamp(t, q) == ((t - q.offset) \div q.resolution) * q.resolution + q.offset

getCanonicalAssetOrder(q) ==
    LET a == AssetId[q.base] b == AssetId[q.counter]
    IN  IF a < b THEN [preserved |-> TRUE, base |-> a, counter |-> b]
        ELSE [preserved |-> FALSE, base |-> b, counter |-> a]

\* Mutant: the extremes keep their places.
reverseBucketTradesKeeps(b) ==
    [b EXCEPT !.base = b.counter, !.counter = b.base,
              !.high = <<b.high[2], b.high[1]>>, !.low = <<b.low[2], b.low[1]>>,
              !.open = <<@[2], @[1]>>, !.close = <<@[2], @[1]>>]

reverseBucketTrades(b) ==
    [b EXCEPT !.base = b.counter, !.counter = b.base,
              !.high = <<b.low[2], b.low[1]>>, !.low = <<b.high[2], b.high[1]>>,
              !.open = <<@[2], @[1]>>, !.close = <<@[2], @[1]>>]

\* first and last over the raw buckets, in the order of their first trade.
aggregate(raw) ==
    LET s == SetToSortSeq(raw, LAMBDA x, y : x.openToid < y.openToid)
    IN  [count |-> MapThenSumSet(LAMBDA b : b.count, raw),
         base |-> MapThenSumSet(LAMBDA b : b.base, raw),
         counter |-> MapThenSumSet(LAMBDA b : b.counter, raw),
         high |-> max_price({b.high : b \in raw}), low |-> min_price({b.low : b \in raw}),
         open |-> s[1].open, close |-> Last(s).close]

KeysOf(q) ==
    LET pair == getCanonicalAssetOrder(q)
    IN  {k \in DOMAIN buckets : k[1] = pair.base /\ k[2] = pair.counter}

\* lastRangeTs: the first timestamps, in the order asked for, of the range.
lastRangeTs(q) ==
    LET in == {k \in KeysOf(q) : k[3] >= WithStartTime(q) /\ (WithEndTime(q) # Nil => k[3] < WithEndTime(q))}
        stamps == {formatBucketTimestamp(k[3], q) : k \in in}
        all == SetToSortSeq(stamps, LAMBDA x, y : IF q.order = "asc" THEN x < y ELSE x > y)
    IN  SubSeq(all, 1, Min({q.limit, Len(all)}))

getRawTrades(q, stamp) ==
    {LET b == buckets[k] IN IF getCanonicalAssetOrder(q).preserved THEN b ELSE reverseBucketTrades(b) :
        k \in {x \in KeysOf(q) : formatBucketTimestamp(x[3], q) = stamp}}

\* The records of a page: every bucket between the first and the last timestamp.
GetSql(q) == [i \in DOMAIN lastRangeTs(q) |-> aggregate(getRawTrades(q, lastRangeTs(q)[i]))]

\* Mutant: the next page begins with the last bucket of this one.
NextLinkAgain(q, stamps) ==
    IF stamps = <<>> THEN q
    ELSE IF q.order = "asc" THEN [q EXCEPT !.start = Min({Last(stamps), q.end})]
    ELSE [q EXCEPT !.end = Max({Last(stamps) + q.resolution, q.start})]

\* buildPage: the range of the next page.
NextLink(q, stamps) ==
    IF stamps = <<>> THEN q
    ELSE IF q.order = "asc" THEN [q EXCEPT !.start = Min({Last(stamps) + q.resolution, q.end})]
    ELSE [q EXCEPT !.end = Max({Last(stamps), q.start})]

Request ==
    /\ client = None
    /\ \E q \in Groups[group].requests :
        client' = [first |-> q, at |-> q, seen |-> <<>>, there |-> Range(lastRangeTs([q EXCEPT !.limit = MaxMinute + 1])),
                   pc |-> IF Valid(q) THEN "asking" ELSE "refused"]
    /\ UNCHANGED <<group, net, ingested, trades, buckets>>

\* One request of the client: it follows next links until a page is empty.
GetResource ==
    LET stamps == lastRangeTs(client.at) IN
    /\ client # None /\ client.pc = "asking"
    /\ client' = IF ~EndAllowed(client.at) THEN [client EXCEPT !.pc = "refused"]
                 ELSE [client EXCEPT !.seen = @ \o stamps, !.at = NextLink(@, stamps),
                                     !.pc = IF stamps = <<>> THEN "done" ELSE "asking"]
    /\ UNCHANGED <<group, net, ingested, trades, buckets>>

Init ==
    /\ group \in DOMAIN Groups
    /\ net = <<>> /\ ingested = {} /\ trades = {} /\ client = None
    /\ buckets = [k \in {} |-> None]

Next ==
    \/ CloseLedger
    \/ \E from, to \in 1..MaxLedger : from <= to /\ Ingest(from, to)
    \/ Request
    \/ GetResource

Spec == Init /\ [][Next]_vars

-----------------------------------------------------------------------------
(***************************************************************************)
(* Properties.                                                             *)
(***************************************************************************)
\* The trades of ingested ledgers, told from the ledger: [sold, bought, price].
Happened ==
    UNION {{[id |-> <<s, i>>, minute |-> net[s].minute, atom |-> net[s].op.atoms[i]] :
                i \in {x \in DOMAIN net[s].op.atoms : /\ net[s].op.ok
                          /\ net[s].op.atoms[x].bought.amount + net[s].op.atoms[x].sold.amount > 0}} :
           s \in ingested}

\* A trade seen with base and counter as given: what changed hands and at which
\* price of the base, whoever sold.
SeenAs(t, base) ==
    IF t.atom.sold.asset = base
    THEN [base |-> t.atom.sold.amount, counter |-> t.atom.bought.amount, price |-> findTradeSellPrice(t.atom)]
    ELSE [base |-> t.atom.bought.amount, counter |-> t.atom.sold.amount,
          price |-> <<findTradeSellPrice(t.atom)[2], findTradeSellPrice(t.atom)[1]>>]

Exact(q, stamp) ==
    LET ts == {t \in Happened : /\ {t.atom.sold.asset, t.atom.bought.asset} = {q.base, q.counter}
                                /\ t.minute \in stamp..(stamp + q.resolution - 1)
                                /\ (t.atom.pool => roundingSlippage(t.atom) < SlippageFilter)}
        s == SetToSortSeq(ts, LAMBDA x, y : Before(x.id, y.id))
        P(t) == SeenAs(t, q.base).price
    IN  [count |-> Cardinality(ts),
         base |-> MapThenSumSet(LAMBDA t : SeenAs(t, q.base).base, ts),
         counter |-> MapThenSumSet(LAMBDA t : SeenAs(t, q.base).counter, ts),
         high |-> max_price({P(t) : t \in ts}), low |-> min_price({P(t) : t \in ts}),
         open |-> P(s[1]), close |-> P(Last(s))]

\* Whichever ledgers were ingested, in whatever order and however often, every
\* bucket served, at any resolution and whichever asset is the base, is computed
\* from the trades of exactly its minutes, each told from the base's side.
AggregationsExact ==
    \A q \in Groups[group].queries : Valid(q) =>
        LET stamps == lastRangeTs([q EXCEPT !.limit = MaxMinute + 1, !.start = Nil, !.end = Nil])
        IN  \A i \in DOMAIN stamps : aggregate(getRawTrades(q, stamps[i])) = Exact(q, stamps[i])

\* A client that follows the next links sees the buckets of its range in order,
\* none twice, is never refused half way, and in the end has seen every bucket
\* that there was when it began.
WalkSeesAll ==
    client # None =>
        /\ \A i, j \in DOMAIN client.seen : i < j =>
            IF client.first.order = "asc" THEN client.seen[i] < client.seen[j]
            ELSE client.seen[i] > client.seen[j]
        /\ client.pc = "refused" => client.seen = <<>>
        /\ client.pc = "done" => client.there \subseteq Range(client.seen)
        /\ Range(client.seen) \subseteq WithStartTime(client.first)..MaxMinute
=============================================================================
