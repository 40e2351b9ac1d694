------------------------------ MODULE StateApi ------------------------------
(***************************************************************************)
(* The state end-points of Horizon: accounts, offers, claimable balances,  *)
(* liquidity pools, assets and the order book, read page by page, one by   *)
(* one, or as a stream that sends an object whenever it changes, while     *)
(* ingestion moves the state tables to the next ledger, rebuilds them, and *)
(* state verification may find them wrong.                                 *)
(*                                                                         *)
(* An entry of the ledger owns the rows of the tables it is stored in; a   *)
(* state maps every entry to its rows, the ledger that last modified it    *)
(* and whether it is gone.  Rows are records [t, id, acct, sponsor,        *)
(* assets, sell, buy, n, d, amount]; a cursor is a paging key, 0 when      *)
(* absent.                                                                 *)
(***************************************************************************)
EXTENDS Integers, FiniteSets, FiniteSetsExt, Sequences, TLC

CONSTANTS
  Groups,      \* named instances [entries, first, requests, faults]: for each entry
               \* the sets of rows it may have, {} when it may go away, the
               \* first state, what a client asks for, and whether the
               \* tables may go wrong or be rebuilt meanwhile
  FirstLedger, MaxLedger,
  IdSpan,      \* more than any claimable balance id
  StreamLimit, \* events of an object stream (defaultObjectStreamLimit)
  MaxPages     \* pages a client follows

VARIABLES
  group,
  net,         \* the state of the network at the ledger of the tables
  db,          \* [ledger, history, current, invalid, st, broken]
  status,      \* the history ledger in the cached ledger status
  c            \* the request in flight and what its client has seen

vars == <<group, net, db, status, c>>

None == [none |-> TRUE]

Accounts == "accounts"
Trust == "trust_lines"
Data == "accounts_data"
Signers == "accounts_signers"
Tombstoned == {"offers", "liquidity_pools"}

Table(st, t) ==
  UNION {{r @@ [lm |-> st[k].lm, deleted |-> st[k].gone] :
            r \in {r \in st[k].rows : r.t = t}} :
         k \in {k \in DOMAIN st : ~st[k].gone \/ t \in Tombstoned}}

-----------------------------------------------------------------------------
(* Pages. *)

Ahead(a, b, order) == IF order = "asc" THEN a < b ELSE a > b

Beyond(keys, cursor, order) ==
  IF cursor = 0 THEN keys ELSE {k \in keys : Ahead(cursor, k, order)}

First(keys, order, limit) ==
  LET n == IF Cardinality(keys) < limit THEN Cardinality(keys) ELSE limit
  IN  [i \in 1 .. n |->
        CHOOSE k \in keys : Cardinality({x \in keys : Ahead(x, k, order)}) = i - 1]

\* Mutant: the cursor's own row comes again.
ApplyToUsingCursorAgain(keys, q, cursor) ==
  First({k \in keys : cursor = 0 \/ ~Ahead(k, cursor, q.order)}, q.order, q.limit)

ApplyToUsingCursor(keys, q, cursor) ==
  First(Beyond(keys, cursor, q.order), q.order, q.limit)

-----------------------------------------------------------------------------
(* Accounts. *)

Holders(st, rows) == {r.acct : r \in rows} \cap {a.id : a \in Table(st, Accounts)}

AccountsForAsset(st, q, cursor) ==
  ApplyToUsingCursor(
    Holders(st, {r \in Table(st, Trust) : q.asset \in r.assets}), q, cursor)

AccountsForLiquidityPool(st, q, cursor) ==
  ApplyToUsingCursor(
    Holders(st, {r \in Table(st, Trust) : r.buy = q.id}), q, cursor)

AccountEntriesForSigner(st, q, cursor) ==
  ApplyToUsingCursor(
    Holders(st, {r \in Table(st, Signers) : r.id = q.id}), q, cursor)

\* The accounts of the first rows of one table that the sponsor pays for: the
\* limit counts rows, and an account may have several.
selectBySponsor(st, t, q, cursor) ==
  LET rows == {r \in Table(st, t) :
                 r.sponsor = q.sponsor /\ r.acct \in Beyond({r.acct}, cursor, q.order)}
  IN  {a \in {r.acct : r \in rows} :
         Cardinality({r \in rows : Ahead(r.acct, a, q.order)}) < q.limit}

SponsoredTables == {Accounts, Data, Signers, Trust}

selectUnionBySponsor(st, q, cursor) ==
  UNION {selectBySponsor(st, t, q, cursor) : t \in SponsoredTables}

AccountsForSponsor(st, q, cursor) ==
  First(selectUnionBySponsor(st, q, cursor) \cap {a.id : a \in Table(st, Accounts)},
        q.order, q.limit)

-----------------------------------------------------------------------------
(* Offers, claimable balances, liquidity pools and assets. *)

GetOffers(st, q, cursor) ==
  ApplyToUsingCursor(
    {r.id : r \in {r \in Table(st, "offers") :
       /\ ~r.deleted
       /\ q.acct = 0 \/ r.acct = q.acct
       /\ q.sponsor = 0 \/ r.sponsor = q.sponsor
       /\ q.sell = 0 \/ r.sell = q.sell
       /\ q.buy = 0 \/ r.buy = q.buy}}, q, cursor)

BalanceKey(r) == r.lm * IdSpan + r.id

ClaimedBy(st, q) == {r \in Table(st, "claimants") : r.acct = q.acct}

Has(q, f) == q[f] # 0

GetClaimableBalances(st, q, cursor) ==
  LET balances == Table(st, "claimable_balances")
      joined == {r \in balances :
                  /\ Has(q, "acct") => \E x \in ClaimedBy(st, q) : x.id = r.id
                  /\ Has(q, "asset") => q.asset \in r.assets
                  /\ Has(q, "sponsor") => r.sponsor = q.sponsor}
      sub == ApplyToUsingCursor({BalanceKey(x) : x \in ClaimedBy(st, q)}, q, cursor)
      inSub == {r \in balances :
                 \E i \in DOMAIN sub : sub[i] % IdSpan = r.id}
      rows == IF Has(q, "acct") /\ ~Has(q, "asset") /\ ~Has(q, "sponsor")
                THEN inSub ELSE joined
  IN  ApplyToUsingCursor({BalanceKey(r) : r \in rows}, q, cursor)

GetLiquidityPools(st, q, cursor) ==
  LET shares == {r \in Table(st, Trust) : r.acct = q.acct}
  IN  ApplyToUsingCursor(
        {r.id : r \in {r \in Table(st, "liquidity_pools") :
           /\ ~r.deleted
           /\ Has(q, "acct") => \E s \in shares : s.buy = r.id
           /\ ~Has(q, "acct") => q.assets \subseteq r.assets}}, q, cursor)

\* exp_asset_stats FULL OUTER JOIN asset_contracts.
GetAssetStats(st, q, cursor) ==
  ApplyToUsingCursor(
    {r.id : r \in {r \in Table(st, "exp_asset_stats") \cup Table(st, "asset_contracts") :
       /\ Has(q, "sell") => r.sell = q.sell
       /\ Has(q, "buy") => r.buy = q.buy}}, q, cursor)

-----------------------------------------------------------------------------
(* The order book: price levels, then their amounts, in two queries. *)

Gcd(a, b) == Max({k \in 1 .. a : a % k = 0 /\ b % k = 0})
SumOver(rows) == MapThenSumSet(LAMBDA r : r.amount, rows)

Side(st, sell, buy) ==
  {r \in Table(st, "offers") : ~r.deleted /\ r.sell = sell /\ r.buy = buy}

Cheaper(x, y) == x.n * y.d < y.n * x.d
SamePrice(x, y) == x.n * y.d = y.n * x.d

\* The offers of the limit lowest prices, one set per price.
Levels(rows, limit) ==
  LET price(r) == {x \in rows : SamePrice(x, r)}
      rank(r) == Cardinality({price(x) : x \in {x \in rows : Cheaper(x, r)}})
      n == Cardinality({price(r) : r \in rows})
  IN  [i \in 1 .. (IF n < limit THEN n ELSE limit) |->
        price(CHOOSE r \in rows : rank(r) = i - 1)]

selectPriceLevels(st, q) ==
  <<Levels(Side(st, q.sell, q.buy), q.limit), Levels(Side(st, q.buy, q.sell), q.limit)>>

selectOfferSummaries(st, q) ==
  LET sums(levels) == [i \in DOMAIN levels |-> SumOver(levels[i])]
      levels == selectPriceLevels(st, q)
  IN  <<sums(levels[1]), sums(levels[2])>>

Fraction(level, inverted) ==
  LET r == CHOOSE r \in level : TRUE
      g == Gcd(r.n, r.d)
  IN  IF inverted THEN <<r.d \div g, r.n \div g>> ELSE <<r.n \div g, r.d \div g>>

\* No summary when the two queries disagree on the number of levels.
GetOrderBookSummary(levels, sums) ==
  IF Len(levels[1]) + Len(levels[2]) # Len(sums[1]) + Len(sums[2]) THEN None
  ELSE [s \in 1 .. 2 |-> [i \in DOMAIN levels[s] |->
          <<Fraction(levels[s][i], s = 2), IF i \in DOMAIN sums[s] THEN sums[s][i] ELSE 0>>]]

-----------------------------------------------------------------------------
(* One resource: what the first query finds, and what the others add. *)

ById(st, t, id) == {r \in Table(st, t) : r.id = id /\ ~r.deleted}

AccountParts(st, ids) ==
  {r \in Table(st, Data) \cup Table(st, Signers) \cup Table(st, Trust) : r.acct \in ids}

AccountPages == {"asset", "pool", "signer", "sponsor"}
Pages == AccountPages \cup {"offers", "balances", "pools", "assets"}
Objects == {"account", "data", "offer", "balance", "lpool", "book"}
Streamable == {"account", "data", "book"}

ObjectTable ==
  "account" :> Accounts @@ "data" :> Data @@ "offer" :> "offers"
  @@ "balance" :> "claimable_balances" @@ "lpool" :> "liquidity_pools"

FirstQuery(st, q, cursor) ==
  CASE q.kind = "asset"    -> AccountsForAsset(st, q, cursor)
    [] q.kind = "pool"     -> AccountsForLiquidityPool(st, q, cursor)
    [] q.kind = "signer"   -> AccountEntriesForSigner(st, q, cursor)
    [] q.kind = "sponsor"  -> AccountsForSponsor(st, q, cursor)
    [] q.kind = "offers"   -> GetOffers(st, q, cursor)
    [] q.kind = "balances" -> GetClaimableBalances(st, q, cursor)
    [] q.kind = "pools"    -> GetLiquidityPools(st, q, cursor)
    [] q.kind = "assets"   -> GetAssetStats(st, q, cursor)
    [] q.kind = "book"     -> selectPriceLevels(st, q)
    [] q.kind = "data"     -> {r \in ById(st, Data, q.id) : r.acct = q.acct}
    [] OTHER               -> ById(st, ObjectTable[q.kind], q.id)

Ids(found) == {found[i] : i \in DOMAIN found}

\* The queries that follow the first, on the same transaction, and the resource.
FurtherQueries(st, q, found) ==
  CASE q.kind \in AccountPages -> [page |-> found, parts |-> AccountParts(st, Ids(found))]
    [] q.kind = "account" -> [rows |-> found, parts |-> AccountParts(st, {q.id})]
    [] q.kind = "book" -> [book |-> GetOrderBookSummary(found, selectOfferSummaries(st, q))]
    [] q.kind = "data" ->
         [rows |-> {[value |-> r.amount, sponsor |-> r.sponsor] : r \in found}]
    [] q.kind \in Pages -> [page |-> found]
    [] OTHER -> [rows |-> found]

Missing(q, found) == q.kind \in Objects \ {"book"} /\ found = {}
Resource(st, q, cursor) == FurtherQueries(st, q, FirstQuery(st, q, cursor))

\* Mutant: order books are compared by their lengths.
EqualsLength(q, a, b) ==
  IF q.kind = "book" THEN Len(a.book[1]) = Len(b.book[1]) ELSE a = b

\* What decides that a stream has nothing new to send.
Equals(q, a, b) ==
  IF q.kind = "account" THEN {r.id : r \in a.rows} = {r.id : r \in b.rows} ELSE a = b

-----------------------------------------------------------------------------
(* Ingestion, rebuilding and verification. *)

Modified(st, k, rows, ledger) ==
  [st EXCEPT ![k] = IF rows = {} THEN [@ EXCEPT !.gone = TRUE, !.lm = ledger]
                                 ELSE [rows |-> rows, lm |-> ledger, gone |-> FALSE]]

Versions(k, entry) ==
  {rows \in Groups[group].entries[k] :
     IF entry.gone THEN rows # {} ELSE rows # entry.rows}

\* The instance ends with the request.
Open == c.phase \notin {"end", "walked"} /\ (c.phase = "answered" => c.mode = "stream" \/ c.q.kind \in Pages)

Working == Open /\ db.current /\ db.ledger > 0

\* One transaction moves the tables and both ledgers.
IngestLedger ==
  /\ Working
  /\ db.ledger < MaxLedger
  /\ LET next == db.ledger + 1 IN
     \E k \in DOMAIN net : \E rows \in Versions(k, net[k]) :
       /\ net' = Modified(net, k, rows, next)
       /\ db' = [db EXCEPT !.st = Modified(@, k, rows, next),
                           !.ledger = next, !.history = next]
  /\ UNCHANGED <<group, status, c>>

\* TRUNCATE takes effect for the snapshots that have not read the tables yet;
\* it waits for the transactions that have.
Emptied(st) == [k \in DOMAIN st |-> [rows |-> {}, lm |-> 0, gone |-> TRUE]]

BuildState ==
  /\ Open
  /\ ~db.current \/ db.invalid
  /\ c.phase \notin {"found"}
  /\ \E history \in {db.history, db.ledger} :
       db' = [db EXCEPT !.st = net, !.history = history,
                        !.current = TRUE, !.invalid = FALSE, !.broken = FALSE]
  /\ c' = IF c.phase \in {"begun", "checked"}
            THEN [c EXCEPT !.snap.st = Emptied(@), !.emptied = TRUE] ELSE c
  /\ UNCHANGED <<group, net, status>>

\* The operator asks for a rebuild, or starts a version that needs one.
TriggerStateRebuild ==
  /\ Working /\ Groups[group].faults
  /\ db' = [db EXCEPT !.current = FALSE]
  /\ UNCHANGED <<group, net, status, c>>

\* A fault makes the tables differ from the ledger; verification notices.
Diverge ==
  /\ Working /\ Groups[group].faults
  /\ ~db.broken
  /\ \E k \in DOMAIN db.st :
       /\ ~db.st[k].gone
       /\ db' = [db EXCEPT !.st[k].gone = TRUE, !.broken = TRUE]
  /\ UNCHANGED <<group, net, status, c>>

MarkStateInvalid ==
  /\ Open
  /\ db.broken /\ ~db.invalid
  /\ db' = [db EXCEPT !.invalid = TRUE]
  /\ UNCHANGED <<group, net, status, c>>

Tick ==
  /\ c.mode = "stream" /\ Open
  /\ status # db.history
  /\ status' = db.history
  /\ UNCHANGED <<group, net, db, c>>

-----------------------------------------------------------------------------
(* A request behind the state middleware. *)

RequestFor(q, mode) ==
  [q |-> q, mode |-> mode, phase |-> "idle", snap |-> None, truth |-> None,
   emptied |-> FALSE, found |-> {}, reply |-> None,
   cursor |-> 0, pages |-> 0, seen |-> <<>>, stable |-> {}, trusted |-> TRUE,
   shown |-> None, left |-> StreamLimit, at |-> 0]

\* Mutant: every query reads the latest commit.
ViewLatest(snap) == db.st

\* Every query of a request reads the snapshot of its transaction.
View(snap) == snap.st

BeginTx ==
  /\ c.phase \in {"idle", "poll"}
  /\ c' = [c EXCEPT !.phase = IF @ = "idle" THEN "begun" ELSE "checked",
                    !.snap = db, !.truth = net, !.emptied = FALSE]
  /\ UNCHANGED <<group, net, db, status>>

ingestionStatus(s) == s.current /\ s.ledger > 0 /\ s.ledger = s.history

\* Mutant: the invalid mark is not looked at.
RefusedUnready(s) == ~ingestionStatus(s)

Refused(s) == s.invalid \/ ~ingestionStatus(s)

StateMiddleware ==
  /\ c.phase = "begun"
  /\ c' = IF Refused(c.snap) THEN [c EXCEPT !.phase = "end", !.snap = None, !.truth = None]
          ELSE IF c.mode = "stream"
            THEN [c EXCEPT !.phase = "poll", !.snap = None, !.truth = None, !.at = status]
            ELSE [c EXCEPT !.phase = "checked"]
  /\ UNCHANGED <<group, net, db, status>>

GetResourceFirst ==
  /\ c.phase = "checked"
  /\ LET found == FirstQuery(View(c.snap), c.q, c.cursor) IN
     c' = IF Missing(c.q, found)
            THEN [c EXCEPT !.phase = IF c.mode = "stream" THEN "end" ELSE "answered",
                           !.reply = [rows |-> {}]]
            ELSE [c EXCEPT !.phase = "found", !.found = found]
  /\ UNCHANGED <<group, net, db, status>>

GetResource ==
  /\ c.phase = "found"
  /\ c' = [c EXCEPT !.phase = "answered",
                    !.reply = FurtherQueries(View(c.snap), c.q, c.found)]
  /\ UNCHANGED <<group, net, db, status>>

\* The keys of the rows a query selects, all pages together.
Selected(st, q) ==
  Ids(FirstQuery(st, [q EXCEPT !.limit = 100], 0))

\* Tables that are wrong and not marked so make no promise; a stream never looks at
\* the mark.
Trusted == c.snap.broken => c.mode = "get" /\ c.snap.invalid

\* The client follows the next link of a page that was not empty.
NextPage ==
  LET page == c.reply.page
      match == Selected(c.truth, c.q)
  IN
  /\ c.phase = "answered" /\ c.mode = "get" /\ c.q.kind \in Pages
  /\ c' = [c EXCEPT
             !.phase = IF page = <<>> \/ c.pages + 1 = MaxPages THEN "walked" ELSE "idle",
             !.cursor = IF page = <<>> THEN @ ELSE page[Len(page)],
             !.pages = @ + 1,
             !.seen = @ \o page,
             !.stable = IF c.pages = 0 THEN match ELSE @ \cap match,
             !.trusted = @ /\ Trusted /\ ~c.emptied,
             !.snap = None, !.truth = None, !.found = {}, !.reply = None]
  /\ UNCHANGED <<group, net, db, status>>

\* One turn of an object stream: send the object unless it equals the last.
RenderEvents ==
  LET same == c.shown # None /\ Equals(c.q, c.shown, c.reply) IN
  /\ c.phase = "answered" /\ c.mode = "stream"
  /\ c' = [c EXCEPT !.phase = IF ~same /\ c.left = 1 THEN "end" ELSE "wait",
                    !.shown = IF same THEN @ ELSE c.reply,
                    !.left = IF same THEN @ ELSE @ - 1]
  /\ UNCHANGED <<group, net, db, status>>

\* The cached status shows a ledger the stream has not seen.
NextLedger ==
  /\ c.phase = "wait"
  /\ status > c.at
  /\ c' = [c EXCEPT !.phase = "poll", !.at = status, !.snap = None, !.truth = None,
                    !.found = {}, !.reply = None]
  /\ UNCHANGED <<group, net, db, status>>

-----------------------------------------------------------------------------
FirstState(g) == [k \in DOMAIN g.entries |->
                [rows |-> g.first[k], lm |-> FirstLedger, gone |-> g.first[k] = {}]]

Init ==
  /\ group \in DOMAIN Groups
  /\ net = FirstState(Groups[group])
  /\ db = [ledger |-> FirstLedger, history |-> FirstLedger, current |-> TRUE,
           invalid |-> FALSE, broken |-> FALSE, st |-> FirstState(Groups[group])]
  /\ status = FirstLedger
  /\ c \in {RequestFor(r.q, r.mode) : r \in Groups[group].requests}

Next ==
  \/ IngestLedger
  \/ BuildState
  \/ TriggerStateRebuild
  \/ Diverge
  \/ MarkStateInvalid
  \/ Tick
  \/ BeginTx
  \/ StateMiddleware
  \/ GetResourceFirst
  \/ GetResource
  \/ NextPage
  \/ RenderEvents
  \/ NextLedger

Spec == Init /\ [][Next]_vars

-----------------------------------------------------------------------------
(* Properties. *)

Sponsored(st, s) ==
  {r.acct : r \in {r \in UNION {Table(st, t) : t \in SponsoredTables} : r.sponsor = s}}

\* The page or the object a client should get from one state of the network.
Expected(st, q, cursor) ==
  LET found == FirstQuery(st, q, cursor)
      all == First(Beyond(Sponsored(st, q.sponsor), cursor, q.order), q.order, q.limit)
  IN  IF q.kind = "sponsor" THEN FurtherQueries(st, q, all)
      ELSE IF Missing(q, found) THEN [rows |-> {}]
      ELSE FurtherQueries(st, q, found)

\* What the transaction of a request may read: the ledger it began in or, because
\* TRUNCATE does not respect snapshots, nothing of it at all.
Readable == IF c.emptied THEN Emptied(c.truth) ELSE c.truth

\* An answer of a state end-point is the network's state at the one ledger the
\* Latest-Ledger header names, although its queries run while ingestion goes on;
\* wrong tables that verification has marked are never served.  A rebuild that
\* truncates the tables between the middleware's check and the first query makes the
\* answer empty, as if nothing existed, but never a mixture
\* (StateMiddleware.WrapFunc, the repeatable read transaction).
AnswersAreTrue ==
  c.phase = "answered" /\ Trusted =>
    c.reply = Expected(Readable, c.q, c.cursor)

\* Walking the pages of a state end-point shows every row that matched all
\* along, and none twice, however the ledger changes between two pages, unless a
\* page was emptied by a rebuild.
WalkKeepsRows ==
  c.phase = "walked" =>
    /\ c.pages < MaxPages /\ c.trusted => c.stable \subseteq Ids(c.seen)
    /\ \A i, j \in DOMAIN c.seen : i # j => c.seen[i] # c.seen[j]

\* What the client of an object stream last saw is the object of the last
\* ledger the stream has polled: it picks up every change
\* (streamableObjectActionHandler.renderStream).
StreamShowsState ==
  c.phase = "wait" /\ Trusted => c.shown = Expected(Readable, c.q, 0)
=============================================================================
