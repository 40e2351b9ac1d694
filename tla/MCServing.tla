----------------------------- MODULE MCServing -----------------------------
(***************************************************************************)
(* What Horizon serves, for TLC: pages and streams of history, objects and *)
(* pages of the current state, and submitted transactions.  The components *)
(* share no state, so a behaviour exercises one of them.                   *)
(***************************************************************************)
EXTENDS MCHistoryApi, TxSub, TLC

CONSTANTS
    Parts,          \* the components to exercise
    ObjectGroups,   \* the groups of the state end-points
    r1, r2, r3, r4, tx, bump, bad, Unused

VARIABLES
    part,
    group, net, db, cachedStatus, request

stateVars == <<group, net, db, cachedStatus, request>>
MCVars == <<part, vars, stateVars, txVars>>

-----------------------------------------------------------------------------
\* What the end-points for the current state are asked, and the entries they are
\* asked about.
Entry(t, id, acct) ==
  [t |-> t, id |-> id, acct |-> acct, sponsor |-> 0, assets |-> {}, sell |-> 0,
   buy |-> 0, n |-> 1, d |-> 1, amount |-> 0]
Asks(kind) ==
  [kind |-> kind, id |-> 0, acct |-> 0, sponsor |-> 0, asset |-> 0, assets |-> {},
   sell |-> 0, buy |-> 0, order |-> "asc", limit |-> 1]
Get(q) == [q |-> q, mode |-> "get"]
Stream(q) == [q |-> q, mode |-> "stream"]
Desc(q) == [q EXCEPT !.order = "desc"]
Acct(a, s, v) == [Entry("accounts", a, a) EXCEPT !.sponsor = s, !.amount = v]
Line(a, asset, s) == [Entry("trust_lines", asset, a) EXCEPT !.assets = {asset}, !.sponsor = s]
Share(a, p) == [Entry("trust_lines", 10 + p, a) EXCEPT !.buy = p]
Signer(a, s) == [Entry("accounts_signers", s, a) EXCEPT !.sponsor = 9]
Datum(a, k, v) == [Entry("accounts_data", k, a) EXCEPT !.amount = v, !.sponsor = 9]
Offer(i, sell, buy, n, d, v) ==
  [Entry("offers", i, 1) EXCEPT !.sell = sell, !.buy = buy, !.n = n, !.d = d, !.amount = v]
Balance(i, s, who) ==
  {[Entry("claimable_balances", i, 0) EXCEPT !.assets = {1}, !.sponsor = s]}
  \cup {Entry("claimants", i, w) : w \in who}
Pool(i, as) == [Entry("liquidity_pools", i, 0) EXCEPT !.assets = as]
Stat(i, t) == [Entry(t, i, 0) EXCEPT !.sell = i \div 10, !.buy = i % 10]

\* Two accounts, their trust lines, a signer and a pool share.
AccountGroup ==
  [entries |-> "a1" :> {{Acct(1, 0, 5)}, {Acct(1, 9, 6)}} @@ "a2" :> {{Acct(2, 0, 5)}}
      @@ "l1" :> {{Line(1, 1, 0)}, {}} @@ "l2" :> {{Line(2, 1, 9)}, {}}
      @@ "s1" :> {{Signer(1, 7)}, {}} @@ "p2" :> {{Share(2, 3)}, {}},
   first |-> "a1" :> {Acct(1, 0, 5)} @@ "a2" :> {Acct(2, 0, 5)}
      @@ "l1" :> {Line(1, 1, 0)} @@ "l2" :> {Line(2, 1, 9)}
      @@ "s1" :> {} @@ "p2" :> {Share(2, 3)},
   requests |-> {Get([Asks("asset") EXCEPT !.asset = 1]),
                 Get(Desc([Asks("asset") EXCEPT !.asset = 1])),
                 Get([Asks("signer") EXCEPT !.id = 7]),
                 Get([Asks("pool") EXCEPT !.id = 3]),
                 Get([Asks("sponsor") EXCEPT !.sponsor = 9]),
                 Get([Asks("account") EXCEPT !.id = 1])},
   faults |-> FALSE]

\* A data entry, whose table may be damaged or rebuilt.
DataGroup ==
  [entries |-> "a1" :> {{Acct(1, 0, 5)}} @@ "d" :> {{Datum(1, 4, 1)}, {Datum(1, 4, 2)}, {}},
   first |-> "a1" :> {Acct(1, 0, 5)} @@ "d" :> {Datum(1, 4, 1)},
   requests |-> {Get([Asks("data") EXCEPT !.id = 4, !.acct = 1]),
                 Get([Asks("sponsor") EXCEPT !.sponsor = 9]),
                 Stream([Asks("data") EXCEPT !.id = 4, !.acct = 1])},
   faults |-> TRUE]

\* Three offers, two at the same price written differently.
OfferGroup ==
  [entries |-> "o1" :> {{Offer(1, 1, 2, 1, 2, 3)}, {Offer(1, 1, 2, 1, 3, 3)}, {}}
      @@ "o2" :> {{Offer(2, 1, 2, 2, 4, 4)}, {Offer(2, 1, 2, 2, 4, 5)}, {}}
      @@ "o3" :> {{Offer(3, 2, 1, 3, 2, 1)}, {}},
   first |-> "o1" :> {Offer(1, 1, 2, 1, 2, 3)} @@ "o2" :> {Offer(2, 1, 2, 2, 4, 4)}
      @@ "o3" :> {Offer(3, 2, 1, 3, 2, 1)},
   requests |-> {Get([Asks("offers") EXCEPT !.acct = 1, !.limit = 2]),
                 Get(Desc([Asks("offers") EXCEPT !.sell = 1])),
                 Get([Asks("offer") EXCEPT !.id = 1]),
                 Get([Asks("book") EXCEPT !.sell = 1, !.buy = 2, !.limit = 2]),
                 Stream([Asks("book") EXCEPT !.sell = 1, !.buy = 2, !.limit = 2])},
   faults |-> FALSE]

\* Three claimable balances.
BalanceGroup ==
  [entries |-> "b1" :> {Balance(1, 9, {1, 2}), {}} @@ "b2" :> {Balance(2, 0, {1}), Balance(2, 9, {1}), {}}
      @@ "b3" :> {Balance(3, 9, {2}), {}},
   first |-> "b1" :> Balance(1, 9, {1, 2}) @@ "b2" :> Balance(2, 0, {1}) @@ "b3" :> {},
   requests |-> {Get([Asks("balances") EXCEPT !.acct = 1]),
                 Get(Desc([Asks("balances") EXCEPT !.acct = 1])),
                 Get([Asks("balances") EXCEPT !.acct = 2, !.asset = 1]),
                 Get([Asks("balances") EXCEPT !.sponsor = 9, !.limit = 2]),
                 Get([Asks("balance") EXCEPT !.id = 2])},
   faults |-> FALSE]

\* Pools, their holders and asset statistics.
PoolGroup ==
  [entries |-> "p1" :> {{Pool(1, {1, 2})}, {}} @@ "p2" :> {{Pool(2, {1, 3})}, {}}
      @@ "h1" :> {{Share(1, 1)}, {}} @@ "h2" :> {{Share(1, 2)}, {}}
      @@ "t1" :> {{Stat(11, "exp_asset_stats")}, {}} @@ "t2" :> {{Stat(12, "asset_contracts")}, {}},
   first |-> "p1" :> {Pool(1, {1, 2})} @@ "p2" :> {Pool(2, {1, 3})}
      @@ "h1" :> {Share(1, 1)} @@ "h2" :> {Share(1, 2)}
      @@ "t1" :> {Stat(11, "exp_asset_stats")} @@ "t2" :> {Stat(12, "asset_contracts")},
   requests |-> {Get([Asks("pools") EXCEPT !.acct = 1]),
                 Get([Asks("pools") EXCEPT !.assets = {1}]),
                 Get([Asks("lpool") EXCEPT !.id = 1]),
                 Get(Asks("assets")), Get(Desc([Asks("assets") EXCEPT !.sell = 1]))},
   faults |-> FALSE]

\* What the end-points are asked about while it changes.
FiveGroups ==
  "accounts" :> AccountGroup @@ "data" :> DataGroup @@ "offers" :> OfferGroup
  @@ "balances" :> BalanceGroup @@ "pools" :> PoolGroup

\* A stream of an account whose balance and sponsor change.
AccountStream ==
  "stream" :> [AccountGroup EXCEPT !.requests = {Stream([Asks("account") EXCEPT !.id = 1])}]

-----------------------------------------------------------------------------
Current == INSTANCE StateApi WITH
    Groups <- ObjectGroups, status <- cachedStatus, c <- request,
    IdSpan <- 10, StreamLimit <- 3, MaxPages <- 4

\* A transaction submitted twice, a fee bump of it, and one with impossible
\* sequence numbers.
SubmittedHash == r1 :> tx @@ r2 :> tx @@ r3 :> bump @@ r4 :> bad
Seqs == tx :> 1 @@ bump :> 1 @@ bad :> 1
Inner == tx :> NoHash @@ bump :> tx @@ bad :> NoHash

\* The other components do not move.
NoPages == InitFor(CHOOSE r \in Requests : TRUE)
NoObjects == group = Unused /\ net = Unused /\ db = Unused /\ cachedStatus = Unused /\ request = Unused

\* Nothing is submitted in the other parts.
MCInit ==
    /\ part \in Parts
    /\ IF part = "history" THEN Init ELSE NoPages
    /\ IF part = "state" THEN Current!Init ELSE NoObjects
    /\ TxInit

MCNext ==
    /\ UNCHANGED part
    /\ \/ part = "history" /\ Next /\ UNCHANGED <<stateVars, txVars>>
       \/ part = "state" /\ Current!Next /\ UNCHANGED <<vars, txVars>>
       \/ part = "submission" /\ TxNext /\ UNCHANGED <<vars, stateVars>>

MCSpec == MCInit /\ [][MCNext]_MCVars

\* The requests that submit the same transaction are alike.
Symmetry == Permutations({r1, r2})

-----------------------------------------------------------------------------
\* No row of history comes twice (NoRowTwice).
RowsComeOnce == part = "history" => NoRowTwice

\* An answer about the current state is the state of one ledger, whatever is ingested
\* or found invalid meanwhile, or empty where a rebuild truncated the tables under
\* the request; pages leave out no row that was there all the time (AnswersAreTrue,
\* WalkKeepsRows).
StateIsServed == part = "state" => Current!AnswersAreTrue /\ Current!WalkKeepsRows

\* A stream of an object shows what changes (StreamShowsState).
StreamsShowState == part = "state" => Current!StreamShowsState
=============================================================================
