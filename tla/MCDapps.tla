------------------------------ MODULE MCDapps ------------------------------
(***************************************************************************)
(* The contracts, the price service, the transaction streamer and the      *)
(* faucet, for TLC.  They share no state, so a behaviour exercises one of  *)
(* them.                                                                   *)
(***************************************************************************)
EXTENDS SubscriptionContract, Faucet, TLC

CONSTANTS s1, m1, u1, u2, x, y, z, p1, p2, NoPool, mexc, okx, bitget, push, api, NoPrice, NoArgument,
          poll1, poll2, f1, f2, dest, Unused

VARIABLES
    part,
    reserveA, reserveB, totalShares, share, poolById, pairToPool,
    initialized, tokenBalance, totalSupply, tokenAllowance, tokenApproved, spent,
    lastCommitted, breaker, cache, task, got, answer, onChain,
    head, buffer, known, running, backoff, consecutive429s, poll, given, shown, again

dexVars == <<reserveA, reserveB, totalShares, share, poolById, pairToPool>>
tokenVars == <<initialized, tokenBalance, totalSupply, tokenAllowance, tokenApproved, spent>>
oracleVars == <<lastCommitted, breaker, cache, task, got, answer, onChain>>
streamVars == <<head, buffer, known, running, backoff, consecutive429s, poll, given, shown, again>>
MCVars == <<part, vars, dexVars, tokenVars, oracleVars, streamVars, faucetVars>>

Term(price, period, trial, approve) ==
    [merchant |-> m1, price |-> price, period |-> period, trial |-> trial, approve |-> approve]

\* A service without a trial, and one with a trial that is longer than its period.
TwoTerms == {Term(1, 2, 0, 2), Term(2, 2, 4, 2)}

TokenAs == p1 :> x @@ p2 :> y
TokenBs == p1 :> y @@ p2 :> x
SourceWeights == mexc :> 3 @@ okx :> 2 @@ bitget :> 2

\* One pool with two users, and two pools of the same pair behind the router.
OnePool == INSTANCE DexPool WITH
    Users <- {u1, u2}, Tokens <- {x, y, z}, Pools <- {p1}, TokenA <- p1 :> x, TokenB <- p1 :> y,
    Amounts <- 0 .. 3, MaxReserve <- 6, MaxPoolId <- 0
Router == INSTANCE DexPool WITH
    Users <- {u1}, Tokens <- {x, y}, Pools <- {p1, p2}, TokenA <- TokenAs, TokenB <- TokenBs,
    Amounts <- {0, 2}, MaxReserve <- 2, MaxPoolId <- 2

Token == INSTANCE DappToken WITH
    balance <- tokenBalance, allowance <- tokenAllowance, approved <- tokenApproved,
    Users <- {u1, u2}, Amounts <- {-1, 1}, MaxBalance <- 2, MaxAllowance <- 1

\* Three sources; two of the prices differ by more than the breaker allows, and
\* the third is an outlier too.  The price posted by hand is no source's.
Oracle == INSTANCE PriceOracle WITH
    Sources <- {mexc, okx, bitget}, Weight <- SourceWeights, Prices <- {100, 112, 130},
    OutlierPercent <- 10, BreakerPercent <- 5, MinSources <- 2, Pushers <- {push}, Readers <- {api},
    CommittedByHand <- {200}

\* Two overlapping polls: of one feed with pages that overtake each other, and of two
\* feeds one after the other.
Streamer == INSTANCE TransactionStreamer WITH
    Feeds <- <<"transactions">>, Polls <- {poll1, poll2}, Page <- 2, BufferSize <- 7,
    MaxBackoff <- 2, MaxRecord <- 8, MaxLimited <- 1
Feeds == INSTANCE TransactionStreamer WITH
    Feeds <- <<"transactions", "trades">>, Polls <- {poll1, poll2}, Page <- 1, BufferSize <- 3,
    MaxBackoff <- 2, MaxRecord <- 2, MaxLimited <- 3

\* Two requests at a time for the same account.
SameDestination == f1 :> dest @@ f2 :> dest

ASSUME DappsConfig ==
    /\ OnePool!PoolAssumption /\ Router!PoolAssumption /\ Token!TokenAssumption
    /\ Oracle!OracleAssumption /\ Streamer!StreamerAssumption /\ Feeds!StreamerAssumption

\* The variables of the others are not used.
NoDex ==
    /\ reserveA = Unused /\ reserveB = Unused /\ totalShares = Unused /\ share = Unused
    /\ poolById = Unused /\ pairToPool = Unused
NoToken ==
    /\ initialized = Unused /\ tokenBalance = Unused /\ totalSupply = Unused /\ tokenAllowance = Unused
    /\ tokenApproved = Unused /\ spent = Unused
NoOracle ==
    /\ lastCommitted = Unused /\ breaker = Unused /\ cache = Unused /\ task = Unused
    /\ got = Unused /\ answer = Unused /\ onChain = Unused
NoStream ==
    /\ head = Unused /\ buffer = Unused /\ known = Unused /\ running = Unused /\ backoff = Unused
    /\ consecutive429s = Unused /\ poll = Unused /\ given = Unused /\ shown = Unused /\ again = Unused

MCInit ==
    /\ part \in {"subscriptions", "pool", "router", "token", "oracle", "streamer", "feeds", "faucet"}
    /\ Init
    /\ CASE part = "pool" -> OnePool!Init
         [] part = "router" -> Router!Init
         [] OTHER -> NoDex
    /\ IF part = "token" THEN Token!Init ELSE NoToken
    /\ IF part = "oracle" THEN Oracle!Init ELSE NoOracle
    /\ CASE part = "streamer" -> Streamer!Init
         [] part = "feeds" -> Feeds!Init
         [] OTHER -> NoStream
    /\ FaucetInit /\ (part # "faucet" => accounts = {})

Services == <<streamVars, faucetVars>>
Contracts == <<vars, dexVars, tokenVars>>
MCNext ==
    /\ UNCHANGED part
    /\ \/ part = "subscriptions" /\ Next /\ UNCHANGED <<dexVars, tokenVars, oracleVars, Services>>
       \/ part = "pool" /\ OnePool!Next /\ UNCHANGED <<vars, tokenVars, oracleVars, Services>>
       \/ part = "router" /\ Router!Next /\ UNCHANGED <<vars, tokenVars, oracleVars, Services>>
       \/ part = "token" /\ Token!Next /\ UNCHANGED <<vars, dexVars, oracleVars, Services>>
       \/ part = "oracle" /\ Oracle!Next /\ UNCHANGED <<Contracts, Services>>
       \/ part = "streamer" /\ Streamer!Next /\ UNCHANGED <<Contracts, oracleVars, faucetVars>>
       \/ part = "feeds" /\ Feeds!Next /\ UNCHANGED <<Contracts, oracleVars, faucetVars>>
       \/ part = "faucet" /\ FaucetNext /\ UNCHANGED <<Contracts, oracleVars, streamVars>>

MCSpec == MCInit /\ [][MCNext]_MCVars

-----------------------------------------------------------------------------
\* Swaps do not cost the pool anything, nor do others who add or remove liquidity cost a
\* share, under any sequence of calls with amounts of 0 and more (ProductNeverFalls,
\* ShareKeepsValue).
PoolKeepsValue == [][part = "pool" => OnePool!ProductNeverFalls /\ OnePool!ShareKeepsValue]_dexVars

\* Merchants receive what subscribers pay; the total of a pool counts every share that is
\* held and at most one that is not; no token is lost or exists twice, and a spender stays
\* within the last approval, for amounts of either sign; the router serves a pair alike in
\* both directions (Revenue, SharesAddUp, SupplyIsSum, WithinApproval, PairsAreServed).
BooksBalance ==
    /\ part = "subscriptions" => Revenue
    /\ part = "pool" => OnePool!TypeOK /\ OnePool!SharesAddUp
    /\ part = "router" => Router!TypeOK /\ Router!PairsAreServed
    /\ part = "token" => Token!TypeOK /\ Token!SupplyIsSum /\ Token!WithinApproval

\* A price that is answered or committed is one the sources can have given or one posted
\* by hand, also when the breaker falls back, and a cached one is the sources'; overlapping
\* polls take each record over once and show it (AnswersInRange, BuffersHold,
\* BackoffIsCounted).
ServicesKeepTrack ==
    /\ part = "oracle" => Oracle!TypeOK /\ Oracle!AnswersInRange
    /\ part = "streamer" => Streamer!TypeOK /\ Streamer!BuffersHold /\ Streamer!BackoffIsCounted
    /\ part = "feeds" => Feeds!TypeOK /\ Feeds!BuffersHold /\ Feeds!BackoffIsCounted

\* Polls and requests are alike.
Symmetry == Permutations({poll1, poll2}) \union Permutations({f1, f2})
=============================================================================
