------------------------------ MODULE DexPool ------------------------------
(***************************************************************************)
(* The liquidity pool and router contracts of pi-dapp-suite.  A call runs  *)
(* alone and takes effect as a whole or, when it panics, not at all, so a  *)
(* failing call is no step.  The calls take an i128 and check no sign; the *)
(* model covers the calls with amounts of 0 and more, and what it says is  *)
(* said of those only (PoolAssumption).                                    *)
(***************************************************************************)
EXTENDS Integers, Sequences, Functions

CONSTANTS
    Users, Tokens,
    Pools, TokenA, TokenB,      \* the pool contracts and their tokens
    Amounts,                    \* arguments of the calls
    NoPool,
    MaxReserve, MaxPoolId       \* bounds

\* The calls that are modelled: with no negative amount.
PoolAssumption ==
    Amounts \subseteq Nat /\ TokenA \in [Pools -> Tokens] /\ TokenB \in [Pools -> Tokens]

VARIABLES
    reserveA, reserveB, totalShares,    \* of each pool
    share,                              \* share[p][u]
    poolById, pairToPool                \* of the router

vars == <<reserveA, reserveB, totalShares, share, poolById, pairToPool>>

Init ==
    /\ reserveA = [p \in Pools |-> 0] /\ reserveB = [p \in Pools |-> 0]
    /\ totalShares = [p \in Pools |-> 0]
    /\ share = [p \in Pools |-> [u \in Users |-> 0]]
    /\ poolById = <<>>
    /\ pairToPool = [a \in Tokens |-> [b \in Tokens |-> 0]]

Smaller(x, y) == IF x < y THEN x ELSE y
Larger(x, y) == IF x > y THEN x ELSE y

-----------------------------------------------------------------------------
MintedByLarger(p, a, b) ==
    IF totalShares[p] = 0 THEN a + b
    ELSE Larger((a * totalShares[p]) \div Larger(reserveA[p], 1), (b * totalShares[p]) \div Larger(reserveB[p], 1))

Minted(p, a, b) ==
    IF totalShares[p] = 0 THEN a + b
    ELSE Smaller((a * totalShares[p]) \div Larger(reserveA[p], 1), (b * totalShares[p]) \div Larger(reserveB[p], 1))

AddLiquidity(p, u, a, b) ==
    /\ reserveA[p] + a <= MaxReserve /\ reserveB[p] + b <= MaxReserve
    /\ reserveA' = [reserveA EXCEPT ![p] = @ + a]
    /\ reserveB' = [reserveB EXCEPT ![p] = @ + b]
    /\ totalShares' = [totalShares EXCEPT ![p] = @ + Minted(p, a, b)]
    /\ share' = [share EXCEPT ![p][u] = @ + Minted(p, a, b)]
    /\ UNCHANGED <<poolById, pairToPool>>

\* What a share is worth, rounded down.
Value(reserve, s, total) == (reserve * s) \div total

RemoveUnchecked(p, u, s) ==
    LET total == Larger(totalShares[p], 1)
    IN  /\ share' = [share EXCEPT ![p][u] = @ - s]
        /\ reserveA' = [reserveA EXCEPT ![p] = @ - Value(@, s, total)]
        /\ reserveB' = [reserveB EXCEPT ![p] = @ - Value(@, s, total)]
        /\ totalShares' = [totalShares EXCEPT ![p] = total - s]
        /\ UNCHANGED <<poolById, pairToPool>>

RemoveForgetsTotal(p, u, s) ==
    LET total == Larger(totalShares[p], 1)
    IN  /\ s <= share[p][u]
        /\ share' = [share EXCEPT ![p][u] = @ - s]
        /\ reserveA' = [reserveA EXCEPT ![p] = @ - Value(@, s, total)]
        /\ reserveB' = [reserveB EXCEPT ![p] = @ - Value(@, s, total)]
        /\ UNCHANGED <<totalShares, poolById, pairToPool>>

RemoveLiquidity(p, u, s) ==
    LET total == Larger(totalShares[p], 1)
    IN  /\ s <= share[p][u]
        /\ share' = [share EXCEPT ![p][u] = @ - s]
        /\ reserveA' = [reserveA EXCEPT ![p] = @ - Value(@, s, total)]
        /\ reserveB' = [reserveB EXCEPT ![p] = @ - Value(@, s, total)]
        /\ totalShares' = [totalShares EXCEPT ![p] = total - s]
        /\ UNCHANGED <<poolById, pairToPool>>

-----------------------------------------------------------------------------
\* quote_in, for a token of the pool; what comes out for what goes in.
OutIgnoringInput(in, reserveIn, reserveOut) ==
    LET inWithFee == (in * 997) \div 1000
    IN  IF reserveIn = 0 \/ reserveOut = 0 THEN 0 ELSE (inWithFee * reserveOut) \div reserveIn

Out(in, reserveIn, reserveOut) ==
    LET inWithFee == (in * 997) \div 1000
    IN  IF reserveIn = 0 \/ reserveOut = 0 THEN 0
        ELSE (inWithFee * reserveOut) \div (reserveIn + inWithFee)

QuoteIn(p, token, in) ==
    IF token = TokenA[p] THEN Out(in, reserveA[p], reserveB[p]) ELSE Out(in, reserveB[p], reserveA[p])

\* A pool that lacks a reserve quotes 0 before it looks at the token; it takes what it is
\* given, of a token that it does not trade too, which counts as its second.
SwapIn(p, token, in, minOut) ==
    LET out == QuoteIn(p, token, in)
    IN  /\ token \in {TokenA[p], TokenB[p]} \/ reserveA[p] = 0 \/ reserveB[p] = 0
        /\ out >= minOut
        /\ IF token = TokenA[p]
           THEN /\ reserveA[p] + in <= MaxReserve
                /\ reserveA' = [reserveA EXCEPT ![p] = @ + in]
                /\ reserveB' = [reserveB EXCEPT ![p] = @ - out]
           ELSE /\ reserveB[p] + in <= MaxReserve
                /\ reserveB' = [reserveB EXCEPT ![p] = @ + in]
                /\ reserveA' = [reserveA EXCEPT ![p] = @ - out]
        /\ UNCHANGED <<totalShares, share, poolById, pairToPool>>

-----------------------------------------------------------------------------
\* The router: its admin registers any contract for any pair; the last one serves it both ways.
RegisterOneWay(a, b, p) ==
    /\ Len(poolById) < MaxPoolId
    /\ poolById' = Append(poolById, p)
    /\ pairToPool' = [pairToPool EXCEPT ![a][b] = Len(poolById) + 1]
    /\ UNCHANGED <<reserveA, reserveB, totalShares, share>>

RegisterPool(a, b, p) ==
    /\ Len(poolById) < MaxPoolId
    /\ poolById' = Append(poolById, p)
    /\ pairToPool' = [pairToPool EXCEPT ![a][b] = Len(poolById) + 1, ![b][a] = Len(poolById) + 1]
    /\ UNCHANGED <<reserveA, reserveB, totalShares, share>>

GetPoolForPair(a, b) == IF pairToPool[a][b] = 0 THEN NoPool ELSE poolById[pairToPool[a][b]]

SwapExactIn(a, b, in, minOut) ==
    /\ GetPoolForPair(a, b) # NoPool
    /\ SwapIn(GetPoolForPair(a, b), a, in, minOut)

Next ==
    \/ \E p \in Pools, u \in Users :
          \/ \E a, b \in Amounts : AddLiquidity(p, u, a, b)
          \/ \E s \in 0 .. totalShares[p] : RemoveLiquidity(p, u, s)
    \/ \E p \in Pools, t \in Tokens, in, minOut \in Amounts : SwapIn(p, t, in, minOut)
    \/ \E a, b \in Tokens, p \in Pools : RegisterPool(a, b, p)
    \/ \E a, b \in Tokens, in, minOut \in Amounts : SwapExactIn(a, b, in, minOut)

Spec == Init /\ [][Next]_vars

-----------------------------------------------------------------------------
TypeOK ==
    /\ reserveA \in [Pools -> Nat] /\ reserveB \in [Pools -> Nat] /\ totalShares \in [Pools -> Nat]
    /\ share \in [Pools -> [Users -> Nat]]

SumOfShares(p) == FoldFunction(+, 0, share[p])

\* The total is the sum of the shares, or one more: removing nothing from an empty pool
\* counts a share that nobody holds (max(1) in remove_liquidity).  That happens once and
\* is never multiplied, and no share that is held is missing from the total.
SharesAddUp == \A p \in Pools : totalShares[p] - SumOfShares(p) \in {0, 1}

\* A swap never lowers the product of the reserves.
ProductNeverFalls ==
    totalShares' = totalShares =>
        \A p \in Pools : reserveA'[p] * reserveB'[p] >= reserveA[p] * reserveB[p]

\* What remains behind a share never falls when others add or remove liquidity.
ShareKeepsValue ==
    \A p \in Pools : SumOfShares(p) > 0 /\ totalShares'[p] # totalShares[p] =>
        /\ reserveA'[p] * totalShares[p] >= reserveA[p] * totalShares'[p]
        /\ reserveB'[p] * totalShares[p] >= reserveB[p] * totalShares'[p]

\* The router serves both directions of a pair from the same pool, whatever was registered
\* before for it, for a token with itself, or for other pairs.
PairsAreServed == \A a, b \in Tokens : GetPoolForPair(a, b) = GetPoolForPair(b, a)
=============================================================================
