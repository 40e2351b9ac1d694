----------------------------- MODULE DappToken -----------------------------
(***************************************************************************)
(* The fungible token contract of pi-dapp-suite.  A call that panics is no *)
(* step.  Amounts are signed (i128) and no call checks their sign, so      *)
(* balances and allowances are signed too.                                 *)
(***************************************************************************)
EXTENDS Integers, Functions

CONSTANTS Users, Amounts, MaxBalance, MaxAllowance

TokenAssumption == Amounts \subseteq Int /\ MaxBalance \in Nat /\ MaxAllowance \in Nat

VARIABLES
    initialized, balance, totalSupply,
    allowance,                  \* allowance[owner][spender]
    approved, spent             \* ghosts: the last approval, and what was spent of it

vars == <<initialized, balance, totalSupply, allowance, approved, spent>>

\* Bounds of the model, on both sides.
Within(n, max) == -max <= n /\ n <= max

NoneYet == [o \in Users |-> [s \in Users |-> 0]]

Init ==
    /\ initialized = FALSE
    /\ balance = [u \in Users |-> 0]
    /\ totalSupply = 0
    /\ allowance = NoneYet /\ approved = NoneYet /\ spent = NoneYet

Initialize ==
    /\ ~initialized
    /\ initialized' = TRUE
    /\ totalSupply' = 0
    /\ UNCHANGED <<balance, allowance, approved, spent>>

Mint(to, amount) ==
    /\ initialized
    /\ Within(balance[to] + amount, MaxBalance)
    /\ balance' = [balance EXCEPT ![to] = @ + amount]
    /\ totalSupply' = totalSupply + amount
    /\ UNCHANGED <<initialized, allowance, approved, spent>>

\* The balance of the receiver is read after that of the sender is written.
MovedReadingFirst(from, to, amount) ==
    [[balance EXCEPT ![from] = @ - amount] EXCEPT ![to] = balance[to] + amount]

Moved(from, to, amount) == [[balance EXCEPT ![from] = @ - amount] EXCEPT ![to] = @ + amount]

Transfer(from, to, amount) ==
    /\ initialized
    /\ balance[from] >= amount
    /\ Within(balance[from] - amount, MaxBalance) /\ Within(balance[to] + amount, MaxBalance)
    /\ balance' = Moved(from, to, amount)
    /\ UNCHANGED <<initialized, totalSupply, allowance, approved, spent>>

Approve(owner, spender, amount) ==
    /\ initialized
    /\ allowance' = [allowance EXCEPT ![owner][spender] = amount]
    /\ approved' = [approved EXCEPT ![owner][spender] = amount]
    /\ spent' = [spent EXCEPT ![owner][spender] = 0]
    /\ UNCHANGED <<initialized, balance, totalSupply>>

TransferFromKeepsAllowance(spender, from, to, amount) ==
    /\ initialized
    /\ allowance[from][spender] >= amount /\ balance[from] >= amount
    /\ Within(balance[from] - amount, MaxBalance) /\ Within(balance[to] + amount, MaxBalance)
    /\ allowance[from][spender] - amount <= MaxAllowance
    /\ spent' = [spent EXCEPT ![from][spender] = @ + amount]
    /\ balance' = Moved(from, to, amount)
    /\ UNCHANGED <<initialized, totalSupply, allowance, approved>>

TransferFrom(spender, from, to, amount) ==
    /\ initialized
    /\ allowance[from][spender] >= amount /\ balance[from] >= amount
    /\ Within(balance[from] - amount, MaxBalance) /\ Within(balance[to] + amount, MaxBalance)
    /\ allowance[from][spender] - amount <= MaxAllowance
    /\ allowance' = [allowance EXCEPT ![from][spender] = @ - amount]
    /\ spent' = [spent EXCEPT ![from][spender] = @ + amount]
    /\ balance' = Moved(from, to, amount)
    /\ UNCHANGED <<initialized, totalSupply, approved>>

Next ==
    \/ Initialize
    \/ \E u, v \in Users, n \in Amounts :
          Mint(u, n) \/ Transfer(u, v, n) \/ Approve(u, v, n) \/ \E w \in Users : TransferFrom(w, u, v, n)

Spec == Init /\ [][Next]_vars

-----------------------------------------------------------------------------
TypeOK ==
    /\ initialized \in BOOLEAN /\ totalSupply \in Int
    /\ balance \in [Users -> Int]
    /\ allowance \in [Users -> [Users -> Int]]

\* The supply is what the balances add up to, whoever transfers to whom,
\* an account to itself included.
SupplyIsSum == totalSupply = FoldFunction(+, 0, balance)

\* Between two approvals the transfers of a spender add up to no more than the first of
\* them, and what is left is what the allowance says.  (A negative allowance allows the
\* transfers of even less.)
WithinApproval ==
    \A o, s \in Users :
        /\ spent[o][s] <= approved[o][s] \/ (approved[o][s] < 0 /\ spent[o][s] = 0)
        /\ allowance[o][s] = approved[o][s] - spent[o][s]
=============================================================================
