----------------------------- MODULE LedgerOps -----------------------------
(***************************************************************************)
(* The ledger and what the operations of the network do to it, as far as   *)
(* Horizon's effects depend on it.  External: this is stellar-core's part, *)
(* modelled from what ingest/processors reads in operations, results and   *)
(* ledger-entry changes.                                                   *)
(*                                                                         *)
(* A ledger is a function from keys to entries.  The holding of a contract *)
(* is kept like a trust line.                                              *)
(***************************************************************************)
EXTENDS Integers, FiniteSets, Sequences, Functions, SequencesExt

CONSTANTS Native,   \* the native asset
          Issuer,   \* credit asset -> issuing account
          Pool,     \* pool -> <<asset, asset>>
          Contract, \* the addresses that are contracts
          None      \* nothing

Acc(a)      == <<"account", a>>
Line(a, x)  == <<"trust", a, x>>
Datum(a, n) == <<"data", a, n>>
Cb(id)      == <<"balance", id>>
Lp(p)       == <<"pool", p>>

NewAccount(n) == [native |-> n, seq |-> 0, home |-> None, low |-> 0, flags |-> {},
                  signers |-> <<>>, sponsors |-> <<>>, sponsor |-> None]
NewLine(limit, flags) == [bal |-> 0, limit |-> limit, flags |-> flags, uses |-> 0, sponsor |-> None]

Set(f, k, v) == (k :> v) @@ f
Drop(f, k) == Restrict(f, DOMAIN f \ {k})


\* Balance moves.  An issuer's holding of its own asset is unlimited.
Unbounded(a, x) == x \in DOMAIN Issuer /\ Issuer[x] = a
Holding(a, x) == IF x = Native /\ a \notin Contract THEN Acc(a) ELSE Line(a, x)
Move(l, a, x, n) ==
  IF Unbounded(a, x) \/ Holding(a, x) \notin DOMAIN l THEN l
  ELSE IF Holding(a, x) = Acc(a) THEN [l EXCEPT ![Acc(a)].native = @ + n]
  ELSE [l EXCEPT ![Line(a, x)].bal = @ + n]
Allowed(l, a, x) ==
  Unbounded(a, x) \/ (/\ Holding(a, x) \in DOMAIN l
                      /\ x \in DOMAIN Issuer => "auth" \in l[Line(a, x)].flags)
Has(l, a, x, n) ==
  Allowed(l, a, x) /\ (Unbounded(a, x) \/ (IF Holding(a, x) = Acc(a) THEN l[Acc(a)].native
                                           ELSE l[Line(a, x)].bal) >= n)

LineFlags(l, x) ==
  LET f == l[Acc(Issuer[x])].flags
  IN  (IF "required" \in f THEN {} ELSE {"auth"}) \cup (IF "clawback" \in f THEN {"clawback"} ELSE {})

\* A claim: the buyer receives c.sold of c.from and gives c.bought of c.for.
Cross(l, c) ==
  IF c.seller \in DOMAIN Pool
  THEN [l EXCEPT ![Lp(c.seller)].a = @ + (IF Pool[c.seller][1] = c.for THEN c.bought ELSE 0 - c.sold),
                 ![Lp(c.seller)].b = @ + (IF Pool[c.seller][1] = c.for THEN 0 - c.sold ELSE c.bought)]
  ELSE Move(Move(l, c.seller, c.from, 0 - c.sold), c.seller, c.for, c.bought)
Crossable(l, c) ==
  IF c.seller \in DOMAIN Pool
  THEN /\ Lp(c.seller) \in DOMAIN l
       /\ (IF Pool[c.seller][1] = c.from THEN l[Lp(c.seller)].a ELSE l[Lp(c.seller)].b) > c.sold
  ELSE Has(l, c.seller, c.from, c.sold) /\ Allowed(l, c.seller, c.for)

\* The pool's entry, and the lines it is used by, when account a joins or leaves.
Uses(l, a, p, n) ==
  [k \in DOMAIN l |-> IF \E i \in 1..2 : k = Line(a, Pool[p][i]) THEN [l[k] EXCEPT !.uses = @ + n] ELSE l[k]]
Joined(l, a, p) ==
  LET u == Uses(l, a, p, 1)
  IN  IF Lp(p) \in DOMAIN l THEN [u EXCEPT ![Lp(p)].lines = @ + 1]
      ELSE Set(u, Lp(p), [a |-> 0, b |-> 0, shares |-> 0, lines |-> 1])
Left(l, a, p) ==
  LET u == Drop(Uses(l, a, p, -1), Line(a, p))
  IN  IF l[Lp(p)].lines = 1 THEN Drop(u, Lp(p)) ELSE [u EXCEPT ![Lp(p)].lines = @ - 1]

\* Revoking the authorization of a line redeems the pool shares of its holder
\* into claimable balances.  A holder of an empty share line is not revoked here:
\* no effect tells what becomes of that line.
SharesOf(l, a, x) == {p \in DOMAIN Pool : x \in {Pool[p][1], Pool[p][2]} /\ Line(a, p) \in DOMAIN l}
Redeemed(l, a, p, ids) ==
  LET n == l[Line(a, p)].bal
      paid == [l EXCEPT ![Lp(p)].a = @ - n, ![Lp(p)].b = @ - n, ![Lp(p)].shares = @ - n]
      cb(i) == [asset |-> Pool[p][i], amount |-> n, claimants |-> {a}, sponsor |-> None]
  IN  Set(Set(Left(paid, a, p), Cb(ids[1]), cb(1)), Cb(ids[2]), cb(2))
SetFlags(l, op, on, off) ==
  LET k == Line(op.to, op.asset)
      m == [l EXCEPT ![k].flags = (@ \cup on) \ off]
      ps == SharesOf(l, op.to, op.asset)
  IN  IF k \notin DOMAIN l THEN {}
      ELSE IF m[k].flags \cap {"auth", "maintain"} # {} \/ ps = {} THEN {m}
      ELSE {Redeemed(m, op.to, p, op.ids) : p \in {q \in ps : l[Line(op.to, q)].bal > 0}}

\* The ledgers operation op can leave behind; none when it fails.
Apply(l, op) ==
  LET s == op.source
      if(ok, m) == IF ok THEN {m} ELSE {}
      t == op.type
  IN IF Acc(s) \notin DOMAIN l THEN {} ELSE
     CASE t = "create_account" ->
            IF Acc(op.to) \in DOMAIN l \/ ~Has(l, s, Native, op.amount) THEN {}
            ELSE {Set(Move(l, s, Native, 0 - op.amount), Acc(op.to),
                      [NewAccount(op.amount) EXCEPT !.signers = op.to :> 1, !.sponsor = op.by])}
       [] t = "payment" ->
            IF Has(l, s, op.asset, op.amount) /\ Allowed(l, op.to, op.asset)
            THEN {Move(Move(l, s, op.asset, 0 - op.amount), op.to, op.asset, op.amount)} ELSE {}
       [] t = "path_payment" ->
            IF /\ Crossable(l, op.claim) /\ Has(l, s, op.claim.for, op.claim.bought)
               /\ Allowed(l, op.to, op.claim.from)
            THEN {Move(Move(Cross(l, op.claim), s, op.claim.for, 0 - op.claim.bought),
                       op.to, op.claim.from, op.claim.sold)} ELSE {}
       [] t = "offer" ->
            IF /\ Crossable(l, op.claim) /\ Has(l, s, op.claim.for, op.claim.bought)
               /\ Allowed(l, s, op.claim.from) /\ s # op.claim.seller
            THEN {Move(Move(Cross(l, op.claim), s, op.claim.for, 0 - op.claim.bought),
                       s, op.claim.from, op.claim.sold)} ELSE {}
       [] t = "set_options" ->
            LET e == l[Acc(s)]
                w == IF op.signer = None THEN e.signers
                     ELSE IF op.weight = 0 THEN Drop(e.signers, op.signer)
                     ELSE Set(e.signers, op.signer, op.weight)
                p == IF op.signer = None \/ op.signer \in DOMAIN e.signers
                     THEN Restrict(e.sponsors, DOMAIN w \cap DOMAIN e.sponsors)
                     ELSE IF op.by = None \/ op.weight = 0 THEN e.sponsors
                     ELSE Set(e.sponsors, op.signer, op.by)
            IN  {[l EXCEPT ![Acc(s)] =
                   [e EXCEPT !.signers = w, !.sponsors = p, !.flags = (@ \cup op.set) \ op.clear,
                             !.home = IF op.home = None THEN @ ELSE op.home,
                             !.low = IF op.low = -1 THEN @ ELSE op.low]]}
       [] t = "change_trust" ->
            LET k == Line(s, op.asset)
                isPool == op.asset \in DOMAIN Pool
            IN  IF k \notin DOMAIN l
                THEN if(/\ op.limit > 0
                        /\ isPool => \A i \in 1..2 : Allowed(l, s, Pool[op.asset][i]),
                        IF isPool
                        THEN Set(Joined(l, s, op.asset), k, [NewLine(op.limit, {}) EXCEPT !.sponsor = op.by])
                        ELSE Set(l, k, [NewLine(op.limit, LineFlags(l, op.asset)) EXCEPT !.sponsor = op.by]))
                ELSE IF op.limit > 0 THEN {[l EXCEPT ![k].limit = op.limit]}
                ELSE if(l[k].bal = 0 /\ l[k].uses = 0,
                        IF isPool THEN Left(l, s, op.asset) ELSE Drop(l, k))
       [] t = "allow_trust" -> SetFlags(l, op, op.set, {"auth", "maintain"} \ op.set)
       [] t = "set_flags" -> SetFlags(l, op, op.set, op.clear)
       [] t = "merge" ->
            IF Acc(op.to) \notin DOMAIN l \/ \E k \in DOMAIN l : k[1] \in {"trust", "data"} /\ k[2] = s
            THEN {} ELSE {Drop(Move(l, op.to, Native, l[Acc(s)].native), Acc(s))}
       [] t = "data" ->
            LET k == Datum(s, op.name)
            IN  IF op.value = None THEN if(k \in DOMAIN l, Drop(l, k))
                ELSE IF k \in DOMAIN l THEN {[l EXCEPT ![k].value = op.value]}
                ELSE {Set(l, k, [value |-> op.value, sponsor |-> op.by])}
       [] t = "bump" -> {[l EXCEPT ![Acc(s)].seq = IF @ < op.to THEN op.to ELSE @]}
       [] t = "create_balance" ->
            IF Cb(op.id) \notin DOMAIN l /\ Has(l, s, op.asset, op.amount)
            THEN {Set(Move(l, s, op.asset, 0 - op.amount), Cb(op.id),
                      [asset |-> op.asset, amount |-> op.amount, claimants |-> op.claimants,
                       sponsor |-> IF op.by = None THEN s ELSE op.by])} ELSE {}
       [] t \in {"claim", "clawback_balance"} ->
            IF Cb(op.id) \notin DOMAIN l THEN {}
            ELSE LET cb == l[Cb(op.id)]
                 IN  IF t = "clawback_balance" THEN if(Issuer[cb.asset] = s, Drop(l, Cb(op.id)))
                     ELSE if(s \in cb.claimants /\ Allowed(l, s, cb.asset),
                             Drop(Move(l, s, cb.asset, cb.amount), Cb(op.id)))
       [] t = "clawback" ->
            IF Has(l, op.to, op.asset, op.amount) /\ "clawback" \in l[Line(op.to, op.asset)].flags
            THEN {Move(l, op.to, op.asset, 0 - op.amount)} ELSE {}
       [] t \in {"deposit", "withdraw"} ->
            LET n == IF t = "deposit" THEN op.amount ELSE 0 - op.amount
            IN  IF /\ Line(s, op.pool) \in DOMAIN l /\ l[Line(s, op.pool)].bal + n >= 0
                   /\ \A i \in 1..2 : Has(l, s, Pool[op.pool][i], n)
                   /\ n < 0 => l[Lp(op.pool)].a >= op.amount /\ l[Lp(op.pool)].b >= op.amount
                THEN LET m == [l EXCEPT ![Lp(op.pool)].a = @ + n, ![Lp(op.pool)].b = @ + n,
                                        ![Lp(op.pool)].shares = @ + n, ![Line(s, op.pool)].bal = @ + n]
                     IN  {Move(Move(m, s, Pool[op.pool][1], 0 - n), s, Pool[op.pool][2], 0 - n)}
                ELSE {}
       [] t = "revoke" ->
            if(op.key \in DOMAIN l /\ l[op.key].sponsor = s /\ (op.by # None \/ op.key[1] # "balance"),
               [l EXCEPT ![op.key].sponsor = op.by])
       [] t = "revoke_signer" ->
            IF Acc(op.to) \notin DOMAIN l THEN {}
            ELSE LET sp == l[Acc(op.to)].sponsors
                 IN  IF op.signer \notin DOMAIN sp \/ sp[op.signer] # s THEN {}
                     ELSE {[l EXCEPT ![Acc(op.to)].sponsors =
                              IF op.by = None THEN Drop(@, op.signer) ELSE Set(@, op.signer, op.by)]}
       [] t = "invoke" ->
            LET ev  == op.event
                in  == ev.type \in {"transfer", "mint"}
                out == ev.type \in {"transfer", "burn", "clawback"}
                m   == IF in /\ ev.asset = Native /\ Holding(ev.to, Native) \notin DOMAIN l
                       THEN Set(l, Acc(ev.to), [NewAccount(0) EXCEPT !.signers = ev.to :> 1]) ELSE l
                n   == IF op.trust # None /\ Line(op.trust, ev.asset) \notin DOMAIN l
                       THEN Set(m, Line(op.trust, ev.asset), NewLine(9, LineFlags(l, ev.asset))) ELSE m
                d   == IF out THEN Move(n, ev.from, ev.asset, 0 - ev.amount) ELSE n
            IN  if(/\ out => Has(n, ev.from, ev.asset, ev.amount)
                   /\ in => Allowed(n, ev.to, ev.asset),
                   IF in THEN Move(d, ev.to, ev.asset, ev.amount) ELSE d)
       [] t = "inflation" -> if(Acc(op.to) \in DOMAIN l, Move(l, op.to, Native, op.amount))
=============================================================================
