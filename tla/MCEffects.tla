----------------------------- MODULE MCEffects -----------------------------
(***************************************************************************)
(* The operations whose effects TLC follows, in four groups: what they     *)
(* exercise together is in one group, the rest is left out of it.          *)
(***************************************************************************)
EXTENDS LedgerOps, TLC

CONSTANTS alice, bob, carol, issuer, token, signKey, xlm, usd, lp, id1, id2

Held(v) == [NewLine(9, {"auth"}) EXCEPT !.bal = v]
Base == (Acc(alice) :> NewAccount(3)) @@ (Acc(bob) :> NewAccount(1)) @@ (Acc(issuer) :> NewAccount(1))
Op(type, from) == [type |-> type, source |-> from, by |-> None]
Pay(from, to, asset) == Op("payment", from) @@ [to |-> to, asset |-> asset, amount |-> 1]
Claim(seller, from, for) == [seller |-> seller, from |-> from, sold |-> 1, for |-> for, bought |-> 2]
Options(from) == Op("set_options", from) @@ [home |-> None, low |-> -1, set |-> {}, clear |-> {}, signer |-> None, weight |-> 0]
Trust(from, asset, limit) == Op("change_trust", from) @@ [asset |-> asset, limit |-> limit]
Event(type, from, to, asset) == [type |-> type, from |-> from, to |-> to, asset |-> asset, amount |-> 1]
Invoke(ev, trust) == Op("invoke", alice) @@ [event |-> ev, trust |-> trust]
By(op, sp) == [op EXCEPT !.by = sp]

Payments ==
  [first |-> Base @@ (Line(alice, usd) :> Held(1)) @@ (Line(bob, usd) :> Held(2)) @@ (Line(token, xlm) :> Held(1)) @@ (Line(token, usd) :> Held(0))
             @@ (Lp(lp) :> [a |-> 3, b |-> 3, shares |-> 3, lines |-> 1]),
   ops |-> {Pay(alice, bob, xlm), Pay(issuer, alice, usd), Pay(bob, issuer, usd),
            Op("create_account", alice) @@ [to |-> carol, amount |-> 1], By(Op("create_account", alice), bob) @@ [to |-> carol, amount |-> 1],
            Op("merge", carol) @@ [to |-> bob], Op("inflation", alice) @@ [to |-> bob, amount |-> 1],
            Op("offer", alice) @@ [claim |-> Claim(bob, usd, xlm)],
            Op("path_payment", alice) @@ [to |-> bob, claim |-> Claim(bob, usd, xlm)],
            Op("path_payment", alice) @@ [to |-> alice, claim |-> Claim(lp, usd, xlm)],
            Invoke(Event("transfer", alice, carol, xlm), None), Invoke(Event("transfer", token, bob, xlm), None),
            Invoke(Event("mint", issuer, token, usd), None), Invoke(Event("burn", token, issuer, usd), None),
            Invoke(Event("clawback", bob, issuer, usd), None), Invoke(Event("none", alice, alice, usd), bob)}]

Accounts ==
  [first |-> Base,
   ops |-> {[Options(alice) EXCEPT !.signer = signKey, !.weight = 1], [Options(alice) EXCEPT !.signer = signKey, !.weight = 2, !.by = bob],
            [Options(alice) EXCEPT !.signer = signKey], [Options(alice) EXCEPT !.home = "home", !.low = 2, !.set = {"required"}],
            [Options(alice) EXCEPT !.clear = {"required"}, !.low = 0],
            Op("data", alice) @@ [name |-> "d", value |-> 1], By(Op("data", alice), bob) @@ [name |-> "d", value |-> 2],
            Op("data", alice) @@ [name |-> "d", value |-> None], Op("bump", alice) @@ [to |-> 2],
            Op("revoke_signer", bob) @@ [to |-> alice, signer |-> signKey], By(Op("revoke_signer", bob), issuer) @@ [to |-> alice, signer |-> signKey],
            Op("merge", alice) @@ [to |-> bob], By(Op("create_account", bob), bob) @@ [to |-> alice, amount |-> 1],
            Op("revoke", bob) @@ [key |-> Acc(alice)], By(Op("revoke", bob), issuer) @@ [key |-> Acc(alice)]}]

Lines ==
  [first |-> Base @@ (Line(alice, usd) :> Held(2)),
   ops |-> {By(Trust(bob, usd, 2), alice), Trust(bob, usd, 3), Trust(bob, usd, 0), Trust(alice, lp, 9), Trust(alice, lp, 0),
            Op("deposit", alice) @@ [pool |-> lp, amount |-> 1], Op("withdraw", alice) @@ [pool |-> lp, amount |-> 1],
            Op("allow_trust", issuer) @@ [to |-> alice, asset |-> usd, set |-> {}, ids |-> <<id1, id2>>],
            Op("allow_trust", issuer) @@ [to |-> alice, asset |-> usd, set |-> {"auth"}, ids |-> <<id1, id2>>],
            Op("set_flags", issuer) @@ [to |-> alice, asset |-> usd, set |-> {"maintain"}, clear |-> {"auth"}, ids |-> <<id1, id2>>],
            Op("set_flags", issuer) @@ [to |-> bob, asset |-> usd, set |-> {}, clear |-> {"auth", "maintain"}, ids |-> <<id1, id2>>],
            [Options(issuer) EXCEPT !.set = {"required", "clawback"}],
            Op("revoke", alice) @@ [key |-> Line(bob, usd)], By(Op("revoke", alice), issuer) @@ [key |-> Line(bob, usd)]}]

Balances ==
  [first |-> Base @@ (Line(alice, usd) :> [Held(2) EXCEPT !.flags = @ \cup {"clawback"}]),
   ops |-> {Op("create_balance", alice) @@ [id |-> id1, asset |-> usd, amount |-> 1, claimants |-> {alice, bob}],
            By(Op("create_balance", issuer), bob) @@ [id |-> id2, asset |-> usd, amount |-> 1, claimants |-> {alice}],
            Op("claim", alice) @@ [id |-> id1], Op("claim", alice) @@ [id |-> id2], Op("claim", bob) @@ [id |-> id1],
            Op("clawback_balance", issuer) @@ [id |-> id1], Op("clawback", issuer) @@ [to |-> alice, asset |-> usd, amount |-> 1],
            By(Op("revoke", bob), issuer) @@ [key |-> Cb(id2)], By(Op("revoke", alice), bob) @@ [key |-> Cb(id1)]}]
EffectGroups == [payments |-> Payments, accounts |-> Accounts, lines |-> Lines, balances |-> Balances]
=============================================================================
