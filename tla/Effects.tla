------------------------------ MODULE Effects ------------------------------
(***************************************************************************)
(* The effects of operations (ingest/processors/effects_processor.go): the *)
(* rows of history_effects that tell a client what each successful         *)
(* operation did to accounts, signers, trust lines, data, claimable        *)
(* balances, liquidity pools and sponsorships.                             *)
(*                                                                         *)
(* The processor sees an operation op, its result, and the ledgers l and m *)
(* before and after it (the changes are the keys they differ in), and      *)
(* writes a sequence of effects.  told is what a reader of the effects and *)
(* the operations alone believes the ledger to be.                         *)
(***************************************************************************)
EXTENDS LedgerOps

CONSTANTS Groups, \* name -> [first |-> ledger, ops |-> set of operations]
          MaxOps  \* operations in a behaviour

VARIABLES group, core, told, count

vars == <<group, core, told, count>>

\* effectsWrapper.add: an effect with the account it is listed under, its type and
\* its details.  The order is its place in the sequence.
E(a, type, d) == [account |-> a, type |-> type, d |-> d]
Amount(x, n) == [asset |-> x, amount |-> n]

\* GetOperationChanges, of one kind of entry.
Changes(l, m, kind) ==
  SetToSeq({k \in DOMAIN l \cup DOMAIN m :
              k[1] = kind /\ ~(k \in DOMAIN l /\ k \in DOMAIN m /\ l[k] = m[k])})
Created(l, m, k) == k \notin DOMAIN l
Removed(l, m, k) == k \notin DOMAIN m
After(l, m, k) == IF k \in DOMAIN m THEN m[k] ELSE l[k]
When(cond, effects) == IF cond THEN effects ELSE <<>>

-----------------------------------------------------------------------------
(* Effects every operation may have.                                       *)

\* The signers that have a sponsor before or after, in addSignerSponsorshipEffects.
addSignerSponsorshipEffects(l, m, k) ==
  LET pre  == IF k \in DOMAIN l THEN l[k].sponsors ELSE <<>>
      post == IF k \in DOMAIN m THEN m[k].sponsors ELSE <<>>
      one(s) ==
        CASE s \notin DOMAIN pre -> <<E(k[2], "signer_sponsorship_created", [signer |-> s, sponsor |-> post[s]])>>
          [] s \notin DOMAIN post -> <<E(k[2], "signer_sponsorship_removed", [signer |-> s])>>
          [] pre[s] = post[s] -> <<>>
          [] OTHER -> <<E(k[2], "signer_sponsorship_updated", [signer |-> s, sponsor |-> post[s]])>>
  IN  FlattenSeq([i \in 1..Cardinality(DOMAIN pre \cup DOMAIN post) |->
                    one(SetToSeq(DOMAIN pre \cup DOMAIN post)[i])])

\* Offers and pools are not in sponsoringEffectsTable.  The effects of data and of
\* claimable balances are listed under the operation's source, and those of data
\* name the entry by its name alone.
SponsorshipEffect(op, k, pre, post) ==
  LET a == IF k[1] \in {"account", "trust"} THEN k[2] ELSE op.source
      key == IF k[1] = "data" THEN Datum(a, k[3]) ELSE k
  IN  CASE pre = None /\ post # None -> <<E(a, "sponsorship_created", [key |-> key, sponsor |-> post])>>
        [] pre # None /\ post = None -> <<E(a, "sponsorship_removed", [key |-> key])>>
        [] pre # post                -> <<E(a, "sponsorship_updated", [key |-> key, sponsor |-> post])>>
        [] OTHER                     -> <<>>
SponsorOf(l, k) == IF k \in DOMAIN l THEN l[k].sponsor ELSE None

\* Mutant: only new entries are looked at.
addLedgerEntrySponsorshipEffectsCreation(op, l, m, k) ==
  When(Created(l, m, k), SponsorshipEffect(op, k, None, SponsorOf(m, k)))

addLedgerEntrySponsorshipEffects(op, l, m, k) ==
  SponsorshipEffect(op, k, SponsorOf(l, k), SponsorOf(m, k))

addLedgerEntryLiquidityPoolEffects(op, l, m, k) ==
  CASE Created(l, m, k) -> <<E(op.source, "pool_created", [pool |-> k[2], state |-> m[k]])>>
    [] Removed(l, m, k) -> <<E(op.source, "pool_removed", [pool |-> k[2]])>>
    [] OTHER -> <<>>

-----------------------------------------------------------------------------
(* Payments and trades.                                                    *)

emitAccountCreatedEffects(a, n) ==
  <<E(a, "account_created", [start |-> n]), E(a, "signer_created", [signer |-> a, weight |-> 1])>>

addAccountCreatedEffects(op) ==
  <<E(op.to, "account_created", [start |-> op.amount]), E(op.source, "debited", Amount(Native, op.amount)),
    E(op.to, "signer_created", [signer |-> op.to, weight |-> 1])>>

addPaymentEffects(op) ==
  <<E(op.to, "credited", Amount(op.asset, op.amount)), E(op.source, "debited", Amount(op.asset, op.amount))>>

tradeDetails(c) == [bought |-> Amount(c.from, c.sold), sold |-> Amount(c.for, c.bought)]
tradeDetailsOfSeller(c) == [bought |-> Amount(c.for, c.bought), sold |-> Amount(c.from, c.sold)]

\* Mutant: both sides are told the same.
addClaimTradeEffectsAlike(op) ==
  <<E(op.source, "trade", tradeDetails(op.claim)), E(op.claim.seller, "trade", tradeDetails(op.claim))>>

addClaimTradeEffects(op) ==
  <<E(op.source, "trade", tradeDetails(op.claim)),
    E(op.claim.seller, "trade", tradeDetailsOfSeller(op.claim))>>

addClaimLiquidityPoolTradeEffect(op, m) ==
  <<E(op.source, "pool_trade", [pool |-> op.claim.seller, state |-> m[Lp(op.claim.seller)]])>>

addIngestTradeEffects(op, m) ==
  CASE op.claim.sold = 0 /\ op.claim.bought = 0 -> <<>>
    [] op.claim.seller \in DOMAIN Pool -> addClaimLiquidityPoolTradeEffect(op, m)
    [] OTHER -> addClaimTradeEffects(op)

\* Strict send and strict receive list the same effects.
pathPaymentEffects(op, m) ==
  <<E(op.to, "credited", Amount(op.claim.from, op.claim.sold)),
    E(op.source, "debited", Amount(op.claim.for, op.claim.bought))>> \o addIngestTradeEffects(op, m)

addAccountMergeEffects(op, l) ==
  <<E(op.source, "debited", Amount(Native, l[Acc(op.source)].native)),
    E(op.to, "credited", Amount(Native, l[Acc(op.source)].native)), E(op.source, "account_removed", <<>>)>>

addInflationEffects(op) == <<E(op.to, "credited", Amount(Native, op.amount))>>

-----------------------------------------------------------------------------
(* Accounts, trust lines and data.                                         *)

\* Mutant: changed and removed signers are passed over.
SignerEffectsKept(op, before, after) ==
  LET new == SetToSeq(DOMAIN after \ DOMAIN before)
  IN  [i \in DOMAIN new |-> E(op.source, "signer_created", [signer |-> new[i], weight |-> after[new[i]]])]

\* The signers before and after; updated and removed ones first.
SignerEffects(op, before, after) ==
  LET old == SetToSeq({s \in DOMAIN before : s \notin DOMAIN after \/ after[s] # before[s]})
      new == SetToSeq(DOMAIN after \ DOMAIN before)
  IN  [i \in DOMAIN old |-> IF old[i] \notin DOMAIN after
                            THEN E(op.source, "signer_removed", [signer |-> old[i]])
                            ELSE E(op.source, "signer_updated", [signer |-> old[i], weight |-> after[old[i]]])]
      \o [i \in DOMAIN new |-> E(op.source, "signer_created", [signer |-> new[i], weight |-> after[new[i]]])]

addSetOptionsEffects(op, l, m) ==
  When(op.home # None, <<E(op.source, "home_domain_updated", [home |-> op.home])>>)
  \o When(op.low # -1, <<E(op.source, "thresholds_updated", [low |-> op.low])>>)
  \o When(op.set \cup op.clear # {}, <<E(op.source, "flags_updated", [set |-> op.set, clear |-> op.clear])>>)
  \o FlattenSeq([i \in DOMAIN Changes(l, m, "account") |->
       LET k == Changes(l, m, "account")[i] IN SignerEffects(op, l[k].signers, m[k].signers)])

AssetType(x) == IF x \in DOMAIN Pool THEN "pool" ELSE "credit"

\* Mutant: any changed trust line.
addChangeTrustEffectsAny(op, l, m) ==
  LET cs == Changes(l, m, "trust")
  IN  When(cs # <<>>,
           <<E(op.source, IF Created(l, m, cs[1]) THEN "trustline_created"
                          ELSE IF Removed(l, m, cs[1]) THEN "trustline_removed" ELSE "trustline_updated",
               [asset |-> op.asset, limit |-> op.limit])>>)

\* The first changed trust line of the operation's own asset type.
addChangeTrustEffects(op, l, m) ==
  LET cs == SelectSeq(Changes(l, m, "trust"), LAMBDA k : AssetType(k[3]) = AssetType(op.asset))
  IN  When(cs # <<>>,
           <<E(op.source, IF Created(l, m, cs[1]) THEN "trustline_created"
                          ELSE IF Removed(l, m, cs[1]) THEN "trustline_removed" ELSE "trustline_updated",
               [asset |-> op.asset, limit |-> op.limit])>>)

addTrustLineFlagsEffect(op, on, off) ==
  <<E(op.source, "trustline_flags_updated", [trustor |-> op.to, asset |-> op.asset, set |-> on, clear |-> off])>>

\* getLiquidityPoolAndProductDelta: the first pool that changed (of this id).
getLiquidityPoolAndProductDelta(l, m, k) ==
  LET pre  == IF k \in DOMAIN l THEN l[k] ELSE [a |-> 0, b |-> 0, shares |-> 0]
      post == IF k \in DOMAIN m THEN m[k] ELSE [a |-> 0, b |-> 0, shares |-> 0]
  IN  [a |-> post.a - pre.a, b |-> post.b - pre.b, shares |-> post.shares - pre.shares]

addClaimableBalanceEntryCreatedEffects(op, id, cb, claimants) ==
  LET cs == SetToSeq(claimants)
  IN  <<E(op.source, "balance_created", [id |-> id, asset |-> cb.asset, amount |-> cb.amount])>>
      \o [i \in DOMAIN cs |-> E(cs[i], "claimant_created", [id |-> id])]

addLiquidityPoolRevokedEffect(op, l, m) ==
  LET pools == Changes(l, m, "pool")
      new   == SelectSeq(Changes(l, m, "balance"), LAMBDA k : Created(l, m, k))
  IN  When(pools # <<>> /\ new # <<>>,
           FlattenSeq([i \in DOMAIN new |->
             addClaimableBalanceEntryCreatedEffects(op, new[i][2], m[new[i]], m[new[i]].claimants)])
           \o <<E(op.source, "pool_revoked",
                  [pool |-> pools[1][2], state |-> After(l, m, pools[1]),
                   delta |-> getLiquidityPoolAndProductDelta(l, m, pools[1])])>>)

addAllowTrustEffects(op, l, m) ==
  LET d == [trustor |-> op.to, asset |-> op.asset]
      shown == CASE "auth" \in op.set -> "trustline_authorized"
                 [] "maintain" \in op.set -> "trustline_authorized_to_maintain"
                 [] OTHER -> "trustline_deauthorized"
  IN  <<E(op.source, shown, d)>>
      \o addTrustLineFlagsEffect(op, op.set, IF op.set = {} THEN {"auth", "maintain"} ELSE {})
      \o addLiquidityPoolRevokedEffect(op, l, m)

addSetTrustLineFlagsEffects(op, l, m) ==
  addTrustLineFlagsEffect(op, op.set, op.clear) \o addLiquidityPoolRevokedEffect(op, l, m)

addManageDataEffects(op, l, m) ==
  LET k == Changes(l, m, "data")[1]
  IN  IF Changes(l, m, "data") = <<>> THEN <<E(op.source, "none", <<>>)>>
      ELSE <<E(op.source, IF Removed(l, m, k) THEN "data_removed"
                          ELSE IF Created(l, m, k) THEN "data_created" ELSE "data_updated",
               [name |-> op.name, value |-> After(l, m, k).value])>>

addBumpSequenceEffects(op, l, m) ==
  When(l[Acc(op.source)].seq # m[Acc(op.source)].seq,
       <<E(op.source, "sequence_bumped", [seq |-> m[Acc(op.source)].seq])>>)

-----------------------------------------------------------------------------
(* Claimable balances, clawbacks, pools and contract calls.                *)

addCreateClaimableBalanceEffects(op, m) ==
  addClaimableBalanceEntryCreatedEffects(op, op.id, m[Cb(op.id)], op.claimants)
  \o <<E(op.source, "debited", Amount(m[Cb(op.id)].asset, m[Cb(op.id)].amount))>>

addClaimClaimableBalanceEffects(op, l) ==
  <<E(op.source, "balance_claimed", [id |-> op.id]),
    E(op.source, "credited", Amount(l[Cb(op.id)].asset, l[Cb(op.id)].amount))>>

addClawbackEffects(op) ==
  <<E(op.source, "credited", Amount(op.asset, op.amount)), E(op.to, "debited", Amount(op.asset, op.amount))>>

addClawbackClaimableBalanceEffects(op, l) ==
  <<E(op.source, "balance_clawed_back", [id |-> op.id]),
    E(op.source, "credited", Amount(l[Cb(op.id)].asset, l[Cb(op.id)].amount))>>

addLiquidityPoolDepositEffect(op, l, m) ==
  <<E(op.source, "pool_deposited", [pool |-> op.pool, state |-> m[Lp(op.pool)],
      delta |-> getLiquidityPoolAndProductDelta(l, m, Lp(op.pool))])>>
addLiquidityPoolWithdrawEffect(op, l, m) ==
  <<E(op.source, "pool_withdrew", [pool |-> op.pool, state |-> m[Lp(op.pool)],
      delta |-> getLiquidityPoolAndProductDelta(l, m, Lp(op.pool))])>>

\* The two sides of an asset contract's event; a contract's side is listed under
\* the operation's source.
DebitedBy(op, ev) ==
  IF ev.from \notin Contract THEN <<E(ev.from, "debited", Amount(ev.asset, ev.amount))>>
  ELSE <<E(op.source, "contract_debited", [contract |-> ev.from] @@ Amount(ev.asset, ev.amount))>>
CreditedBy(op, ev) ==
  IF ev.to \notin Contract THEN <<E(ev.to, "credited", Amount(ev.asset, ev.amount))>>
  ELSE <<E(op.source, "contract_credited", [contract |-> ev.to] @@ Amount(ev.asset, ev.amount))>>

addInvokeHostFunctionEffects(op) ==
  When(op.event.type \in {"transfer", "clawback", "burn"}, DebitedBy(op, op.event))
  \o When(op.event.type \in {"transfer", "mint"}, CreditedBy(op, op.event))

addInvokeHostFunctionTrustlineEffects(l, m) ==
  LET new == SelectSeq(Changes(l, m, "trust"), LAMBDA k : Created(l, m, k))
  IN  [i \in DOMAIN new |-> E(new[i][2], "trustline_created",
                              [asset |-> new[i][3], limit |-> m[new[i]].limit])]

addInvokeHostFunctionAccountCreatedEffects(l, m) ==
  LET new == SelectSeq(Changes(l, m, "account"), LAMBDA k : Created(l, m, k))
  IN  FlattenSeq([i \in DOMAIN new |-> emitAccountCreatedEffects(new[i][2], m[new[i]].native)])

\* What the operation's own type adds.
OperationEffects(op, l, m) ==
  CASE op.type = "create_account"   -> addAccountCreatedEffects(op)
    [] op.type = "payment"          -> addPaymentEffects(op)
    [] op.type = "path_payment"     -> pathPaymentEffects(op, m)
    [] op.type = "offer"            -> addIngestTradeEffects(op, m)
    [] op.type = "set_options"      -> addSetOptionsEffects(op, l, m)
    [] op.type = "change_trust"     -> addChangeTrustEffects(op, l, m)
    [] op.type = "allow_trust"      -> addAllowTrustEffects(op, l, m)
    [] op.type = "merge"            -> addAccountMergeEffects(op, l)
    [] op.type = "inflation"        -> addInflationEffects(op)
    [] op.type = "data"             -> addManageDataEffects(op, l, m)
    [] op.type = "bump"             -> addBumpSequenceEffects(op, l, m)
    [] op.type = "create_balance"   -> addCreateClaimableBalanceEffects(op, m)
    [] op.type = "claim"            -> addClaimClaimableBalanceEffects(op, l)
    [] op.type \in {"revoke", "revoke_signer"} -> <<>>
    [] op.type = "clawback"         -> addClawbackEffects(op)
    [] op.type = "clawback_balance" -> addClawbackClaimableBalanceEffects(op, l)
    [] op.type = "set_flags"        -> addSetTrustLineFlagsEffects(op, l, m)
    [] op.type = "deposit"          -> addLiquidityPoolDepositEffect(op, l, m)
    [] op.type = "withdraw"         -> addLiquidityPoolWithdrawEffect(op, l, m)
    [] op.type = "invoke"           -> addInvokeHostFunctionEffects(op)
                                       \o addInvokeHostFunctionTrustlineEffects(l, m)
                                       \o addInvokeHostFunctionAccountCreatedEffects(l, m)

\* Then the sponsorships, then the pools.
ingestEffects(op, l, m) ==
  LET sponsored == Changes(l, m, "account") \o Changes(l, m, "trust") \o Changes(l, m, "data")
                   \o Changes(l, m, "balance")
      pools == Changes(l, m, "pool")
  IN  OperationEffects(op, l, m)
      \o FlattenSeq([i \in DOMAIN sponsored |->
           addLedgerEntrySponsorshipEffects(op, l, m, sponsored[i])
           \o When(sponsored[i][1] = "account", addSignerSponsorshipEffects(l, m, sponsored[i]))])
      \o FlattenSeq([i \in DOMAIN pools |-> addLedgerEntryLiquidityPoolEffects(op, l, m, pools[i])])

-----------------------------------------------------------------------------
(* The reader of the effects.                                              *)

Auth == {"auth", "maintain"}

\* The source of a path payment is debited and credited as such: its trades are
\* told by those effects already.
Trade(t, op, e) ==
  IF op.type = "path_payment" /\ e.account = op.source /\ e.d.bought.asset = op.claim.from THEN t
  ELSE Move(Move(t, e.account, e.d.bought.asset, e.d.bought.amount),
            e.account, e.d.sold.asset, 0 - e.d.sold.amount)

\* A deposit or a withdrawal moves the reserves and the shares of the source.
Pooled(t, a, e) ==
  LET d == e.d.delta
      p == e.d.pool
  IN  Move(Move(Move(Set(t, Lp(p), e.d.state), a, Pool[p][1], 0 - d.a), a, Pool[p][2], 0 - d.b), a, p, d.shares)

\* What the reader believes after effect e of operation op.
Read(t, op, e) ==
  LET a == e.account
      d == e.d
      acc(f) == IF Acc(a) \in DOMAIN t THEN [t EXCEPT ![Acc(a)] = f] ELSE t
      me == t[Acc(a)]
      flags(f) == [t EXCEPT ![Line(d.trustor, d.asset)].flags = f]
      old == t[Line(d.trustor, d.asset)].flags
  IN CASE e.type = "account_created" -> Set(t, Acc(a), NewAccount(d.start))
       [] e.type = "account_removed" -> Drop(t, Acc(a))
       [] e.type = "credited" -> Move(t, a, d.asset, d.amount)
       [] e.type = "debited" -> Move(t, a, d.asset, 0 - d.amount)
       [] e.type = "contract_credited" -> Move(t, d.contract, d.asset, d.amount)
       [] e.type = "contract_debited" -> Move(t, d.contract, d.asset, 0 - d.amount)
       [] e.type = "trade" -> Trade(t, op, e)
       [] e.type = "pool_trade" -> Set(t, Lp(d.pool), d.state)
       [] e.type \in {"pool_deposited", "pool_withdrew"} -> Pooled(t, a, e)
       [] e.type = "pool_revoked" -> Drop(Set(t, Lp(d.pool), d.state), Line(op.to, d.pool))
       [] e.type = "pool_created" -> Set(t, Lp(d.pool), d.state)
       [] e.type = "pool_removed" -> Drop(t, Lp(d.pool))
       [] e.type = "home_domain_updated" -> acc([me EXCEPT !.home = d.home])
       [] e.type = "thresholds_updated" -> acc([me EXCEPT !.low = d.low])
       [] e.type = "flags_updated" -> acc([me EXCEPT !.flags = (@ \cup d.set) \ d.clear])
       [] e.type = "sequence_bumped" -> acc([me EXCEPT !.seq = d.seq])
       [] e.type \in {"signer_created", "signer_updated"} ->
            acc([me EXCEPT !.signers = Set(@, d.signer, d.weight)])
       [] e.type = "signer_removed" -> acc([me EXCEPT !.signers = Drop(@, d.signer)])
       [] e.type \in {"signer_sponsorship_created", "signer_sponsorship_updated"} ->
            acc([me EXCEPT !.sponsors = Set(@, d.signer, d.sponsor)])
       [] e.type = "signer_sponsorship_removed" -> acc([me EXCEPT !.sponsors = Drop(@, d.signer)])
       [] e.type = "trustline_created" ->
            Set(t, Line(a, d.asset),
                NewLine(d.limit, IF d.asset \in DOMAIN Pool THEN {} ELSE LineFlags(t, d.asset)))
       [] e.type = "trustline_updated" -> [t EXCEPT ![Line(a, d.asset)].limit = d.limit]
       [] e.type = "trustline_removed" -> Drop(t, Line(a, d.asset))
       [] e.type = "trustline_authorized" -> flags((old \ Auth) \cup {"auth"})
       [] e.type = "trustline_authorized_to_maintain" -> flags((old \ Auth) \cup {"maintain"})
       [] e.type = "trustline_deauthorized" -> flags(old \ Auth)
       [] e.type = "trustline_flags_updated" -> flags((old \cup d.set) \ d.clear)
       [] e.type \in {"data_created", "data_updated"} ->
            Set(t, Datum(a, d.name), [value |-> d.value, sponsor |-> SponsorOf(t, Datum(a, d.name))])
       [] e.type = "data_removed" -> Drop(t, Datum(a, d.name))
       [] e.type = "balance_created" ->
            Set(t, Cb(d.id), [asset |-> d.asset, amount |-> d.amount, claimants |-> {}, sponsor |-> None])
       [] e.type = "claimant_created" -> [t EXCEPT ![Cb(d.id)].claimants = @ \cup {a}]
       [] e.type \in {"balance_claimed", "balance_clawed_back"} -> Drop(t, Cb(d.id))
       [] e.type \in {"sponsorship_created", "sponsorship_updated"} ->
            IF d.key \in DOMAIN t THEN [t EXCEPT ![d.key].sponsor = d.sponsor] ELSE t
       [] e.type = "sponsorship_removed" ->
            IF d.key \in DOMAIN t THEN [t EXCEPT ![d.key].sponsor = None] ELSE t
       [] OTHER -> t

-----------------------------------------------------------------------------
\* EffectProcessor.ProcessTransaction for a transaction of one successful
\* operation; a failed one has no effects and changes nothing.
ProcessTransaction(op) ==
  /\ count < MaxOps
  /\ \E m \in Apply(core, op) :
       /\ core' = m
       /\ told' = FoldLeft(LAMBDA t, e : Read(t, op, e), told, ingestEffects(op, core, m))
  /\ count' = count + 1
  /\ UNCHANGED group

Init ==
  /\ group \in DOMAIN Groups
  /\ core = Groups[group].first
  /\ told = core
  /\ count = 0

Next == \E op \in Groups[group].ops : ProcessTransaction(op)

Spec == Init /\ [][Next]_vars

-----------------------------------------------------------------------------
\* What effects say of an entry: not how many pools use a line, nor how many lines
\* a pool has.
Visible(e) ==
  IF "uses" \in DOMAIN e THEN [e EXCEPT !.uses = 0]
  ELSE IF "lines" \in DOMAIN e THEN [e EXCEPT !.lines = 0] ELSE e

\* Effects retrace the ledger: a client that starts from a known ledger and only
\* follows the effects (account, signer, trust line, data, claimable balance, pool
\* and sponsorship effects, credits, debits and trades) knows at every moment which
\* entries exist, who sponsors them and what they hold.
EffectsRetrace ==
  /\ DOMAIN told = DOMAIN core
  /\ \A k \in DOMAIN core : Visible(told[k]) = Visible(core[k])
=============================================================================
