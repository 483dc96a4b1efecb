----------------------------- MODULE AppLedgers -----------------------------
(***************************************************************************)
(* Usage and coupon redemptions counted by an application itself:          *)
(* consumeUsage and redeemCoupon of the adapter (apps/api/src/services),   *)
(* for one coupon, with the tables they write and their foreign keys       *)
(* (apps/api/prisma/schema.prisma).                                        *)
(*                                                                         *)
(* Each is one interactive transaction without a row lock: a request reads *)
(* and checks, in one step, and writes, in another.  A request that fails  *)
(* leaves nothing.                                                         *)
(***************************************************************************)
EXTENDS Integers, FiniteSets

CONSTANTS
  Uuids,         \* what uuid() draws for new rows, each once
  Plans, Features,
  Entitlement,   \* [Plans -> [Features -> Entitlements]]
  Amounts, Keys, Callers,
  CouponPlans,   \* the coupon's plans that are long enough for it
  FirstOnly,     \* firstSubscriptionOnly
  Affiliate,     \* the coupon earns commission
  Maximum, PerSubscriber,
  NoRow, NoTx

Entitlements == [enabled : BOOLEAN, limited : BOOLEAN, limit : Nat]

VARIABLES
  subscribers,  \* ids of the subscribers
  subscription, \* [Uuids -> row or NoRow]
  counter,      \* [Uuids -> [Features -> usedValue, or -1 for no row]]
  event,        \* [Keys -> UsageEvent or NoRow]
  couponActive, \* the coupon is ACTIVE and within its dates
  count,        \* redemptionCount
  redemption,   \* [Keys -> id of the subscription it was redeemed for, or NoRow]
  commission,   \* keys of the redemptions with a commission entry
  tx,           \* [Callers -> open transaction or NoTx]
  refused       \* the requests the code has refused

rowVars == <<subscribers, subscription>>
usageVars == <<counter, event>>
couponVars == <<couponActive, count, redemption, commission>>
vars == <<rowVars, usageVars, couponVars, tx, refused>>

Usages == [kind : {"usage"}, key : Keys, id : Uuids, feature : Features, amount : Amounts]
Redemptions == [kind : {"coupon"}, key : Keys, id : Uuids]

-----------------------------------------------------------------------------
Init ==
  /\ subscribers = {} /\ subscription = [i \in Uuids |-> NoRow]
  /\ counter = [i \in Uuids |-> [f \in Features |-> -1]]
  /\ event = [k \in Keys |-> NoRow]
  /\ couponActive = TRUE /\ count = 0
  /\ redemption = [k \in Keys |-> NoRow] /\ commission = {}
  /\ tx = [c \in Callers |-> NoTx] /\ refused = {}

\* The id of a new row was never drawn before.
Fresh(i) == i \notin subscribers /\ subscription[i] = NoRow

CreateSubscriber(i) ==
  /\ Fresh(i)
  /\ subscribers' = subscribers \cup {i}
  /\ UNCHANGED <<subscription, usageVars, couponVars, tx, refused>>

CreateSubscription(i, owner, p) ==
  /\ Fresh(i)
  /\ subscription' =
       [subscription EXCEPT ![i] = [subscriber |-> owner, plan |-> p, status |-> "PENDING"]]
  /\ UNCHANGED <<subscribers, usageVars, couponVars, tx, refused>>

\* The control routes write the status whatever it was, and wait for no transaction.
SetStatus(i, st) ==
  /\ subscription[i] # NoRow
  /\ subscription' = [subscription EXCEPT ![i].status = st]
  /\ UNCHANGED <<subscribers, usageVars, couponVars, tx, refused>>

SetCoupon(active) ==
  /\ couponActive' = active
  /\ UNCHANGED <<rowVars, usageVars, count, redemption, commission, tx, refused>>

\* usage_counters and coupon_redemptions declare two foreign keys on subscription_id, to
\* subscriptions and to subscribers: a row needs its id in both.
Referenced(i) == subscription[i] # NoRow /\ i \in subscribers

-----------------------------------------------------------------------------
(* Requests                                                                *)

Start(c, x) ==
  /\ tx[c] = NoTx
  /\ tx' = [tx EXCEPT ![c] = x]
  /\ UNCHANGED <<rowVars, usageVars, couponVars, refused>>

End(c) == tx' = [tx EXCEPT ![c] = NoTx]

\* An error of the handler: 500, and the transaction is undone.
Refuse(r) ==
  /\ refused' = refused \cup {r}
  /\ UNCHANGED <<rowVars, usageVars, couponVars>>

\* A connection that breaks, or a unique key another transaction took.
Rollback(c) ==
  /\ tx[c] # NoTx
  /\ End(c)
  /\ UNCHANGED <<rowVars, usageVars, couponVars, refused>>

(* consumeUsage *)

Entitled(r) ==
  LET row == subscription[r.id]
  IN  row # NoRow /\ row.status = "ACTIVE" /\ Entitlement[row.plan][r.feature].enabled

\* getPeriodStart takes the period from the subscription's start, so a subscription has one
\* counter for each feature.
Used(n) == IF n < 0 THEN 0 ELSE n

Exceeded(r, n) ==
  LET e == Entitlement[subscription[r.id].plan][r.feature]
  IN  e.limited /\ Used(n) + r.amount > e.limit

\* A key already used answers at once, whatever it was used for.
ConsumeUsage(c, r) ==
  /\ event[r.key] = NoRow /\ Entitled(r)
  /\ Start(c, [req |-> r, read |-> counter[r.id][r.feature]])

DenyUsage(c, r) ==
  /\ tx[c] = NoTx /\ event[r.key] = NoRow /\ ~Entitled(r)
  /\ Refuse(r) /\ UNCHANGED tx

\* The counter if there was none, the event, and the database's own increment.
RecordUsage(c) ==
  LET x == tx[c]
      r == x.req
  IN  /\ x # NoTx /\ r \in Usages
      /\ x.read < 0 => Referenced(r.id) /\ counter[r.id][r.feature] < 0
      /\ ~Exceeded(r, x.read) /\ event[r.key] = NoRow
      /\ counter' = [counter EXCEPT ![r.id][r.feature] = Used(@) + r.amount]
      /\ event' = [event EXCEPT ![r.key] = [id |-> r.id, feature |-> r.feature,
                                            delta |-> r.amount]]
      /\ End(c)
      /\ UNCHANGED <<rowVars, couponVars, refused>>

RefuseUsage(c) ==
  LET x == tx[c]
  IN  /\ x # NoTx /\ x.req \in Usages
      /\ \/ x.read < 0 /\ ~Referenced(x.req.id)
         \/ Exceeded(x.req, x.read)
      /\ Refuse(x.req) /\ End(c)

(* redeemCoupon *)

Redeemed == {k \in Keys : redemption[k] # NoRow}
OfSubscriber(s) == {i \in Uuids : subscription[i] # NoRow /\ subscription[i].subscriber = s}

\* validateCouponForSubscription, which reads outside the transaction.
Valid(i) ==
  /\ couponActive /\ count < Maximum
  /\ subscription[i] # NoRow
  /\ subscription[i].plan \in CouponPlans
  /\ LET own == OfSubscriber(subscription[i].subscriber)
     IN  /\ Cardinality({k \in Redeemed : redemption[k] \in own}) < PerSubscriber
         /\ FirstOnly => Cardinality({j \in own :
                           subscription[j].status \in {"ACTIVE", "PENDING"}}) <= 1

\* A key already used returns its redemption.
RedeemCoupon(c, r) ==
  /\ redemption[r.key] = NoRow /\ Valid(r.id)
  /\ Start(c, [req |-> r])

DenyRedemption(c, r) ==
  /\ tx[c] = NoTx /\ redemption[r.key] = NoRow /\ ~Valid(r.id)
  /\ Refuse(r) /\ UNCHANGED tx

RecordRedemption(c) ==
  LET r == tx[c].req
  IN  /\ tx[c] # NoTx /\ r \in Redemptions
      /\ Referenced(r.id) /\ redemption[r.key] = NoRow
      /\ redemption' = [redemption EXCEPT ![r.key] = r.id]
      /\ count' = count + 1
      /\ commission' = IF Affiliate THEN commission \cup {r.key} ELSE commission
      /\ End(c)
      /\ UNCHANGED <<rowVars, usageVars, couponActive, refused>>

RefuseRedemption(c) ==
  /\ tx[c] # NoTx /\ tx[c].req \in Redemptions
  /\ ~Referenced(tx[c].req.id)
  /\ Refuse(tx[c].req) /\ End(c)

-----------------------------------------------------------------------------
Next ==
  \/ \E i \in Uuids :
       \/ CreateSubscriber(i)
       \/ \E owner \in subscribers, p \in Plans : CreateSubscription(i, owner, p)
       \/ \E st \in {"ACTIVE", "SUSPENDED", "CANCELLED"} : SetStatus(i, st)
  \/ \E active \in BOOLEAN : SetCoupon(active)
  \/ \E c \in Callers :
       \/ \E r \in Usages : ConsumeUsage(c, r) \/ DenyUsage(c, r)
       \/ \E r \in Redemptions : RedeemCoupon(c, r) \/ DenyRedemption(c, r)
       \/ RecordUsage(c) \/ RefuseUsage(c) \/ RecordRedemption(c) \/ RefuseRedemption(c)
       \/ Rollback(c)

Spec == Init /\ [][Next]_vars

-----------------------------------------------------------------------------
(* Properties                                                              *)

\* What the adapter's README says the requests are refused for.
Deserved(r) ==
  IF r \in Usages THEN ~Entitled(r) \/ Exceeded(r, counter[r.id][r.feature])
  ELSE ~Valid(r.id)

\* apps/api/README.md:31-32 "Validates and applies coupons (promo + affiliate)", "Idempotent
\* usage consumption with limit enforcement": when a request is refused, its subscription is
\* not active or not entitled, its limit is reached or its coupon is not valid.
RefusalsAreDeserved == [][\A r \in refused' \ refused : Deserved(r)]_vars
=============================================================================
