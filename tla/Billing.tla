------------------------------- MODULE Billing -------------------------------
(***************************************************************************)
(* Subscription terms, Razorpay checkouts, coupon reservations and the     *)
(* payment ledger of one application of the Charis control API, against    *)
(* one PostgreSQL database, concurrent request handlers, the daily         *)
(* expire-checkouts job and a payment provider that answers late, twice,   *)
(* out of order or not at all.                                             *)
(*                                                                         *)
(* A database transaction that takes its row locks before it reads what it *)
(* decides on is one action.  A handler that reads rows BEFORE it locks    *)
(* them, or calls the provider between two transactions, is several        *)
(* actions, and what it read is kept in "handler" or "sweep".  A           *)
(* transaction that fails rolls back and is no step at all.                *)
(*                                                                         *)
(* Rows are named in advance.  A checkout and the pending term it creates  *)
(* are one to one (razorpay_checkouts.subscription_id), so they share a    *)
(* name, which is also the request's idempotency key and the provider's    *)
(* receipt; Owner and PayFor say which subscriber a term belongs to and    *)
(* which order a provider payment is made on.                              *)
(***************************************************************************)
EXTENDS Integers, FiniteSets

CONSTANTS
  Subs,            \* subscribers
  Keys,            \* checkouts: idempotency key = receipt = its pending term
  Grants,          \* terms created without a checkout
  Pays,            \* provider payments
  Coupons,         \* coupon rows
  AffiliateCoupons,\* the coupons that pay an affiliate commission
  Owner,           \* Owner[t]: the subscriber of term t
  PayFor,          \* PayFor[p]: the checkout whose order payment p is made on
  NoTerm, NoPay, NoCoupon,
  FullAmount,      \* price of every checkout, in refundable units
  MaxRedemptions,  \* coupon.maximum_redemptions
  PerSubscriber,   \* coupon.per_subscriber_limit
  ExpiryAge,       \* CHECKOUT_EXPIRY
  TermLength,      \* duration of the plans on sale
  MaxTime,         \* bound: the clock stops here
  LastStart,       \* bound: no request starts after this instant
  Restrictable,    \* bound: the subscribers an administrator may restrict
  Archivable,      \* bound: whether the application may be archived
  MaxVersion       \* bound: suspend/resume stop at this version

Terms == Keys \cup Grants

ASSUME ConstantsAssumption ==
  /\ IsFiniteSet(Keys) /\ IsFiniteSet(Grants) /\ Keys \cap Grants = {}
  /\ Owner \in [Terms -> Subs]
  /\ PayFor \in [Pays -> Keys]
  /\ AffiliateCoupons \subseteq Coupons
  /\ NoTerm \notin Terms /\ NoPay \notin Pays /\ NoCoupon \notin Coupons
  /\ FullAmount \in Nat \ {0} /\ MaxRedemptions \in Nat \ {0} /\ PerSubscriber \in Nat \ {0}
  /\ ExpiryAge \in Nat /\ TermLength \in Nat \ {0}
  /\ MaxTime \in Nat /\ LastStart \in Nat /\ MaxVersion \in Nat
  /\ Restrictable \subseteq Subs /\ Archivable \in BOOLEAN

VARIABLES
  now,         \* the clock
  subscribers, \* the subscribers whose status is ACTIVE
  appOpen,     \* application.status = ACTIVE
  loaded,      \* orders whose payment a request in flight is to settle, that loaded the
               \* application while it was open
  term,        \* the subscriptions table
  checkout,    \* the razorpay_checkouts table
  handler,     \* start-checkout requests in flight, with what they read unlocked
  orders,      \* the provider's orders, by receipt
  payment,     \* the provider's payments
  ledger,      \* the payment_transactions table
  redemptions, \* the terms with a coupon_redemptions row
  uses,        \* coupon.redemption_count
  earned,      \* the terms with an EARNED commission entry
  reversed,    \* the terms whose commission has a refund ADJUSTMENT
  outbox,      \* idempotency keys of the payment.* webhook_events
  sweep        \* rows the running expire-checkouts job has locked and read

vars == <<now, subscribers, appOpen, loaded, term, checkout, handler, orders, payment,
          ledger, redemptions, uses, earned, reversed, outbox, sweep>>

clockVars    == <<now, subscribers, appOpen, loaded>>
providerVars == <<orders, payment>>
couponVars   == <<redemptions, uses, earned, reversed>>
-----------------------------------------------------------------------------
(* Types *)

TermStatus == {"none", "PENDING", "ACTIVE", "SUSPENDED", "EXPIRED", "CANCELLED"}
InForce    == {"ACTIVE", "SUSPENDED"}
Replaceable == InForce \cup {"EXPIRED"}
\* Mutants: a full refund forgets the terms that were never activated, or the suspended ones.
RevocableInForce == InForce
RevocableUnsuspended == {"PENDING", "ACTIVE"}
Revocable   == {"PENDING"} \cup InForce
OpenStatus == {"creating", "ready"}
SettledStatus  == {"paid", "review", "refunded"}
CheckoutStatus == {"none", "expired"} \cup OpenStatus \cup SettledStatus

Term == [status : TermStatus, version : Nat, ends : Nat, coupon : Coupons \cup {NoCoupon}]
Checkout == [status : CheckoutStatus, prev : Terms \cup {NoTerm}, prevVersion : Nat,
             bound : BOOLEAN, payment : Pays \cup {NoPay}, created : Nat, customer : BOOLEAN]
Request == [phase : {"idle", "opening", "read", "calling"}, prev : Terms \cup {NoTerm}, version : Nat]
Seen    == [status : TermStatus, version : Nat]
Event   == Keys \X CheckoutStatus \X Nat

EmptyTerm     == [status |-> "none", version |-> 0, ends |-> 0, coupon |-> NoCoupon]
EmptyCheckout == [status |-> "none", prev |-> NoTerm, prevVersion |-> 0, bound |-> FALSE,
                  payment |-> NoPay, created |-> 0, customer |-> FALSE]
Idle    == [phase |-> "idle", prev |-> NoTerm, version |-> 0]
Opening == [phase |-> "opening", prev |-> NoTerm, version |-> 0]
Calling == [phase |-> "calling", prev |-> NoTerm, version |-> 0]
Unseen  == [status |-> "none", version |-> 0]

TypeOK ==
  /\ now \in Nat
  /\ subscribers \subseteq Subs
  /\ appOpen \in BOOLEAN
  /\ loaded \subseteq Keys
  /\ term \in [Terms -> Term]
  /\ checkout \in [Keys -> Checkout]
  /\ handler \in [Terms -> Request]
  /\ orders \subseteq Keys
  /\ payment \in [Pays -> [captured : BOOLEAN, refunded : 0..FullAmount]]
  /\ ledger \in [Pays -> [recorded : BOOLEAN, refunded : 0..FullAmount]]
  /\ redemptions \subseteq Terms
  /\ uses \in [Coupons -> Nat]
  /\ earned \subseteq Terms
  /\ reversed \subseteq Terms
  /\ outbox \subseteq Event
  /\ sweep \in [Keys -> Seen]

Init ==
  /\ now = 0
  /\ subscribers = Subs
  /\ appOpen = TRUE
  /\ loaded = {}
  /\ term = [t \in Terms |-> EmptyTerm]
  /\ checkout = [k \in Keys |-> EmptyCheckout]
  /\ handler = [t \in Terms |-> Idle]
  /\ orders = {}
  /\ payment = [p \in Pays |-> [captured |-> FALSE, refunded |-> 0]]
  /\ ledger = [p \in Pays |-> [recorded |-> FALSE, refunded |-> 0]]
  /\ redemptions = {}
  /\ uses = [c \in Coupons |-> 0]
  /\ earned = {}
  /\ reversed = {}
  /\ outbox = {}
  /\ sweep = [k \in Keys |-> Unseen]
-----------------------------------------------------------------------------
(* Terms *)

Current(s)  == {t \in Terms : Owner[t] = s /\ term[t].status \in InForce}
Unused(t)   == term[t].status = "none" /\ handler[t].phase = "idle"
Lapsed(t)   == term[t].ends <= now
NewTerm(st, c) == [status |-> st, version |-> 1, ends |-> now + TermLength, coupon |-> c]

\* A status change, as every writer of the row makes it: the version moves on.
\* Mutant: the version is not moved.
MovedInPlace(r, st) == [r EXCEPT !.status = st]
Moved(r, st) == [r EXCEPT !.status = st, !.version = r.version + 1]

(* Coupons *)

\* Mutant: the limit is compared off by one.
RedeemableOnceMore(t, c, gone, left) == c # NoCoupon => left[c] <= MaxRedemptions

\* apply_to_subscription: coupon c may be redeemed for term t, when the rows in
\* gone have just been released in the same transaction and left "left" uses.
Redeemable(t, c, gone, left) ==
  c # NoCoupon =>
    /\ left[c] < MaxRedemptions
    /\ Cardinality({u \in redemptions \ gone : Owner[u] = Owner[t] /\ term[u].coupon = c})
         < PerSubscriber

Redeem(left, c) == [d \in Coupons |-> IF d = c THEN left[d] + 1 ELSE left[d]]
Holds(t, c) == IF c = NoCoupon THEN {} ELSE {t}

\* Commission is paid only for a coupon of an affiliate.
Commissionable(t) == t \in redemptions /\ term[t].coupon \in AffiliateCoupons
-----------------------------------------------------------------------------
(* expire_stale_checkouts *)

Open(k)   == checkout[k].status \in OpenStatus
\* Mutant: only orders the provider has answered expire.
StaleReady(k) == /\ checkout[k].status = "ready" /\ checkout[k].payment = NoPay
                 /\ checkout[k].created < now - ExpiryAge
Stale(k)  == /\ Open(k)
             /\ checkout[k].payment = NoPay
             /\ checkout[k].created < now - ExpiryAge
Held      == {k \in Keys : sweep[k].status # "none"}
\* Mutant: intents the provider has not answered do not count as open.
NoReadyCheckout(s, gone) ==
  \A k \in Keys \ gone : Owner[k] = s => checkout[k].status # "ready"
NoOpenCheckout(s, gone) == \A k \in Keys \ gone : Owner[k] = s => ~Open(k)
StaleOf(s) == {k \in Keys : Owner[k] = s /\ Stale(k)}

\* What the loop writes for the checkouts in S, given what it read of their terms.
ExpiredCheckouts(S) ==
  [k \in Keys |-> IF k \in S THEN [checkout[k] EXCEPT !.status = "expired"] ELSE checkout[k]]
\* Mutant: the order expires, its pending term stays.
TermsKept(S, seen) == term
ExpiredTerms(S, seen) ==
  [t \in Terms |->
     IF t \in S /\ seen[t].status = "PENDING"
     THEN [term[t] EXCEPT !.status = "CANCELLED", !.version = seen[t].version + 1]
     ELSE term[t]]
\* Mutant: the test on the commission entry is inverted.
ReleasedIfEarned(S) == S \cap redemptions \cap earned
Released(S) == (S \cap redemptions) \ earned
UsesAfter(gone) ==
  [c \in Coupons |->
     LET n == Cardinality({t \in gone : term[t].coupon = c})
     IN  IF n <= uses[c] THEN uses[c] - n ELSE 0]
-----------------------------------------------------------------------------
(* The clock and the administrators *)

Tick ==
  /\ now < MaxTime
  /\ now' = now + 1
  /\ UNCHANGED <<subscribers, appOpen, loaded, term, checkout, handler, providerVars, ledger,
                 couponVars, outbox, sweep>>

RestrictSubscriber(s) ==
  /\ s \in subscribers \cap Restrictable
  /\ subscribers' = subscribers \ {s}
  /\ UNCHANGED <<now, appOpen, loaded, term, checkout, handler, providerVars, ledger,
                 couponVars, outbox, sweep>>

RestoreSubscriber(s) ==
  /\ s \notin subscribers
  /\ subscribers' = subscribers \cup {s}
  /\ UNCHANGED <<now, appOpen, loaded, term, checkout, handler, providerVars, ledger,
                 couponVars, outbox, sweep>>

Archive ==
  /\ appOpen /\ Archivable
  /\ appOpen' = FALSE
  /\ UNCHANGED <<now, subscribers, loaded, term, checkout, handler, providerVars, ledger,
                 couponVars, outbox, sweep>>

\* create_subscription by an administrator: in force at once, commission earned at once.
CreateSubscription(t, c) ==
  /\ now <= LastStart
  /\ Unused(t)
  /\ Current(Owner[t]) = {}
  /\ Redeemable(t, c, {}, uses)
  /\ term' = [term EXCEPT ![t] = NewTerm("ACTIVE", c)]
  /\ redemptions' = redemptions \cup Holds(t, c)
  /\ uses' = Redeem(uses, c)
  /\ earned' = IF c \in AffiliateCoupons THEN earned \cup {t} ELSE earned
  /\ UNCHANGED <<clockVars, checkout, handler, providerVars, ledger, reversed, outbox, sweep>>

Move(t, st) ==
  /\ term' = [term EXCEPT ![t] = Moved(@, st)]
  /\ UNCHANGED <<clockVars, checkout, handler, providerVars, ledger, couponVars, outbox, sweep>>

Suspend(t) ==
  /\ term[t].status = "ACTIVE" /\ ~Lapsed(t) /\ term[t].version < MaxVersion
  /\ Move(t, "SUSPENDED")

Resume(t) ==
  /\ term[t].status = "SUSPENDED" /\ ~Lapsed(t) /\ term[t].version < MaxVersion
  /\ Move(t, "ACTIVE")

Cancel(t) ==
  /\ term[t].status \in InForce
  /\ Move(t, "CANCELLED")

\* replace_term: old retires to st, new starts, both under the subscriber's lock.
ReplaceTerm(old, new, st) ==
  /\ now <= LastStart
  /\ Unused(new) /\ Owner[new] = Owner[old] /\ new # old
  /\ Current(Owner[old]) \subseteq {old}
  /\ term' = [term EXCEPT ![old] = Moved(@, st), ![new] = NewTerm("ACTIVE", NoCoupon)]
  /\ UNCHANGED <<clockVars, checkout, handler, providerVars, ledger, couponVars, outbox, sweep>>

\* A term that has run out and is not cancelled, a PENDING one included.
Renew(old, new) ==
  /\ term[old].status \notin {"none", "CANCELLED"} /\ Lapsed(old)
  /\ ReplaceTerm(old, new, "EXPIRED")

Replace(old, new) ==
  /\ term[old].status \in InForce
  /\ ReplaceTerm(old, new, "CANCELLED")
-----------------------------------------------------------------------------
(* Starting a checkout *)

\* start_checkout up to its first commit: expire the subscriber's stale orders, check the
\* term to be replaced, reserve the coupon, save the pending term and the intent.
StartCheckout(k, prev, version, c, customer) ==
  LET s    == Owner[k]
      old  == StaleOf(s)
      gone == Released(old)
      left == UsesAfter(gone)
  IN  /\ now <= LastStart
      /\ checkout[k].status = "none"
      /\ old \cap Held = {}
      /\ customer => NoOpenCheckout(s, old)
      /\ Current(s) \subseteq {prev}
      /\ Redeemable(k, c, gone, left)
      /\ term' = [ExpiredTerms(old, term) EXCEPT ![k] = NewTerm("PENDING", c)]
      /\ checkout' = [ExpiredCheckouts(old) EXCEPT
                        ![k] = [EmptyCheckout EXCEPT !.status = "creating", !.prev = prev,
                                  !.prevVersion = version, !.created = now,
                                  !.customer = customer]]
      /\ redemptions' = (redemptions \ gone) \cup Holds(k, c)
      /\ uses' = Redeem(left, c)
      /\ handler' = [handler EXCEPT ![k] = Calling]
      /\ UNCHANGED <<clockVars, providerVars, ledger, earned, reversed, outbox, sweep>>

\* The authorization of the administrator's route loads the application; the row stays in
\* the request's session while it waits for the subscriber's lock.  Followed on its own only
\* where an archival can come between.
AdminOrder(k) ==
  /\ Archivable /\ appOpen
  /\ now <= LastStart
  /\ Unused(k)
  /\ handler' = [handler EXCEPT ![k] = Opening]
  /\ UNCHANGED <<clockVars, term, checkout, providerVars, ledger, couponVars, outbox, sweep>>

\* Subscriber and term are read under the locks.
AdminCheckout(k, prev, c) ==
  /\ \/ handler[k].phase = "opening"
     \/ Unused(k) /\ appOpen
  /\ Owner[k] \in subscribers
  /\ prev # NoTerm => Owner[prev] = Owner[k] /\ term[prev].status \in Replaceable
  /\ StartCheckout(k, prev, IF prev = NoTerm THEN 0 ELSE term[prev].version, c, FALSE)

\* customer_order reads application, subscriber and the term to be replaced without locks;
\* the session keeps these rows, so the later locked SELECTs do not refresh them.
CustomerOrder(t, prev) ==
  /\ now <= LastStart
  /\ appOpen /\ Owner[t] \in subscribers
  /\ Unused(t)
  /\ prev # NoTerm =>
       t \in Keys /\ Owner[prev] = Owner[t] /\ term[prev].status \in {"ACTIVE", "EXPIRED"}
  /\ handler' = [handler EXCEPT ![t] =
       [phase |-> "read", prev |-> prev,
        version |-> IF prev = NoTerm THEN 0 ELSE term[prev].version]]
  /\ UNCHANGED <<clockVars, term, checkout, providerVars, ledger, couponVars, outbox, sweep>>

CustomerCheckout(k, c) ==
  /\ handler[k].phase = "read"
  /\ StartCheckout(k, handler[k].prev, handler[k].version, c, TRUE)

\* activate_free_plan: lapsed terms expire, the free term starts; no second look at the
\* subscriber's status.
ActivateFreePlan(t) ==
  /\ handler[t].phase = "read"
  /\ \A u \in Current(Owner[t]) : Lapsed(u)
  /\ term' = [u \in Terms |->
       IF u = t THEN NewTerm("ACTIVE", NoCoupon)
       ELSE IF u \in Current(Owner[t]) THEN Moved(term[u], "EXPIRED") ELSE term[u]]
  /\ handler' = [handler EXCEPT ![t] = Idle]
  /\ UNCHANGED <<clockVars, checkout, providerVars, ledger, couponVars, outbox, sweep>>

\* The provider creates the order of a saved intent, whether or not anyone still waits.
CreateProviderOrder(k) ==
  /\ checkout[k].status # "none" /\ k \notin orders
  /\ orders' = orders \cup {k}
  /\ UNCHANGED <<clockVars, term, checkout, handler, payment, ledger, couponVars, outbox,
                 sweep>>

BoundOrder(r) ==
  [r EXCEPT !.bound = TRUE, !.status = IF r.status = "creating" THEN "ready" ELSE r.status]

\* The provider answered: the second transaction of start_checkout.
BindOrder(k) ==
  /\ handler[k].phase = "calling" /\ k \in orders
  /\ k \notin Held
  /\ checkout' = [checkout EXCEPT ![k] = BoundOrder(@)]
  /\ handler' = [handler EXCEPT ![k] = Idle]
  /\ UNCHANGED <<clockVars, term, providerVars, ledger, couponVars, outbox, sweep>>

\* The handler is refused, times out or dies: nothing it had not committed remains.
Abandon(t) ==
  /\ handler[t].phase # "idle"
  /\ handler' = [handler EXCEPT ![t] = Idle]
  /\ UNCHANGED <<clockVars, term, checkout, providerVars, ledger, couponVars, outbox, sweep>>
-----------------------------------------------------------------------------
(* The expire-checkouts job *)

\* The SELECT ... FOR UPDATE OF razorpay_checkouts: the terms are read, not locked.
SweepRead ==
  LET S == {k \in Keys : Stale(k)}
  IN  /\ Held = {} /\ S # {}
      /\ sweep' = [k \in Keys |->
           IF k \in S THEN [status |-> term[k].status, version |-> term[k].version]
           ELSE Unseen]
      /\ UNCHANGED <<clockVars, term, checkout, handler, providerVars, ledger, couponVars,
                     outbox>>

\* The loop and its commit.  A job that dies instead leaves the database as it was
\* before SweepRead, which needs no action.
SweepCommit ==
  LET gone == Released(Held)
  IN  /\ Held # {}
      /\ checkout' = ExpiredCheckouts(Held)
      /\ term' = ExpiredTerms(Held, sweep)
      /\ redemptions' = redemptions \ gone
      /\ uses' = UsesAfter(gone)
      /\ sweep' = [k \in Keys |-> Unseen]
      /\ UNCHANGED <<clockVars, handler, providerVars, ledger, earned, reversed, outbox>>
-----------------------------------------------------------------------------
(* The provider's payments *)

Capture(p) ==
  /\ PayFor[p] \in orders
  /\ ~payment[p].captured
  /\ payment' = [payment EXCEPT ![p].captured = TRUE]
  /\ UNCHANGED <<clockVars, term, checkout, handler, orders, ledger, couponVars, outbox, sweep>>

Refund(p, n) ==
  /\ payment[p].captured
  /\ payment[p].refunded < n
  /\ payment' = [payment EXCEPT ![p].refunded = n]
  /\ UNCHANGED <<clockVars, term, checkout, handler, orders, ledger, couponVars, outbox, sweep>>
-----------------------------------------------------------------------------
(* settle_payment, from the webhook, a verify call or a reconciliation *)

Larger(a, b) == IF a >= b THEN a ELSE b

\* Mutant: an order the handler could not bind is not settled.
ArrivesBound(p, seen) ==
  /\ PayFor[p] \in orders /\ checkout[PayFor[p]].bound
  /\ payment[p].captured /\ seen <= payment[p].refunded /\ PayFor[p] \notin Held
  /\ checkout[PayFor[p]].payment \in {NoPay, p}

\* Mutant: a settled checkout takes no further callback.
ArrivesOnce(p, seen) ==
  /\ PayFor[p] \in orders /\ checkout[PayFor[p]].payment = NoPay
  /\ payment[p].captured /\ seen <= payment[p].refunded /\ PayFor[p] \notin Held

\* Mutant: any payment of the order is accepted.
ArrivesUnbound(p, seen) ==
  /\ PayFor[p] \in orders
  /\ payment[p].captured /\ seen <= payment[p].refunded /\ PayFor[p] \notin Held

\* A provider response that reports payment p with "seen" refunded reaches the handler, now
\* or long after it was true; the checkout is free and not bound to another payment.
Arrives(p, seen) ==
  /\ PayFor[p] \in orders
  /\ payment[p].captured
  /\ seen <= payment[p].refunded
  /\ PayFor[p] \notin Held
  /\ checkout[PayFor[p]].payment \in {NoPay, p}

\* Mutant: the refunded amount is left out of the key.
EventKeyByStatus(k, status, refunded) == <<k, status, 0>>
EventKey(k, status, refunded) == <<k, status, refunded>>

Settled(r, p, status) == [r EXCEPT !.bound = TRUE, !.payment = p, !.status = status]

\* What every settlement writes: the ledger row, the bound order and payment, the new
\* status, and one outbox row under a unique key when anything changed.
Record(p, status, refunded) ==
  LET k == PayFor[p]
      changed == status # checkout[k].status \/ refunded # ledger[p].refunded
  IN  /\ checkout' = [checkout EXCEPT ![k] = Settled(@, p, status)]
      /\ ledger' = [ledger EXCEPT ![p] = [recorded |-> TRUE, refunded |-> refunded]]
      /\ IF changed
         THEN /\ EventKey(k, status, refunded) \notin outbox
              /\ outbox' = outbox \cup {EventKey(k, status, refunded)}
         ELSE outbox' = outbox
      /\ UNCHANGED <<clockVars, handler, providerVars, redemptions, uses, sweep>>

\* Mutant: any refund is taken for a full one.
AnyRefund(refunded) == refunded > 0
FullyRefunded(refunded) == refunded = FullAmount
RefundStatus(refunded) == IF FullyRefunded(refunded) THEN "refunded" ELSE "review"

\* Mutants: the last response wins; amounts are added up instead of compared.
LastResponse(p, seen) == seen
RefundsAddedUp(p, seen) == seen + ledger[p].refunded
\* Never downgrade a known refund.
KnownRefund(p, seen) == Larger(seen, ledger[p].refunded)

\* Mutant: the reversal does not look for the entry it reverses.
ReversesAlways(k, refunded) == FullyRefunded(refunded) /\ Commissionable(k)

\* settle_checkout_commission with refunded = True.
Reverses(k, refunded) == FullyRefunded(refunded) /\ Commissionable(k) /\ k \in earned

SettleRefund(p, seen) ==
  LET k == PayFor[p]
      refunded == KnownRefund(p, seen)
  IN  /\ Arrives(p, seen)
      /\ refunded > 0
      /\ term' = [term EXCEPT ![k] =
           IF FullyRefunded(refunded) /\ @.status \in Revocable THEN Moved(@, "CANCELLED") ELSE @]
      /\ reversed' = IF Reverses(k, refunded) THEN reversed \cup {k} ELSE reversed
      /\ Record(p, RefundStatus(refunded), refunded)
      /\ UNCHANGED earned

\* Mutants of the test on the replaced term: its version is not compared; other terms in
\* force are not looked for.
ValidPreviousAnyVersion(k) ==
  LET others == Current(Owner[k]) \ {k}
  IN  IF checkout[k].prev = NoTerm THEN others = {}
      ELSE term[checkout[k].prev].status \in Replaceable /\ others \subseteq {checkout[k].prev}

ValidPreviousAlone(k) ==
  LET prev == checkout[k].prev
  IN  prev # NoTerm => /\ term[prev].version = checkout[k].prevVersion
                       /\ term[prev].status \in Replaceable

\* The term the buyer chose to replace is unchanged, and no other term is in force.
ValidPrevious(k) ==
  LET prev == checkout[k].prev
      others == Current(Owner[k]) \ {k}
  IN  IF prev = NoTerm
      THEN others = {}
      ELSE /\ term[prev].version = checkout[k].prevVersion
           /\ term[prev].status \in Replaceable
           /\ others \subseteq {prev}

\* Mutant: the term is not checked to be still pending.
CanActivateAnyTerm(k, sawOpen) == Owner[k] \in subscribers /\ ValidPrevious(k) /\ sawOpen

\* sawOpen: whether the application row the session holds is ACTIVE.
CanActivate(k, sawOpen) ==
  /\ Owner[k] \in subscribers
  /\ ValidPrevious(k)
  /\ sawOpen
  /\ term[k].status = "PENDING"

\* Mutant: a checkout under review is settled again.
CaptureAgain(p, seen) ==
  /\ Arrives(p, seen) /\ KnownRefund(p, seen) = 0
  /\ checkout[PayFor[p]].status \notin {"paid", "refunded"}

FirstCapture(p, seen) ==
  /\ Arrives(p, seen)
  /\ KnownRefund(p, seen) = 0
  /\ checkout[PayFor[p]].status \notin SettledStatus

SettleReview(p, seen, sawOpen) ==
  /\ FirstCapture(p, seen)
  /\ ~CanActivate(PayFor[p], sawOpen)
  /\ Record(p, "review", 0)
  /\ UNCHANGED <<term, earned, reversed>>

SettlePaid(p, seen, sawOpen) ==
  LET k == PayFor[p]
  IN  /\ FirstCapture(p, seen)
      /\ CanActivate(k, sawOpen)
      /\ term' = [t \in Terms |->
           IF t = k THEN [Moved(term[k], "ACTIVE") EXCEPT !.ends = now + TermLength]
           ELSE IF t = checkout[k].prev THEN Moved(term[t], "CANCELLED") ELSE term[t]]
      /\ earned' = IF Commissionable(k) THEN earned \cup {k} ELSE earned
      /\ Record(p, "paid", 0)
      /\ UNCHANGED reversed

\* A repeated capture callback for a checkout that is already settled.
SettleAgain(p, seen) ==
  /\ Arrives(p, seen)
  /\ KnownRefund(p, seen) = 0
  /\ checkout[PayFor[p]].status \in SettledStatus
  /\ Record(p, checkout[PayFor[p]].status, 0)
  /\ UNCHANGED <<term, earned, reversed>>

\* A verify or reconcile request names a payment of an order.  Its authorization loads the
\* application, which the session then keeps over the calls to the provider.  Followed only
\* where an archival can come between; any number of such requests may be in flight for an
\* order, and one that fails or dies settles nothing.
LoadApplication(k) ==
  /\ Archivable /\ appOpen
  /\ k \in orders \ loaded
  /\ loaded' = loaded \cup {k}
  /\ UNCHANGED <<now, subscribers, appOpen, term, checkout, handler, providerVars, ledger,
                 couponVars, outbox, sweep>>

\* The application as settle_payment gets it: read under the locks of the settlement, as in
\* the webhook's session, or kept from the authorization of the request.
ApplicationsHeld(k) == {appOpen} \cup {TRUE : j \in loaded \cap {k}}

SettlePayment(p, seen) ==
  \/ SettleRefund(p, seen)
  \/ \E sawOpen \in ApplicationsHeld(PayFor[p]) :
       SettleReview(p, seen, sawOpen) \/ SettlePaid(p, seen, sawOpen)
  \/ SettleAgain(p, seen)
-----------------------------------------------------------------------------
TermStep ==
  \/ \E t \in Grants, c \in Coupons \cup {NoCoupon} : CreateSubscription(t, c)
  \/ \E t \in Terms : Suspend(t) \/ Resume(t) \/ Cancel(t)
  \/ \E old \in Terms, new \in Grants : Renew(old, new) \/ Replace(old, new)

CheckoutStep ==
  \/ \E k \in Keys, c \in Coupons \cup {NoCoupon} :
       \/ \E prev \in Terms \cup {NoTerm} : AdminCheckout(k, prev, c)
       \/ CustomerCheckout(k, c)
  \/ \E t \in Terms, prev \in Terms \cup {NoTerm} : CustomerOrder(t, prev)
  \/ \E t \in Grants : ActivateFreePlan(t)
  \/ \E k \in Keys : AdminOrder(k) \/ CreateProviderOrder(k) \/ BindOrder(k)
  \/ \E t \in Terms : Abandon(t)

PaymentStep ==
  \/ \E p \in Pays :
       \/ Capture(p)
       \/ \E n \in 0..FullAmount : Refund(p, n) \/ SettlePayment(p, n)
  \/ \E k \in Keys : LoadApplication(k)

Next ==
  \/ Tick \/ Archive
  \/ \E s \in Subs : RestrictSubscriber(s) \/ RestoreSubscriber(s)
  \/ TermStep \/ CheckoutStep \/ PaymentStep
  \/ SweepRead \/ SweepCommit

Spec == Init /\ [][Next]_vars
=============================================================================
