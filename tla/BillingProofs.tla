---------------------------- MODULE BillingProofs ----------------------------
(***************************************************************************)
(* Theorems about Billing, for every number of subscribers, checkouts,     *)
(* terms, payments and coupons, every price, limit and clock bound: type   *)
(* correctness, and the safety invariants that follow from the inductive   *)
(* invariant SettlementInv of BillingProperties.  What a checkout row      *)
(* says, what its term, its ledger row and its commission say, and what    *)
(* the expiry job read before it wrote, are tied together in every         *)
(* reachable state.                                                        *)
(***************************************************************************)
EXTENDS BillingProperties, TLAPS, FiniteSetTheorems
-----------------------------------------------------------------------------
(* The operators the actions are built from *)

LEMMA CountsAreNat ==
  ASSUME NEW S \in SUBSET Terms
  PROVE  IsFiniteSet(S) /\ Cardinality(S) \in Nat
<1>1. IsFiniteSet(Terms)
  BY ConstantsAssumption, FS_Union DEF Terms
<1>2. IsFiniteSet(S)
  BY <1>1, FS_Subset
<1> QED
  BY <1>2, FS_CardinalityType

LEMMA MovedType ==
  ASSUME NEW r \in Term, NEW st \in TermStatus
  PROVE  /\ Moved(r, st) \in Term
         /\ Moved(r, st).status = st /\ Moved(r, st).version = r.version + 1
         /\ Moved(r, st).ends = r.ends /\ Moved(r, st).coupon = r.coupon
<1> DEFINE n == r.version + 1
<1>1. n \in Nat
  BY DEF Term
<1> HIDE DEF n
<1>2. [r EXCEPT !.status = st, !.version = n] \in Term
  BY <1>1 DEF Term
<1>3. Moved(r, st) \in Term
  BY <1>2 DEF Moved, n
<1>4. /\ Moved(r, st).status = st /\ Moved(r, st).version = r.version + 1
      /\ Moved(r, st).ends = r.ends /\ Moved(r, st).coupon = r.coupon
  BY DEF Moved, Term
<1> QED
  BY <1>3, <1>4

LEMMA NewTermType ==
  ASSUME now \in Nat, NEW st \in TermStatus, NEW c \in Coupons \cup {NoCoupon}
  PROVE  NewTerm(st, c) \in Term
  BY ConstantsAssumption DEF NewTerm, Term

LEMMA UsesAfterType ==
  ASSUME uses \in [Coupons -> Nat], NEW gone \in SUBSET Terms
  PROVE  UsesAfter(gone) \in [Coupons -> Nat]
<1> SUFFICES ASSUME NEW c \in Coupons
             PROVE  UsesAfter(gone)[c] \in Nat
  BY DEF UsesAfter
<1> DEFINE n == Cardinality({t \in gone : term[t].coupon = c})
<1>1. n \in Nat
  BY CountsAreNat
<1>2. UsesAfter(gone)[c] = IF n <= uses[c] THEN uses[c] - n ELSE 0
  BY DEF UsesAfter
<1> HIDE DEF n
<1> QED
  BY <1>1, <1>2

LEMMA RedeemType ==
  ASSUME NEW left \in [Coupons -> Nat], NEW c
  PROVE  Redeem(left, c) \in [Coupons -> Nat]
  BY DEF Redeem

LEMMA ExpiredTermsType ==
  ASSUME term \in [Terms -> Term], NEW S \in SUBSET Keys,
         NEW seen, \A t \in S : seen[t].version \in Nat
  PROVE  ExpiredTerms(S, seen) \in [Terms -> Term]
<1> SUFFICES ASSUME NEW t \in Terms
             PROVE  ExpiredTerms(S, seen)[t] \in Term
  BY DEF ExpiredTerms
<1>1. CASE t \in S /\ seen[t].status = "PENDING"
  <2> DEFINE n == seen[t].version + 1
  <2>1. ExpiredTerms(S, seen)[t] = [term[t] EXCEPT !.status = "CANCELLED", !.version = n]
    BY <1>1 DEF ExpiredTerms
  <2>2. n \in Nat /\ term[t] \in Term
    BY <1>1
  <2> HIDE DEF n
  <2>3. [term[t] EXCEPT !.status = "CANCELLED", !.version = n] \in Term
    BY <2>2 DEF Term, TermStatus
  <2> QED
    BY <2>1, <2>3
<1>2. CASE ~(t \in S /\ seen[t].status = "PENDING")
  BY <1>2 DEF ExpiredTerms
<1> QED
  BY <1>1, <1>2

LEMMA ExpiredCheckoutsType ==
  ASSUME checkout \in [Keys -> Checkout], NEW S
  PROVE  ExpiredCheckouts(S) \in [Keys -> Checkout]
  BY DEF ExpiredCheckouts, Checkout, CheckoutStatus

LEMMA SettledType ==
  ASSUME NEW r \in Checkout, NEW p \in Pays, NEW st \in CheckoutStatus
  PROVE  /\ Settled(r, p, st) \in Checkout
         /\ Settled(r, p, st).payment = p /\ Settled(r, p, st).status = st
         /\ Settled(r, p, st).prev = r.prev /\ Settled(r, p, st).customer = r.customer
<1>1. Settled(r, p, st) \in Checkout
  BY DEF Settled, Checkout
<1>2. /\ Settled(r, p, st).payment = p /\ Settled(r, p, st).status = st
      /\ Settled(r, p, st).prev = r.prev /\ Settled(r, p, st).customer = r.customer
  BY DEF Settled, Checkout
<1> QED
  BY <1>1, <1>2

LEMMA BoundOrderType ==
  ASSUME NEW r \in Checkout
  PROVE  /\ BoundOrder(r) \in Checkout
         /\ BoundOrder(r).payment = r.payment
         /\ BoundOrder(r).status = IF r.status = "creating" THEN "ready" ELSE r.status
<1> DEFINE st == IF r.status = "creating" THEN "ready" ELSE r.status
<1>1. st \in CheckoutStatus
  BY DEF Checkout, CheckoutStatus, OpenStatus
<1>2. BoundOrder(r) = [r EXCEPT !.bound = TRUE, !.status = st]
  BY DEF BoundOrder
<1> HIDE DEF st
<1>3. [r EXCEPT !.bound = TRUE, !.status = st] \in Checkout
  BY <1>1 DEF Checkout
<1>4. /\ [r EXCEPT !.bound = TRUE, !.status = st].payment = r.payment
      /\ [r EXCEPT !.bound = TRUE, !.status = st].status = st
  BY DEF Checkout
<1> QED
  BY <1>2, <1>3, <1>4 DEF st

\* The amount a settlement records is a legal refund, at least as large as what is known.
LEMMA KnownRefundType ==
  ASSUME TypeOK, NEW p \in Pays, NEW seen \in 0..FullAmount
  PROVE  /\ KnownRefund(p, seen) \in 0..FullAmount
         /\ KnownRefund(p, seen) >= ledger[p].refunded
         /\ KnownRefund(p, seen) >= seen
  BY ConstantsAssumption DEF TypeOK, KnownRefund, Larger
-----------------------------------------------------------------------------
(* Type correctness *)

LEMMA InitType == Init => TypeOK
  BY ConstantsAssumption
  DEF Init, TypeOK, Term, TermStatus, EmptyTerm, Checkout, CheckoutStatus, EmptyCheckout,
      Request, Idle, Seen, Unseen

LEMMA RecordType ==
  ASSUME TypeOK, NEW p \in Pays, NEW st \in CheckoutStatus, NEW n \in 0..FullAmount,
         Record(p, st, n)
  PROVE  /\ checkout' \in [Keys -> Checkout]
         /\ ledger' \in [Pays -> [recorded : BOOLEAN, refunded : 0..FullAmount]]
         /\ outbox' \subseteq Event
<1> DEFINE k == PayFor[p]
<1>1. k \in Keys
  BY ConstantsAssumption
<1>2. checkout' \in [Keys -> Checkout]
  <2>1. Settled(checkout[k], p, st) \in Checkout
    BY <1>1, SettledType DEF TypeOK
  <2> QED
    BY <2>1 DEF Record, TypeOK
<1>3. ledger' \in [Pays -> [recorded : BOOLEAN, refunded : 0..FullAmount]]
  BY DEF Record, TypeOK
<1>4. EventKey(k, st, n) \in Event
  BY <1>1, ConstantsAssumption DEF EventKey, Event
<1>5. outbox' \subseteq Event
  BY <1>4 DEF Record, TypeOK
<1> QED
  BY <1>2, <1>3, <1>5

LEMMA StartCheckoutType ==
  ASSUME TypeOK, NEW k \in Keys, NEW prev \in Terms \cup {NoTerm}, NEW version \in Nat,
         NEW c \in Coupons \cup {NoCoupon}, NEW customer \in BOOLEAN,
         StartCheckout(k, prev, version, c, customer)
  PROVE  TypeOK'
<1> DEFINE old  == StaleOf(Owner[k])
           gone == Released(old)
           left == UsesAfter(gone)
<1>1. k \in Terms /\ old \in SUBSET Keys /\ gone \in SUBSET Terms
  BY DEF Terms, StaleOf, Released, TypeOK
<1>2. left \in [Coupons -> Nat]
  BY <1>1, UsesAfterType DEF TypeOK
<1>3. uses' \in [Coupons -> Nat]
  BY <1>2, RedeemType DEF StartCheckout
<1>4. ExpiredTerms(old, term) \in [Terms -> Term]
  <2>1. \A t \in old : term[t].version \in Nat
    BY <1>1 DEF TypeOK, Terms, Term
  <2> QED
    BY <1>1, <2>1, ExpiredTermsType DEF TypeOK
<1>5. term' \in [Terms -> Term]
  <2>1. NewTerm("PENDING", c) \in Term
    BY NewTermType DEF TypeOK, TermStatus
  <2>2. term' = [ExpiredTerms(old, term) EXCEPT ![k] = NewTerm("PENDING", c)]
    BY DEF StartCheckout
  <2> QED
    BY <1>1, <1>4, <2>1, <2>2
<1>6. checkout' \in [Keys -> Checkout]
  <2>1. ExpiredCheckouts(old) \in [Keys -> Checkout]
    BY ExpiredCheckoutsType DEF TypeOK
  <2>2. [EmptyCheckout EXCEPT !.status = "creating", !.prev = prev, !.prevVersion = version,
                              !.created = now, !.customer = customer] \in Checkout
    BY DEF EmptyCheckout, Checkout, CheckoutStatus, OpenStatus, TypeOK
  <2> QED
    BY <2>1, <2>2 DEF StartCheckout
<1>7. redemptions' \subseteq Terms
  BY <1>1 DEF StartCheckout, TypeOK, Holds
<1>8. handler' \in [Terms -> Request]
  BY <1>1, ConstantsAssumption DEF StartCheckout, TypeOK, Calling, Request
<1> QED
  BY <1>3, <1>5, <1>6, <1>7, <1>8
  DEF StartCheckout, TypeOK, clockVars, providerVars

LEMMA SettlementType ==
  ASSUME TypeOK, NEW p \in Pays, NEW seen \in 0..FullAmount, SettlePayment(p, seen)
  PROVE  TypeOK'
<1> DEFINE k == PayFor[p]
<1>1. k \in Keys /\ k \in Terms
  BY ConstantsAssumption DEF Terms
<1>2. 0 \in 0..FullAmount
  BY ConstantsAssumption
<1>3. CASE SettleRefund(p, seen)
  <2> DEFINE n  == KnownRefund(p, seen)
             st == RefundStatus(n)
  <2>1. n \in 0..FullAmount
    BY KnownRefundType
  <2>2. st \in CheckoutStatus
    BY DEF RefundStatus, CheckoutStatus, SettledStatus
  <2>3. Record(p, st, n)
    BY <1>3 DEF SettleRefund
  <2>4. Moved(term[k], "CANCELLED") \in Term
    BY <1>1, MovedType DEF TypeOK, TermStatus
  <2>5. term' \in [Terms -> Term] /\ reversed' \subseteq Terms
    BY <1>1, <1>3, <2>4 DEF SettleRefund, TypeOK
  <2> QED
    BY <1>3, <2>1, <2>2, <2>3, <2>5, RecordType
    DEF SettleRefund, Record, TypeOK, clockVars, providerVars
<1>4. ASSUME NEW sawOpen, SettleReview(p, seen, sawOpen)
      PROVE  TypeOK'
  BY <1>2, <1>4, RecordType
  DEF SettleReview, Record, TypeOK, clockVars, providerVars, CheckoutStatus, SettledStatus
<1>5. ASSUME NEW sawOpen, SettlePaid(p, seen, sawOpen)
      PROVE  TypeOK'
  <2> DEFINE started == [Moved(term[k], "ACTIVE") EXCEPT !.ends = now + TermLength]
  <2>1. Moved(term[k], "ACTIVE") \in Term /\ now + TermLength \in Nat
    BY <1>1, MovedType, ConstantsAssumption DEF TypeOK, TermStatus
  <2>2. started \in Term
    BY <2>1 DEF Term
  <2>3. \A t \in Terms : term[t] \in Term /\ Moved(term[t], "CANCELLED") \in Term
    BY MovedType DEF TypeOK, TermStatus
  <2>4. term' = [t \in Terms |-> IF t = k THEN started
                   ELSE IF t = checkout[k].prev THEN Moved(term[t], "CANCELLED") ELSE term[t]]
    BY <1>5 DEF SettlePaid
  <2> HIDE DEF started
  <2>5. term' \in [Terms -> Term]
    BY <2>2, <2>3, <2>4
  <2>6. Record(p, "paid", 0) /\ earned' \subseteq Terms /\ UNCHANGED reversed
    BY <1>1, <1>5 DEF SettlePaid, TypeOK
  <2> QED
    BY <1>2, <2>5, <2>6, RecordType
    DEF Record, TypeOK, clockVars, providerVars, CheckoutStatus, SettledStatus
<1>6. CASE SettleAgain(p, seen)
  <2>1. checkout[k].status \in CheckoutStatus
    BY <1>1 DEF TypeOK, Checkout
  <2> QED
    BY <1>2, <1>6, <2>1, RecordType DEF SettleAgain, Record, TypeOK, clockVars, providerVars
<1> QED
  BY <1>3, <1>4, <1>5, <1>6 DEF SettlePayment

\* Every step keeps the types.
LEMMA TypeStep == TypeOK /\ [Next]_vars => TypeOK'
<1> SUFFICES ASSUME TypeOK, [Next]_vars
             PROVE  TypeOK'
  OBVIOUS
<1>1. CASE Tick
  BY <1>1 DEF Tick, TypeOK, providerVars, couponVars
<1>2. CASE Archive
  BY <1>2 DEF Archive, TypeOK, providerVars, couponVars
<1>3. CASE \E s \in Subs : RestrictSubscriber(s) \/ RestoreSubscriber(s)
  BY <1>3 DEF RestrictSubscriber, RestoreSubscriber, TypeOK, providerVars, couponVars
<1>4. CASE TermStep
  <2>1. ASSUME NEW t \in Grants, NEW c \in Coupons \cup {NoCoupon}, CreateSubscription(t, c)
        PROVE  TypeOK'
    <3>1. NewTerm("ACTIVE", c) \in Term /\ t \in Terms
      BY NewTermType DEF TypeOK, TermStatus, Terms
    <3>2. term' \in [Terms -> Term]
      BY <2>1, <3>1 DEF CreateSubscription, TypeOK
    <3>3. uses' \in [Coupons -> Nat]
      BY <2>1, RedeemType DEF CreateSubscription, TypeOK
    <3>4. redemptions' \subseteq Terms /\ earned' \subseteq Terms
      BY <2>1, <3>1 DEF CreateSubscription, TypeOK, Holds
    <3> QED
      BY <2>1, <3>2, <3>3, <3>4 DEF CreateSubscription, TypeOK, clockVars, providerVars
  <2>2. ASSUME NEW t \in Terms, Suspend(t) \/ Resume(t) \/ Cancel(t)
        PROVE  TypeOK'
    <3>1. PICK st \in TermStatus : Move(t, st)
      BY <2>2 DEF Suspend, Resume, Cancel, TermStatus
    <3>2. Moved(term[t], st) \in Term
      BY MovedType DEF TypeOK
    <3> QED
      BY <3>1, <3>2 DEF Move, TypeOK, clockVars, providerVars, couponVars
  <2>3. ASSUME NEW old \in Terms, NEW new \in Grants, Renew(old, new) \/ Replace(old, new)
        PROVE  TypeOK'
    <3>1. PICK st \in TermStatus : ReplaceTerm(old, new, st)
      BY <2>3 DEF Renew, Replace, TermStatus
    <3>2. Moved(term[old], st) \in Term /\ NewTerm("ACTIVE", NoCoupon) \in Term
      BY MovedType, NewTermType DEF TypeOK, TermStatus
    <3> QED
      BY <3>1, <3>2 DEF ReplaceTerm, TypeOK, clockVars, providerVars, couponVars
  <2> QED
    BY <1>4, <2>1, <2>2, <2>3 DEF TermStep
<1>5. CASE CheckoutStep
  <2>1. ASSUME NEW k \in Keys, NEW prev \in Terms \cup {NoTerm},
               NEW c \in Coupons \cup {NoCoupon},
               AdminCheckout(k, prev, c)
        PROVE  TypeOK'
    <3> DEFINE version == IF prev = NoTerm THEN 0 ELSE term[prev].version
    <3>1. version \in Nat
      BY DEF TypeOK, Term
    <3>2. StartCheckout(k, prev, version, c, FALSE)
      BY <2>1 DEF AdminCheckout
    <3> QED
      BY <3>1, <3>2, StartCheckoutType
  <2>2. ASSUME NEW k \in Keys, NEW c \in Coupons \cup {NoCoupon}, CustomerCheckout(k, c)
        PROVE  TypeOK'
    <3>1. handler[k].prev \in Terms \cup {NoTerm} /\ handler[k].version \in Nat
      BY DEF TypeOK, Request, Terms
    <3>2. StartCheckout(k, handler[k].prev, handler[k].version, c, TRUE)
      BY <2>2 DEF CustomerCheckout
    <3> QED
      BY <3>1, <3>2, StartCheckoutType
  <2>3. ASSUME NEW t \in Terms, NEW prev \in Terms \cup {NoTerm}, CustomerOrder(t, prev)
        PROVE  TypeOK'
    <3> DEFINE version == IF prev = NoTerm THEN 0 ELSE term[prev].version
    <3>1. version \in Nat
      BY DEF TypeOK, Term
    <3>2. [phase |-> "read", prev |-> prev, version |-> version] \in Request
      BY <3>1 DEF Request
    <3>3. handler' = [handler EXCEPT ![t] = [phase |-> "read", prev |-> prev,
                                             version |-> version]]
      BY <2>3 DEF CustomerOrder
    <3> HIDE DEF version
    <3> QED
      BY <2>3, <3>2, <3>3 DEF CustomerOrder, TypeOK, clockVars, providerVars, couponVars
  <2>4. ASSUME NEW t \in Grants, ActivateFreePlan(t)
        PROVE  TypeOK'
    <3>1. NewTerm("ACTIVE", NoCoupon) \in Term
      BY NewTermType DEF TypeOK, TermStatus
    <3>2. \A u \in Terms : Moved(term[u], "EXPIRED") \in Term /\ term[u] \in Term
      BY MovedType DEF TypeOK, TermStatus
    <3>3. term' \in [Terms -> Term]
      BY <2>4, <3>1, <3>2 DEF ActivateFreePlan
    <3>4. handler' \in [Terms -> Request]
      BY <2>4, ConstantsAssumption DEF ActivateFreePlan, TypeOK, Idle, Request
    <3> QED
      BY <2>4, <3>3, <3>4 DEF ActivateFreePlan, TypeOK, clockVars, providerVars, couponVars
  <2>5. ASSUME NEW k \in Keys, CreateProviderOrder(k)
        PROVE  TypeOK'
    BY <2>5 DEF CreateProviderOrder, TypeOK, clockVars, couponVars
  <2>6. ASSUME NEW k \in Keys, BindOrder(k)
        PROVE  TypeOK'
    <3>1. BoundOrder(checkout[k]) \in Checkout
      BY BoundOrderType DEF TypeOK
    <3>2. checkout' \in [Keys -> Checkout]
      BY <2>6, <3>1 DEF BindOrder, TypeOK
    <3>3. handler' \in [Terms -> Request]
      BY <2>6, ConstantsAssumption DEF BindOrder, TypeOK, Idle, Request
    <3> QED
      BY <2>6, <3>2, <3>3 DEF BindOrder, TypeOK, clockVars, providerVars, couponVars
  <2>7. ASSUME NEW t \in Terms, Abandon(t)
        PROVE  TypeOK'
    <3>1. handler' \in [Terms -> Request]
      BY <2>7, ConstantsAssumption DEF Abandon, TypeOK, Idle, Request
    <3> QED
      BY <2>7, <3>1 DEF Abandon, TypeOK, clockVars, providerVars, couponVars
  <2>8. ASSUME NEW k \in Keys, AdminOrder(k)
        PROVE  TypeOK'
    <3>1. handler' \in [Terms -> Request]
      BY <2>8 DEF AdminOrder, TypeOK, Opening, Request
    <3> QED
      BY <2>8, <3>1 DEF AdminOrder, TypeOK, clockVars, providerVars, couponVars
  <2> QED
    BY <1>5, <2>1, <2>2, <2>3, <2>4, <2>5, <2>6, <2>7, <2>8 DEF CheckoutStep
<1>6. CASE PaymentStep
  <2>1. ASSUME NEW p \in Pays, Capture(p)
        PROVE  TypeOK'
    BY <2>1 DEF Capture, TypeOK, clockVars, couponVars
  <2>2. ASSUME NEW p \in Pays, NEW n \in 0..FullAmount, Refund(p, n)
        PROVE  TypeOK'
    BY <2>2 DEF Refund, TypeOK, clockVars, couponVars
  <2>3. ASSUME NEW p \in Pays, NEW seen \in 0..FullAmount, SettlePayment(p, seen)
        PROVE  TypeOK'
    BY <2>3, SettlementType
  <2>4. ASSUME NEW k \in Keys, LoadApplication(k)
        PROVE  TypeOK'
    BY <2>4 DEF LoadApplication, TypeOK, providerVars, couponVars
  <2> QED
    BY <1>6, <2>1, <2>2, <2>3, <2>4 DEF PaymentStep
<1>7. CASE SweepRead
  <2>1. sweep' \in [Keys -> Seen]
    BY <1>7 DEF SweepRead, TypeOK, Seen, Unseen, Terms, Term, TermStatus
  <2> QED
    BY <1>7, <2>1 DEF SweepRead, TypeOK, clockVars, providerVars, couponVars
<1>8. CASE SweepCommit
  <2> DEFINE gone == Released(Held)
  <2>1. Held \in SUBSET Keys /\ gone \in SUBSET Terms
    BY DEF Held, Released, TypeOK
  <2>2. term' \in [Terms -> Term]
    BY <1>8, <2>1, ExpiredTermsType DEF SweepCommit, TypeOK, Seen
  <2>3. checkout' \in [Keys -> Checkout]
    BY <1>8, ExpiredCheckoutsType DEF SweepCommit, TypeOK
  <2>4. uses' \in [Coupons -> Nat]
    BY <1>8, <2>1, UsesAfterType DEF SweepCommit, TypeOK
  <2>5. sweep' \in [Keys -> Seen] /\ redemptions' \subseteq Terms
    BY <1>8 DEF SweepCommit, TypeOK, Seen, Unseen, TermStatus
  <2> QED
    BY <1>8, <2>2, <2>3, <2>4, <2>5 DEF SweepCommit, TypeOK, clockVars, providerVars
<1>9. CASE UNCHANGED vars
  BY <1>9 DEF vars, TypeOK
<1> QED
  BY <1>1, <1>2, <1>3, <1>4, <1>5, <1>6, <1>7, <1>8, <1>9 DEF Next

\* Every row keeps its shape in every reachable state: no status outside the enumerations, no
\* refund above the price, no negative redemption count.
THEOREM TypeCorrect == Spec => []TypeOK
<1> QED
  BY InitType, TypeStep, PTL DEF Spec
-----------------------------------------------------------------------------
(* One term in force *)

\* Terms may leave the set of terms in force freely, and one may enter it when it is then
\* the only one of its subscriber.
LEMMA NoneEnters ==
  ASSUME TypeOK, OneCurrentTerm,
         \A t \in Terms : term'[t].status \in InForce => term[t].status \in InForce
  PROVE  OneCurrentTerm'
  BY DEF OneCurrentTerm, Current

LEMMA OneEnters ==
  ASSUME TypeOK, OneCurrentTerm, NEW t \in Terms,
         \A u \in Terms \ {t} : term'[u].status \in InForce =>
            term[u].status \in InForce /\ Owner[u] # Owner[t]
  PROVE  OneCurrentTerm'
<1> SUFFICES ASSUME NEW s \in Subs, NEW u \in Current(s)', NEW v \in Current(s)'
             PROVE  u = v
  BY DEF OneCurrentTerm
<1>1. /\ u \in Terms /\ Owner[u] = s /\ term'[u].status \in InForce
      /\ v \in Terms /\ Owner[v] = s /\ term'[v].status \in InForce
  BY DEF Current
<1>2. CASE s = Owner[t]
  BY <1>1, <1>2
<1>3. CASE s # Owner[t]
  <2>1. u \in Current(s) /\ v \in Current(s)
    BY <1>1, <1>3 DEF Current
  <2> QED
    BY <2>1 DEF OneCurrentTerm
<1> QED
  BY <1>2, <1>3

LEMMA ExpiryTakesNothingIntoForce ==
  ASSUME NEW S, NEW seen, NEW t \in Terms, term \in [Terms -> Term],
         ExpiredTerms(S, seen)[t].status \in InForce
  PROVE  term[t].status \in InForce
<1>1. CASE t \in S /\ seen[t].status = "PENDING"
  BY <1>1 DEF ExpiredTerms, InForce, Term
<1>2. CASE ~(t \in S /\ seen[t].status = "PENDING")
  BY <1>2 DEF ExpiredTerms
<1> QED
  BY <1>1, <1>2

LEMMA StartCheckoutEntersNoTerm ==
  ASSUME TypeOK, OneCurrentTerm, NEW k \in Keys, NEW prev, NEW version, NEW c, NEW customer,
         StartCheckout(k, prev, version, c, customer)
  PROVE  OneCurrentTerm'
<1> DEFINE after == ExpiredTerms(StaleOf(Owner[k]), term)
<1>1. term' = [after EXCEPT ![k] = NewTerm("PENDING", c)]
  BY DEF StartCheckout
<1>2. \A t \in Terms : after[t].status \in InForce => term[t].status \in InForce
  BY ExpiryTakesNothingIntoForce DEF TypeOK
<1>3. after = [t \in Terms |-> after[t]]
  BY DEF ExpiredTerms
<1>4. NewTerm("PENDING", c).status \notin InForce
  BY DEF NewTerm, InForce
<1> HIDE DEF after
<1>5. \A t \in Terms : term'[t].status \in InForce => term[t].status \in InForce
  BY <1>1, <1>2, <1>3, <1>4
<1> QED
  BY <1>5, NoneEnters

LEMMA OneCurrentTermStep == TypeOK /\ OneCurrentTerm /\ [Next]_vars => OneCurrentTerm'
<1> SUFFICES ASSUME TypeOK, OneCurrentTerm, [Next]_vars
             PROVE  OneCurrentTerm'
  OBVIOUS
<1> USE DEF TypeOK
<1>0. ASSUME UNCHANGED term
      PROVE  OneCurrentTerm'
  BY <1>0 DEF OneCurrentTerm, Current
<1>1. CASE TermStep
  <2>1. ASSUME NEW t \in Grants, NEW c \in Coupons \cup {NoCoupon}, CreateSubscription(t, c)
        PROVE  OneCurrentTerm'
    <3>1. t \in Terms
      BY DEF Terms
    <3>2. \A u \in Terms \ {t} : term'[u] = term[u]
      BY <2>1, <3>1 DEF CreateSubscription
    <3>3. \A u \in Terms : term[u].status \in InForce => Owner[u] # Owner[t]
      BY <2>1 DEF CreateSubscription, Current
    <3> QED
      BY <3>1, <3>2, <3>3, OneEnters
  <2>2. ASSUME NEW t \in Terms, Suspend(t) \/ Resume(t) \/ Cancel(t)
        PROVE  OneCurrentTerm'
    <3>1. term[t].status \in InForce
      BY <2>2 DEF Suspend, Resume, Cancel, InForce
    <3>2. \A u \in Terms \ {t} : term'[u] = term[u]
      BY <2>2 DEF Suspend, Resume, Cancel, Move
    <3> QED
      BY <3>1, <3>2, NoneEnters
  <2>3. ASSUME NEW old \in Terms, NEW new \in Grants, Renew(old, new) \/ Replace(old, new)
        PROVE  OneCurrentTerm'
    <3>1. PICK st \in {"EXPIRED", "CANCELLED"} : ReplaceTerm(old, new, st)
      BY <2>3 DEF Renew, Replace
    <3>2. new \in Terms /\ new # old /\ Owner[new] = Owner[old]
      BY <3>1 DEF ReplaceTerm, Terms
    <3>3. term'[old] = Moved(term[old], st)
      BY <3>1, <3>2 DEF ReplaceTerm
    <3>4. term'[old].status \notin InForce
      BY <3>3, MovedType DEF TermStatus, InForce
    <3>5. \A u \in Terms \ {old, new} : term'[u] = term[u]
      BY <3>1 DEF ReplaceTerm
    <3>6. \A u \in Terms : term[u].status \in InForce /\ Owner[u] = Owner[old] => u = old
      BY <3>1 DEF ReplaceTerm, Current
    <3> QED
      BY <3>2, <3>4, <3>5, <3>6, OneEnters
  <2> QED
    BY <1>1, <2>1, <2>2, <2>3 DEF TermStep
<1>2. CASE CheckoutStep
  <2>1. ASSUME NEW k \in Keys, NEW c, NEW prev,
               AdminCheckout(k, prev, c) \/ CustomerCheckout(k, c)
        PROVE  OneCurrentTerm'
    BY <2>1, StartCheckoutEntersNoTerm DEF AdminCheckout, CustomerCheckout
  <2>2. ASSUME NEW t \in Terms, NEW prev, CustomerOrder(t, prev)
        PROVE  OneCurrentTerm'
    BY <1>0, <2>2 DEF CustomerOrder
  <2>3. ASSUME NEW t \in Grants, ActivateFreePlan(t)
        PROVE  OneCurrentTerm'
    <3>1. t \in Terms
      BY DEF Terms
    <3>2. \A u \in Terms \ {t} :
            term'[u] = IF u \in Current(Owner[t]) THEN Moved(term[u], "EXPIRED") ELSE term[u]
      BY <2>3 DEF ActivateFreePlan
    <3>3. \A u \in Terms : Moved(term[u], "EXPIRED").status \notin InForce
      BY MovedType DEF TermStatus, InForce
    <3>4. \A u \in Terms \ {t} : term'[u].status \in InForce =>
            term[u].status \in InForce /\ Owner[u] # Owner[t]
      BY <3>2, <3>3 DEF Current
    <3> QED
      BY <3>1, <3>4, OneEnters
  <2>4. ASSUME NEW k \in Keys, AdminOrder(k) \/ CreateProviderOrder(k) \/ BindOrder(k)
        PROVE  OneCurrentTerm'
    BY <1>0, <2>4 DEF AdminOrder, CreateProviderOrder, BindOrder
  <2>5. ASSUME NEW t \in Terms, Abandon(t)
        PROVE  OneCurrentTerm'
    BY <1>0, <2>5 DEF Abandon
  <2> QED
    BY <1>2, <2>1, <2>2, <2>3, <2>4, <2>5 DEF CheckoutStep
<1>3. CASE PaymentStep
  <2>1. ASSUME NEW p \in Pays, NEW n, Capture(p) \/ Refund(p, n)
        PROVE  OneCurrentTerm'
    BY <1>0, <2>1 DEF Capture, Refund
  <2>2. ASSUME NEW p \in Pays, NEW seen, SettleRefund(p, seen)
        PROVE  OneCurrentTerm'
    <3> DEFINE k == PayFor[p]
    <3>1. k \in Terms
      BY ConstantsAssumption DEF Terms
    <3>2. \A t \in Terms : term'[t] = term[t] \/ term'[t] = Moved(term[t], "CANCELLED")
      BY <2>2 DEF SettleRefund
    <3>3. \A t \in Terms : Moved(term[t], "CANCELLED").status \notin InForce
      BY MovedType DEF TermStatus, InForce
    <3> QED
      BY <3>2, <3>3, NoneEnters
  <2>3. ASSUME NEW p \in Pays, NEW seen, NEW sawOpen,
               SettleReview(p, seen, sawOpen) \/ SettleAgain(p, seen)
        PROVE  OneCurrentTerm'
    BY <1>0, <2>3 DEF SettleReview, SettleAgain
  <2>4. ASSUME NEW p \in Pays, NEW seen, NEW sawOpen, SettlePaid(p, seen, sawOpen)
        PROVE  OneCurrentTerm'
    <3> DEFINE k == PayFor[p]
               prev == checkout[k].prev
    <3>1. k \in Terms
      BY ConstantsAssumption DEF Terms
    <3>2. ValidPrevious(k)
      BY <2>4 DEF SettlePaid, CanActivate
    <3>3. \A u \in Terms \ {k} :
            term'[u] = IF u = prev THEN Moved(term[u], "CANCELLED") ELSE term[u]
      BY <2>4 DEF SettlePaid
    <3>4. \A u \in Terms : Moved(term[u], "CANCELLED").status \notin InForce
      BY MovedType DEF TermStatus, InForce
    <3>5. \A u \in Terms \ {k} :
            term[u].status \in InForce /\ Owner[u] = Owner[k] => u = prev
      BY <3>2 DEF ValidPrevious, Current
    <3>6. \A u \in Terms \ {k} : term'[u].status \in InForce =>
            term[u].status \in InForce /\ Owner[u] # Owner[k]
      BY <3>3, <3>4, <3>5
    <3> QED
      BY <3>1, <3>6, OneEnters
  <2> QED
    BY <1>0, <1>3, <2>1, <2>2, <2>3, <2>4 DEF PaymentStep, SettlePayment, LoadApplication
<1>4. CASE SweepCommit
  BY <1>4, ExpiryTakesNothingIntoForce, NoneEnters DEF SweepCommit
<1>5. CASE Tick \/ Archive \/ SweepRead \/ UNCHANGED vars
  BY <1>0, <1>5 DEF Tick, Archive, SweepRead, vars
<1>6. CASE \E s \in Subs : RestrictSubscriber(s) \/ RestoreSubscriber(s)
  BY <1>0, <1>6 DEF RestrictSubscriber, RestoreSubscriber
<1> QED
  BY <1>1, <1>2, <1>3, <1>4, <1>5, <1>6 DEF Next

\* A subscriber never has two terms in force, in any interleaving of the four routes that
\* create terms with expiry, restriction, refunds and late payments.
THEOREM OneTermInForce == Spec => []OneCurrentTerm
<1>1. Init => OneCurrentTerm
  BY DEF Init, OneCurrentTerm, Current, EmptyTerm, InForce
<1> QED
  BY <1>1, TypeCorrect, OneCurrentTermStep, PTL DEF Spec
-----------------------------------------------------------------------------
(* Checkout, term, ledger, commission and job agree *)

\* What a step that moves terms without touching checkouts or payments may do to the term
\* of a checkout.
MovesLawfully(k) ==
  \/ term'[k] = term[k]
  \/ /\ term[k].status # "none" /\ term'[k].coupon = term[k].coupon
     /\ \/ term'[k].status \in Retired
        \/ term[k].status \in InForce /\ term'[k].status \in InForce

LEMMA TermsMoveLawfully ==
  ASSUME TypeOK, SettlementInv,
         UNCHANGED <<checkout, ledger, payment, orders, sweep, reversed>>,
         \A k \in Keys : /\ MovesLawfully(k)
                         /\ k \in earned' <=> k \in earned
                         /\ k \in redemptions' <=> k \in redemptions,
         \A t \in Terms : handler'[t].phase = "read" => term'[t].status = "none"
  PROVE  SettlementInv'
<1>1. PaymentsBound' /\ LedgerRows' /\ OrdersAreSaved'
  BY DEF SettlementInv, PaymentsBound, LedgerRows, OrdersAreSaved
<1>2. TermsFollowCheckouts'
  <2> SUFFICES ASSUME NEW k \in Keys
               PROVE  /\ checkout[k].status = "none" <=> term'[k].status = "none"
                      /\ term'[k].status \in InForce => checkout[k].status \in {"paid", "review"}
                      /\ checkout[k].status \in {"expired", "refunded"} =>
                           term'[k].status \in Retired
    BY DEF TermsFollowCheckouts
  <2>1. /\ checkout[k].status = "none" <=> term[k].status = "none"
        /\ term[k].status \in InForce => checkout[k].status \in {"paid", "review"}
        /\ checkout[k].status \in {"expired", "refunded"} => term[k].status \in Retired
    BY DEF SettlementInv, TermsFollowCheckouts
  <2>2. MovesLawfully(k)
    OBVIOUS
  <2> QED
    BY <2>1, <2>2 DEF MovesLawfully, Retired, InForce
<1>3. SweepHolds'
  <2> SUFFICES ASSUME NEW k \in Held
               PROVE  /\ Open(k) /\ checkout[k].payment = NoPay
                      /\ term'[k].status = "PENDING" =>
                           sweep[k].status = "PENDING" /\ sweep[k].version = term'[k].version
    BY DEF SweepHolds, Held, Open
  <2>1. MovesLawfully(k)
    BY DEF Held
  <2>2. term'[k].status = "PENDING" => term'[k] = term[k]
    BY <2>1 DEF MovesLawfully, Retired, InForce
  <2> QED
    BY <2>2 DEF SettlementInv, SweepHolds
<1>4. ReadersWait'
  BY DEF ReadersWait
<1>5. CommissionEarned'
  <2> SUFFICES ASSUME NEW k \in Keys
               PROVE  /\ k \in earned' => /\ checkout[k].status \in SettledStatus
                                          /\ Commissionable(k)'
                      /\ k \in reversed <=> k \in earned' /\ checkout[k].status = "refunded"
    BY DEF CommissionEarned
  <2>1. /\ k \in earned => checkout[k].status \in SettledStatus /\ Commissionable(k)
        /\ k \in reversed <=> k \in earned /\ checkout[k].status = "refunded"
    BY DEF SettlementInv, CommissionEarned
  <2>2. Commissionable(k)' <=> Commissionable(k)
    BY DEF Commissionable, MovesLawfully
  <2> QED
    BY <2>1, <2>2
<1> QED
  BY <1>1, <1>2, <1>3, <1>4, <1>5 DEF SettlementInv

LEMMA TermStepKeeps ==
  ASSUME TypeOK, SettlementInv, TermStep
  PROVE  SettlementInv'
<1> USE DEF TypeOK
<1>0. \A g \in Grants : g \in Terms /\ g \notin Keys
  BY ConstantsAssumption DEF Terms
<1>1. ASSUME NEW t \in Grants, NEW c \in Coupons \cup {NoCoupon}, CreateSubscription(t, c)
      PROVE  SettlementInv'
  <2>1. \A u \in Terms \ {t} : term'[u] = term[u]
    BY <1>0, <1>1 DEF CreateSubscription
  <2>2. \A k \in Keys : /\ MovesLawfully(k)
                        /\ k \in earned' <=> k \in earned
                        /\ k \in redemptions' <=> k \in redemptions
    BY <1>0, <1>1, <2>1 DEF CreateSubscription, MovesLawfully, Holds, Terms
  <2>3. \A u \in Terms : handler'[u].phase = "read" => term'[u].status = "none"
    BY <1>1, <2>1 DEF CreateSubscription, Unused, SettlementInv, ReadersWait
  <2> QED
    BY <1>1, <2>2, <2>3, TermsMoveLawfully DEF CreateSubscription, providerVars
<1>2. ASSUME NEW t \in Terms, Suspend(t) \/ Resume(t) \/ Cancel(t)
      PROVE  SettlementInv'
  <2>1. PICK st \in InForce \cup Retired : Move(t, st)
    BY <1>2 DEF Suspend, Resume, Cancel, InForce, Retired
  <2>2. term[t].status \in InForce
    BY <1>2 DEF Suspend, Resume, Cancel, InForce
  <2>3. /\ term'[t] = Moved(term[t], st)
        /\ \A u \in Terms \ {t} : term'[u] = term[u]
    BY <2>1 DEF Move
  <2>4. term'[t].status = st /\ term'[t].coupon = term[t].coupon
    BY <2>3, MovedType DEF TermStatus, InForce, Retired
  <2>5. \A k \in Keys : MovesLawfully(k)
    BY <2>2, <2>3, <2>4 DEF MovesLawfully, Terms, InForce, Retired
  <2>6. \A u \in Terms : handler'[u].phase = "read" => term'[u].status = "none"
    BY <2>1, <2>2, <2>3 DEF Move, InForce, SettlementInv, ReadersWait
  <2> QED
    BY <2>1, <2>5, <2>6, TermsMoveLawfully DEF Move, providerVars, couponVars
<1>3. ASSUME NEW old \in Terms, NEW new \in Grants, Renew(old, new) \/ Replace(old, new)
      PROVE  SettlementInv'
  <2>1. PICK st \in Retired : ReplaceTerm(old, new, st)
    BY <1>3 DEF Renew, Replace, Retired
  <2>2. term[old].status # "none"
    BY <1>3 DEF Renew, Replace, InForce
  <2>3. /\ term'[old] = Moved(term[old], st)
        /\ \A u \in Terms \ {old, new} : term'[u] = term[u]
    BY <1>0, <2>1 DEF ReplaceTerm
  <2>4. term'[old].status \in Retired /\ term'[old].coupon = term[old].coupon
    BY <2>3, MovedType DEF TermStatus, Retired
  <2>5. \A k \in Keys : MovesLawfully(k)
    BY <1>0, <2>2, <2>3, <2>4 DEF MovesLawfully, Terms
  <2>6. \A u \in Terms : handler'[u].phase = "read" => term'[u].status = "none"
    BY <2>1, <2>2, <2>3 DEF ReplaceTerm, Unused, SettlementInv, ReadersWait
  <2> QED
    BY <2>1, <2>5, <2>6, TermsMoveLawfully DEF ReplaceTerm, providerVars, couponVars
<1> QED
  BY <1>1, <1>2, <1>3 DEF TermStep

LEMMA ActivateFreePlanKeeps ==
  ASSUME TypeOK, SettlementInv, NEW t \in Grants, ActivateFreePlan(t)
  PROVE  SettlementInv'
<1> USE DEF TypeOK
<1>1. t \in Terms /\ t \notin Keys
  BY ConstantsAssumption DEF Terms
<1>2. \A u \in Terms \ {t} :
        term'[u] = IF u \in Current(Owner[t]) THEN Moved(term[u], "EXPIRED") ELSE term[u]
  BY DEF ActivateFreePlan
<1>3. \A u \in Terms : /\ Moved(term[u], "EXPIRED").status = "EXPIRED"
                       /\ Moved(term[u], "EXPIRED").coupon = term[u].coupon
  BY MovedType DEF TermStatus
<1>4. \A k \in Keys : MovesLawfully(k)
  BY <1>1, <1>2, <1>3 DEF MovesLawfully, Current, Terms, Retired, InForce
<1>5. \A u \in Terms : handler'[u].phase = "read" => u # t /\ handler[u].phase = "read"
  BY <1>1 DEF ActivateFreePlan, Idle
<1>6. \A u \in Terms : handler'[u].phase = "read" => term'[u].status = "none"
  BY <1>2, <1>5 DEF Current, InForce, SettlementInv, ReadersWait
<1> QED
  BY <1>4, <1>6, TermsMoveLawfully DEF ActivateFreePlan, providerVars, couponVars

\* What expire_stale_checkouts writes for a set S of open, unpaid checkouts: the order is
\* expired and its term, pending until now or retired before, is retired.
LEMMA ExpiryRetires ==
  ASSUME TypeOK, TermsFollowCheckouts, NEW S \in SUBSET Keys, NEW seen, NEW k \in S, Open(k),
         term[k].status = "PENDING" => seen[k].status = "PENDING"
  PROVE  /\ ExpiredTerms(S, seen)[k].status \in Retired
         /\ ExpiredTerms(S, seen)[k].coupon = term[k].coupon
         /\ ExpiredCheckouts(S)[k].status = "expired"
         /\ ExpiredCheckouts(S)[k].payment = checkout[k].payment
<1>1. k \in Terms /\ term[k] \in Term /\ checkout[k] \in Checkout
  BY DEF TypeOK, Terms
<1>2. term[k].status \in {"PENDING"} \cup Retired
  BY <1>1 DEF TermsFollowCheckouts, Open, OpenStatus, Retired, InForce, Term, TermStatus
<1>3. /\ ExpiredTerms(S, seen)[k].status \in Retired
      /\ ExpiredTerms(S, seen)[k].coupon = term[k].coupon
  <2>1. CASE seen[k].status = "PENDING"
    BY <1>1, <2>1 DEF ExpiredTerms, Retired, Term
  <2>2. CASE seen[k].status # "PENDING"
    BY <1>1, <1>2, <2>2 DEF ExpiredTerms, Retired
  <2> QED
    BY <2>1, <2>2
<1>4. /\ ExpiredCheckouts(S)[k].status = "expired"
      /\ ExpiredCheckouts(S)[k].payment = checkout[k].payment
  BY <1>1 DEF ExpiredCheckouts, Checkout
<1> QED
  BY <1>3, <1>4

LEMMA OutsideExpiry ==
  ASSUME TypeOK, NEW S, NEW seen
  PROVE  /\ \A t \in Terms \ S : ExpiredTerms(S, seen)[t] = term[t]
         /\ \A k \in Keys \ S : ExpiredCheckouts(S)[k] = checkout[k]
  BY DEF TypeOK, ExpiredTerms, ExpiredCheckouts

\* Both callers of expire_stale_checkouts: a set of open and unpaid checkouts expires.
LEMMA ExpiryKeeps ==
  ASSUME TypeOK, SettlementInv, NEW S \in SUBSET Keys, NEW seen,
         \A k \in S : /\ Open(k) /\ checkout[k].payment = NoPay
                      /\ term[k].status = "PENDING" => seen[k].status = "PENDING"
  PROVE  \A k \in Keys :
           LET co == ExpiredCheckouts(S)[k]
               te == ExpiredTerms(S, seen)[k]
           IN  /\ co.payment = checkout[k].payment
               /\ k \notin S => co = checkout[k] /\ te = term[k]
               /\ k \in S => /\ co.status = "expired" /\ te.status \in Retired
                             /\ k \notin earned /\ k \notin reversed
               /\ te.coupon = term[k].coupon
<1> SUFFICES ASSUME NEW k \in Keys
             PROVE  LET co == ExpiredCheckouts(S)[k]
                        te == ExpiredTerms(S, seen)[k]
                    IN  /\ co.payment = checkout[k].payment
                        /\ k \notin S => co = checkout[k] /\ te = term[k]
                        /\ k \in S => /\ co.status = "expired" /\ te.status \in Retired
                                      /\ k \notin earned /\ k \notin reversed
                        /\ te.coupon = term[k].coupon
  OBVIOUS
<1>1. CASE k \in S
  <2>1. k \notin earned /\ k \notin reversed
    BY <1>1 DEF SettlementInv, CommissionEarned, Open, OpenStatus, SettledStatus
  <2> QED
    BY <1>1, <2>1, ExpiryRetires DEF SettlementInv
<1>2. CASE k \notin S
  BY <1>2, OutsideExpiry DEF Terms
<1> QED
  BY <1>1, <1>2

LEMMA StartCheckoutKeeps ==
  ASSUME TypeOK, SettlementInv, NEW k \in Keys, NEW prev \in Terms \cup {NoTerm},
         NEW version \in Nat, NEW c \in Coupons \cup {NoCoupon}, NEW customer \in BOOLEAN,
         StartCheckout(k, prev, version, c, customer)
  PROVE  SettlementInv'
<1> DEFINE old  == StaleOf(Owner[k])
           gone == Released(old)
           intent == [EmptyCheckout EXCEPT !.status = "creating", !.prev = prev,
                        !.prevVersion = version, !.created = now, !.customer = customer]
<1>1. /\ checkout' = [ExpiredCheckouts(old) EXCEPT ![k] = intent]
      /\ term' = [ExpiredTerms(old, term) EXCEPT ![k] = NewTerm("PENDING", c)]
      /\ handler' = [handler EXCEPT ![k] = Calling]
      /\ redemptions' = (redemptions \ gone) \cup Holds(k, c)
      /\ UNCHANGED <<orders, payment, ledger, earned, reversed, sweep>>
      /\ checkout[k].status = "none" /\ old \cap Held = {}
  BY DEF StartCheckout, providerVars
<1>2. /\ old \in SUBSET Keys
      /\ \A j \in old : Open(j) /\ checkout[j].payment = NoPay
  BY DEF StaleOf, Stale
<1>3. k \in Terms /\ k \notin old /\ k \notin Held
  BY <1>1, <1>2 DEF Terms, Open, OpenStatus, SettlementInv, SweepHolds
<1>4. intent.status = "creating" /\ intent.payment = NoPay
  BY DEF EmptyCheckout
<1>5. /\ ExpiredCheckouts(old) = [j \in Keys |-> ExpiredCheckouts(old)[j]]
      /\ ExpiredTerms(old, term) = [t \in Terms |-> ExpiredTerms(old, term)[t]]
  BY DEF ExpiredCheckouts, ExpiredTerms
<1> HIDE DEF old, gone, intent
<1>6. /\ checkout'[k] = intent /\ term'[k] = NewTerm("PENDING", c)
      /\ \A j \in Keys \ {k} : checkout'[j] = ExpiredCheckouts(old)[j]
      /\ \A t \in Terms \ {k} : term'[t] = ExpiredTerms(old, term)[t]
  BY <1>1, <1>3, <1>5
<1>7. \A j \in Keys \ {k} :
        /\ checkout'[j].payment = checkout[j].payment
        /\ j \notin old => checkout'[j] = checkout[j] /\ term'[j] = term[j]
        /\ j \in old => /\ checkout'[j].status = "expired" /\ term'[j].status \in Retired
                        /\ j \notin earned /\ j \notin reversed
        /\ term'[j].coupon = term[j].coupon
  BY <1>2, <1>6, ExpiryKeeps DEF Terms
<1>8. k \notin earned /\ k \notin reversed /\ checkout[k].payment = NoPay
  BY <1>1 DEF SettlementInv, CommissionEarned, PaymentsBound, SettledStatus
<1>9. NewTerm("PENDING", c).status = "PENDING"
  BY DEF NewTerm
<1>10. PaymentsBound'
  BY <1>1, <1>2, <1>4, <1>6, <1>7
  DEF SettlementInv, PaymentsBound, SettledStatus
<1>11. LedgerRows'
  <2> SUFFICES ASSUME NEW p \in Pays
               PROVE  /\ ledger[p].recorded =>
                           /\ payment[p].captured /\ ledger[p].refunded <= payment[p].refunded
                           /\ checkout'[PayFor[p]].payment = p
                           /\ (ledger[p].refunded = FullAmount)
                                <=> (checkout'[PayFor[p]].status = "refunded")
                      /\ ~ledger[p].recorded => ledger[p].refunded = 0
    BY <1>1 DEF LedgerRows
  <2>1. ledger[p].recorded => checkout[PayFor[p]].payment = p /\ p # NoPay /\ PayFor[p] \in Keys
    BY ConstantsAssumption DEF SettlementInv, LedgerRows
  <2>2. ledger[p].recorded => checkout'[PayFor[p]] = checkout[PayFor[p]]
    BY <1>2, <1>7, <1>8, <2>1
  <2> QED
    BY <2>2 DEF SettlementInv, LedgerRows
<1>12. TermsFollowCheckouts'
  <2> SUFFICES ASSUME NEW j \in Keys
               PROVE  /\ (checkout'[j].status = "none") <=> (term'[j].status = "none")
                      /\ term'[j].status \in InForce => checkout'[j].status \in {"paid", "review"}
                      /\ checkout'[j].status \in {"expired", "refunded"} =>
                           term'[j].status \in Retired
    BY DEF TermsFollowCheckouts
  <2>1. CASE j = k
    BY <1>4, <1>6, <1>9, <2>1 DEF InForce
  <2>2. CASE j # k /\ j \in old
    BY <1>7, <2>2 DEF Retired, InForce
  <2>3. CASE j # k /\ j \notin old
    BY <1>7, <2>3 DEF SettlementInv, TermsFollowCheckouts
  <2> QED
    BY <2>1, <2>2, <2>3
<1>13. OrdersAreSaved'
  BY <1>1, <1>4, <1>6, <1>7 DEF SettlementInv, OrdersAreSaved, TypeOK
<1>14. SweepHolds'
  <2>1. Held' = Held /\ Held \subseteq Keys
    BY <1>1 DEF Held
  <2>2. \A j \in Held : checkout'[j] = checkout[j] /\ term'[j] = term[j]
    BY <1>1, <1>3, <1>7, <2>1
  <2> QED
    BY <1>1, <2>1, <2>2 DEF SettlementInv, SweepHolds, Open
<1>15. ReadersWait'
  <2> SUFFICES ASSUME NEW t \in Terms, handler'[t].phase = "read"
               PROVE  term'[t].status = "none"
    BY DEF ReadersWait
  <2>1. t # k /\ handler[t].phase = "read"
    BY <1>1, <1>3 DEF Calling, TypeOK
  <2>2. term[t].status = "none"
    BY <2>1 DEF SettlementInv, ReadersWait
  <2>3. t \notin old
    BY <1>2, <2>2 DEF Open, OpenStatus, SettlementInv, TermsFollowCheckouts
  <2> QED
    BY <1>6, <2>1, <2>2, <2>3, OutsideExpiry
<1>16. CommissionEarned'
  <2> SUFFICES ASSUME NEW j \in Keys
               PROVE  /\ j \in earned => checkout'[j].status \in SettledStatus /\ Commissionable(j)'
                      /\ (j \in reversed) <=> (j \in earned /\ checkout'[j].status = "refunded")
    BY <1>1 DEF CommissionEarned
  <2>1. CASE j = k
    BY <1>4, <1>6, <1>8, <2>1
  <2>2. CASE j # k /\ j \in old
    BY <1>7, <2>2
  <2>3. CASE j # k /\ j \notin old
    <3>1. j \in redemptions => j \in redemptions'
      BY <1>1, <2>3 DEF gone, Released
    <3> QED
      BY <1>7, <2>3, <3>1 DEF SettlementInv, CommissionEarned, Commissionable
  <2> QED
    BY <2>1, <2>2, <2>3
<1> QED
  BY <1>10, <1>11, <1>12, <1>13, <1>14, <1>15, <1>16 DEF SettlementInv

\* The steps that touch neither term, checkout, ledger row, commission nor the job's locks.
LEMMA QuietStepKeeps ==
  ASSUME TypeOK, SettlementInv,
         UNCHANGED <<term, checkout, ledger, redemptions, earned, reversed, sweep>>,
         \A k \in orders' : k \in orders \/ checkout[k].status # "none",
         \A t \in Terms : handler'[t].phase = "read" => term[t].status = "none",
         \A p \in Pays : /\ payment[p].captured => payment'[p].captured
                         /\ payment[p].refunded <= payment'[p].refunded
                         /\ payment'[p].refunded \in 0..FullAmount
  PROVE  SettlementInv'
<1>1. PaymentsBound' /\ TermsFollowCheckouts' /\ OrdersAreSaved' /\ ReadersWait'
  BY DEF SettlementInv, PaymentsBound, TermsFollowCheckouts, OrdersAreSaved, ReadersWait
<1>2. LedgerRows'
  <2> SUFFICES ASSUME NEW p \in Pays
               PROVE  /\ ledger[p].recorded =>
                           /\ payment'[p].captured /\ ledger[p].refunded <= payment'[p].refunded
                           /\ checkout[PayFor[p]].payment = p
                           /\ (ledger[p].refunded = FullAmount)
                                <=> (checkout[PayFor[p]].status = "refunded")
                      /\ ~ledger[p].recorded => ledger[p].refunded = 0
    BY DEF LedgerRows
  <2>1. /\ ledger[p].refunded \in Int /\ payment[p].refunded \in Int
        /\ payment'[p].refunded \in Int
    BY ConstantsAssumption DEF TypeOK
  <2> QED
    BY <2>1 DEF SettlementInv, LedgerRows
<1>3. SweepHolds'
  BY DEF SettlementInv, SweepHolds, Held, Open
<1>4. CommissionEarned'
  BY DEF SettlementInv, CommissionEarned, Commissionable
<1> QED
  BY <1>1, <1>2, <1>3, <1>4 DEF SettlementInv

LEMMA QuietActionsKeep ==
  ASSUME TypeOK, SettlementInv,
         \/ Tick \/ Archive
         \/ \E s \in Subs : RestrictSubscriber(s) \/ RestoreSubscriber(s)
         \/ \E t \in Terms, prev \in Terms \cup {NoTerm} : CustomerOrder(t, prev)
         \/ \E k \in Keys : AdminOrder(k) \/ CreateProviderOrder(k) \/ LoadApplication(k)
         \/ \E t \in Terms : Abandon(t)
         \/ \E p \in Pays : Capture(p) \/ \E n \in 0..FullAmount : Refund(p, n)
  PROVE  SettlementInv'
<1> USE DEF TypeOK, providerVars, couponVars, clockVars
<1>0. /\ \A t \in Terms : handler[t].phase = "read" => term[t].status = "none"
      /\ \A p \in Pays : payment[p].refunded <= payment[p].refunded
  BY ConstantsAssumption DEF SettlementInv, ReadersWait
<1>1. CASE Tick
  BY <1>0, <1>1, QuietStepKeeps DEF Tick
<1>2. CASE Archive
  BY <1>0, <1>2, QuietStepKeeps DEF Archive
<1>3. CASE \E s \in Subs : RestrictSubscriber(s) \/ RestoreSubscriber(s)
  BY <1>0, <1>3, QuietStepKeeps DEF RestrictSubscriber, RestoreSubscriber
<1>4. ASSUME NEW t \in Terms, NEW prev \in Terms \cup {NoTerm}, CustomerOrder(t, prev)
      PROVE  SettlementInv'
  <2>1. \A u \in Terms : handler'[u].phase = "read" => term[u].status = "none"
    BY <1>0, <1>4 DEF CustomerOrder, Unused
  <2> QED
    BY <1>0, <1>4, <2>1, QuietStepKeeps DEF CustomerOrder
<1>5. ASSUME NEW k \in Keys, CreateProviderOrder(k) \/ LoadApplication(k)
      PROVE  SettlementInv'
  BY <1>0, <1>5, QuietStepKeeps DEF CreateProviderOrder, LoadApplication
<1>6. ASSUME NEW t \in Terms, Abandon(t)
      PROVE  SettlementInv'
  <2>1. \A u \in Terms : handler'[u].phase = "read" => term[u].status = "none"
    BY <1>0, <1>6 DEF Abandon, Idle
  <2> QED
    BY <1>0, <1>6, <2>1, QuietStepKeeps DEF Abandon
<1>7. ASSUME NEW p \in Pays, Capture(p)
      PROVE  SettlementInv'
  <2>1. \A q \in Pays : /\ payment[q].captured => payment'[q].captured
                        /\ payment'[q].refunded = payment[q].refunded
    BY <1>7 DEF Capture
  <2> QED
    BY <1>0, <1>7, <2>1, QuietStepKeeps DEF Capture
<1>8. ASSUME NEW p \in Pays, NEW n \in 0..FullAmount, Refund(p, n)
      PROVE  SettlementInv'
  <2>1. \A q \in Pays : /\ payment[q].captured => payment'[q].captured
                        /\ payment[q].refunded <= payment'[q].refunded
                        /\ payment'[q].refunded \in 0..FullAmount
    BY <1>0, <1>8, ConstantsAssumption DEF Refund
  <2> QED
    BY <1>0, <1>8, <2>1, QuietStepKeeps DEF Refund
<1>9. ASSUME NEW k \in Keys, AdminOrder(k)
      PROVE  SettlementInv'
  <2>1. \A u \in Terms : handler'[u].phase = "read" => term[u].status = "none"
    BY <1>0, <1>9 DEF AdminOrder, Opening
  <2> QED
    BY <1>0, <1>9, <2>1, QuietStepKeeps DEF AdminOrder
<1> QED
  BY <1>1, <1>2, <1>3, <1>4, <1>5, <1>6, <1>7, <1>8, <1>9

LEMMA BindOrderKeeps ==
  ASSUME TypeOK, SettlementInv, NEW k \in Keys, BindOrder(k)
  PROVE  SettlementInv'
<1> USE DEF TypeOK, providerVars, couponVars
<1>1. /\ checkout'[k] = BoundOrder(checkout[k])
      /\ \A j \in Keys \ {k} : checkout'[j] = checkout[j]
      /\ UNCHANGED <<term, orders, payment, ledger, redemptions, earned, reversed, sweep>>
      /\ k \in orders /\ k \notin Held
  BY DEF BindOrder
<1>2. /\ checkout'[k].payment = checkout[k].payment
      /\ checkout'[k].status = IF checkout[k].status = "creating" THEN "ready"
                               ELSE checkout[k].status
  BY <1>1, BoundOrderType
<1>3. \A j \in Keys : /\ checkout'[j].payment = checkout[j].payment
                      /\ \A st \in CheckoutStatus \ OpenStatus :
                           (checkout'[j].status = st) <=> (checkout[j].status = st)
  BY <1>1, <1>2 DEF OpenStatus, CheckoutStatus, SettledStatus
<1>4. "none" \in CheckoutStatus \ OpenStatus /\ "expired" \in CheckoutStatus \ OpenStatus
      /\ SettledStatus \subseteq CheckoutStatus \ OpenStatus
      /\ "refunded" \in SettledStatus /\ "paid" \in SettledStatus /\ "review" \in SettledStatus
  BY DEF OpenStatus, CheckoutStatus, SettledStatus
<1>5. \A j \in Keys : (checkout'[j].status \in SettledStatus)
                        <=> (checkout[j].status \in SettledStatus)
  BY <1>3, <1>4
<1>6. PaymentsBound'
  BY <1>1, <1>3, <1>5 DEF SettlementInv, PaymentsBound
<1>7. LedgerRows'
  <2>1. \A p \in Pays : PayFor[p] \in Keys
    BY ConstantsAssumption
  <2> QED
    BY <1>1, <1>3, <1>4, <2>1 DEF SettlementInv, LedgerRows
<1>8. TermsFollowCheckouts' /\ OrdersAreSaved'
  BY <1>1, <1>3, <1>4 DEF SettlementInv, TermsFollowCheckouts, OrdersAreSaved
<1>9. SweepHolds'
  BY <1>1 DEF SettlementInv, SweepHolds, Held, Open
<1>10. ReadersWait'
  BY <1>1 DEF BindOrder, Idle, SettlementInv, ReadersWait
<1>11. CommissionEarned'
  BY <1>1, <1>3, <1>4, <1>5 DEF SettlementInv, CommissionEarned, Commissionable
<1> QED
  BY <1>6, <1>7, <1>8, <1>9, <1>10, <1>11 DEF SettlementInv
-----------------------------------------------------------------------------
(* Settlement *)

\* What a response that arrives may rely on: the order it is for was saved, its term exists,
\* the job does not hold it, and no other payment has a ledger row for it.
LEMMA ArrivesFinds ==
  ASSUME TypeOK, SettlementInv, NEW p \in Pays, NEW seen \in 0..FullAmount, Arrives(p, seen)
  PROVE  LET k == PayFor[p]
         IN  /\ k \in Keys /\ k \in Terms /\ k \notin Held
             /\ checkout[k].status # "none" /\ term[k].status # "none"
             /\ checkout[k].status \in SettledStatus =>
                  checkout[k].payment = p /\ ledger[p].recorded
             /\ \A q \in Pays \ {p} : PayFor[q] = k => ~ledger[q].recorded
             /\ payment[p].captured /\ p # NoPay
             /\ KnownRefund(p, seen) <= payment[p].refunded
<1> DEFINE k == PayFor[p]
<1>1. k \in Keys /\ k \in Terms /\ p # NoPay
  BY ConstantsAssumption DEF Terms
<1>2. /\ k \in orders /\ k \notin Held /\ payment[p].captured /\ seen <= payment[p].refunded
      /\ checkout[k].payment \in {NoPay, p}
  BY DEF Arrives
<1>3. checkout[k].status # "none" /\ term[k].status # "none"
  BY <1>1, <1>2 DEF SettlementInv, OrdersAreSaved, TermsFollowCheckouts
<1>4. checkout[k].status \in SettledStatus => checkout[k].payment = p /\ ledger[p].recorded
  BY <1>1, <1>2 DEF SettlementInv, PaymentsBound
<1>5. \A q \in Pays \ {p} : PayFor[q] = k => ~ledger[q].recorded
  BY <1>2, ConstantsAssumption DEF SettlementInv, LedgerRows
<1>6. KnownRefund(p, seen) <= payment[p].refunded
  <2>1. ledger[p].refunded <= payment[p].refunded
    <3>1. CASE ledger[p].recorded
      BY <3>1 DEF SettlementInv, LedgerRows
    <3>2. CASE ~ledger[p].recorded
      BY <3>2, ConstantsAssumption DEF SettlementInv, LedgerRows, TypeOK
    <3> QED
      BY <3>1, <3>2
  <2> QED
    BY <1>2, <2>1 DEF KnownRefund, Larger
<1> QED
  BY <1>1, <1>2, <1>3, <1>4, <1>5, <1>6

\* Whatever the outcome, recording it keeps the rows in step when the handler has moved the
\* term and the commission the way that outcome requires.
LEMMA RecordKeeps ==
  ASSUME TypeOK, SettlementInv, NEW p \in Pays, NEW seen \in 0..FullAmount, Arrives(p, seen),
         NEW st \in SettledStatus, NEW n \in 0..FullAmount, Record(p, st, n),
         n <= payment[p].refunded, (n = FullAmount) <=> (st = "refunded"),
         \A t \in Terms \ {PayFor[p]} :
           \/ term'[t] = term[t]
           \/ /\ term[t].status # "none" /\ term'[t].status \in Retired
              /\ term'[t].coupon = term[t].coupon,
         term'[PayFor[p]].status # "none",
         term'[PayFor[p]].coupon = term[PayFor[p]].coupon,
         term'[PayFor[p]].status \in InForce => st \in {"paid", "review"},
         st = "refunded" => term'[PayFor[p]].status \in Retired,
         \A j \in Keys \ {PayFor[p]} : /\ (j \in earned') <=> (j \in earned)
                                       /\ (j \in reversed') <=> (j \in reversed),
         PayFor[p] \in earned' => Commissionable(PayFor[p]),
         (PayFor[p] \in reversed') <=> (PayFor[p] \in earned' /\ st = "refunded")
  PROVE  SettlementInv'
<1> DEFINE k == PayFor[p]
<1>1. /\ k \in Keys /\ k \in Terms /\ k \notin Held /\ p # NoPay
      /\ checkout[k].status # "none" /\ term[k].status # "none" /\ payment[p].captured
      /\ \A q \in Pays \ {p} : PayFor[q] = k => ~ledger[q].recorded
  BY ArrivesFinds
<1>2. checkout'[k].payment = p /\ checkout'[k].status = st
  <2>1. st \in CheckoutStatus /\ checkout[k] \in Checkout
    BY <1>1 DEF CheckoutStatus, TypeOK
  <2>2. checkout'[k] = Settled(checkout[k], p, st)
    BY <1>1 DEF Record, TypeOK
  <2> QED
    BY <2>1, <2>2, SettledType
<1>3. /\ \A j \in Keys \ {k} : checkout'[j] = checkout[j]
      /\ ledger'[p].recorded /\ ledger'[p].refunded = n
      /\ \A q \in Pays \ {p} : ledger'[q] = ledger[q]
      /\ UNCHANGED <<handler, orders, payment, redemptions, sweep>>
  BY DEF Record, TypeOK, providerVars
<1>4. st \notin OpenStatus \cup {"none", "expired"}
  BY DEF SettledStatus, OpenStatus
<1>5. PaymentsBound'
  <2> SUFFICES ASSUME NEW j \in Keys
               PROVE  /\ (checkout'[j].payment # NoPay) <=> (checkout'[j].status \in SettledStatus)
                      /\ checkout'[j].payment # NoPay =>
                           PayFor[checkout'[j].payment] = j /\ ledger'[checkout'[j].payment].recorded
    BY DEF PaymentsBound
  <2>1. CASE j = k
    BY <1>1, <1>2, <1>3, <2>1
  <2>2. CASE j # k
    <3>1. checkout[j].payment # NoPay => checkout[j].payment \in Pays \ {p}
      BY <1>1, <2>2 DEF SettlementInv, PaymentsBound, TypeOK, Checkout
    <3> QED
      BY <1>3, <2>2, <3>1 DEF SettlementInv, PaymentsBound
  <2> QED
    BY <2>1, <2>2
<1>6. LedgerRows'
  <2> SUFFICES ASSUME NEW q \in Pays
               PROVE  /\ ledger'[q].recorded =>
                           /\ payment[q].captured /\ ledger'[q].refunded <= payment[q].refunded
                           /\ checkout'[PayFor[q]].payment = q
                           /\ (ledger'[q].refunded = FullAmount)
                                <=> (checkout'[PayFor[q]].status = "refunded")
                      /\ ~ledger'[q].recorded => ledger'[q].refunded = 0
    BY <1>3 DEF LedgerRows
  <2>1. CASE q = p
    BY <1>1, <1>2, <1>3, <2>1
  <2>2. CASE q # p /\ PayFor[q] = k
    BY <1>1, <1>3, <2>2 DEF SettlementInv, LedgerRows
  <2>3. CASE q # p /\ PayFor[q] # k
    <3>1. PayFor[q] \in Keys \ {k}
      BY <2>3, ConstantsAssumption
    <3> QED
      BY <1>3, <2>3, <3>1 DEF SettlementInv, LedgerRows
  <2> QED
    BY <2>1, <2>2, <2>3
<1>7. TermsFollowCheckouts'
  <2> SUFFICES ASSUME NEW j \in Keys
               PROVE  /\ (checkout'[j].status = "none") <=> (term'[j].status = "none")
                      /\ term'[j].status \in InForce => checkout'[j].status \in {"paid", "review"}
                      /\ checkout'[j].status \in {"expired", "refunded"} =>
                           term'[j].status \in Retired
    BY DEF TermsFollowCheckouts
  <2>1. CASE j = k
    BY <1>2, <1>4, <2>1
  <2>2. CASE j # k /\ term'[j] = term[j]
    BY <1>3, <2>2 DEF SettlementInv, TermsFollowCheckouts
  <2>3. CASE j # k /\ term[j].status # "none" /\ term'[j].status \in Retired
    BY <1>3, <2>3 DEF SettlementInv, TermsFollowCheckouts, Retired, InForce
  <2> QED
    BY <2>1, <2>2, <2>3 DEF Terms
<1>8. OrdersAreSaved'
  BY <1>2, <1>3, <1>4 DEF SettlementInv, OrdersAreSaved, TypeOK
<1>9. SweepHolds'
  <2> SUFFICES ASSUME NEW j \in Held
               PROVE  /\ checkout'[j].status \in OpenStatus /\ checkout'[j].payment = NoPay
                      /\ term'[j].status = "PENDING" =>
                           sweep[j].status = "PENDING" /\ sweep[j].version = term'[j].version
    BY <1>3 DEF SweepHolds, Held, Open
  <2>1. j \in Keys \ {k} /\ j \in Terms
    BY <1>1 DEF Held, Terms
  <2>2. term'[j].status = "PENDING" => term'[j] = term[j]
    BY <2>1 DEF Retired
  <2> QED
    BY <1>3, <2>1, <2>2 DEF SettlementInv, SweepHolds, Open
<1>10. ReadersWait'
  <2> SUFFICES ASSUME NEW t \in Terms, handler[t].phase = "read"
               PROVE  term'[t].status = "none"
    BY <1>3 DEF ReadersWait
  <2> QED
    BY <1>1 DEF SettlementInv, ReadersWait
<1>11. CommissionEarned'
  <2> SUFFICES ASSUME NEW j \in Keys
               PROVE  /\ j \in earned' => checkout'[j].status \in SettledStatus /\ Commissionable(j)'
                      /\ (j \in reversed') <=> (j \in earned' /\ checkout'[j].status = "refunded")
    BY DEF CommissionEarned
  <2>1. term'[j].coupon = term[j].coupon
    BY DEF Terms
  <2>2. Commissionable(j)' <=> Commissionable(j)
    BY <1>3, <2>1 DEF Commissionable
  <2>3. CASE j = k
    BY <1>2, <2>2, <2>3
  <2>4. CASE j # k
    BY <1>3, <2>2, <2>4 DEF SettlementInv, CommissionEarned
  <2> QED
    BY <2>3, <2>4
<1> QED
  BY <1>5, <1>6, <1>7, <1>8, <1>9, <1>10, <1>11 DEF SettlementInv

LEMMA SettleRefundKeeps ==
  ASSUME TypeOK, SettlementInv, NEW p \in Pays, NEW seen \in 0..FullAmount,
         SettleRefund(p, seen)
  PROVE  SettlementInv'
<1> DEFINE k  == PayFor[p]
           n  == KnownRefund(p, seen)
           st == RefundStatus(n)
<1>1. /\ k \in Keys /\ k \in Terms /\ term[k].status # "none"
      /\ checkout[k].status \in SettledStatus => ledger[p].recorded /\ checkout[k].payment = p
      /\ n <= payment[p].refunded
  BY ArrivesFinds DEF SettleRefund
<1>2. Arrives(p, seen) /\ Record(p, st, n)
  BY DEF SettleRefund
<1>3. n \in 0..FullAmount /\ n >= ledger[p].refunded
  BY KnownRefundType
<1>4. st \in SettledStatus /\ ((n = FullAmount) <=> (st = "refunded"))
  BY DEF RefundStatus, FullyRefunded, SettledStatus
<1>5. /\ \A t \in Terms \ {k} : term'[t] = term[t]
      /\ term'[k] = IF FullyRefunded(n) /\ term[k].status \in Revocable
                    THEN Moved(term[k], "CANCELLED") ELSE term[k]
      /\ reversed' = IF Reverses(k, n) THEN reversed \cup {k} ELSE reversed
      /\ earned' = earned
  BY <1>1 DEF SettleRefund, TypeOK
<1>6. /\ Moved(term[k], "CANCELLED").status = "CANCELLED"
      /\ Moved(term[k], "CANCELLED").coupon = term[k].coupon
      /\ term[k].status \in TermStatus
  BY <1>1, MovedType DEF TypeOK, TermStatus, Term
<1>7. /\ term'[k].status # "none" /\ term'[k].coupon = term[k].coupon
      /\ term'[k].status \in InForce => st \in {"paid", "review"}
      /\ st = "refunded" => term'[k].status \in Retired
  <2>1. CASE st = "refunded"
    BY <1>1, <1>4, <1>5, <1>6, <2>1
    DEF FullyRefunded, Revocable, TermStatus, Retired, InForce
  <2>2. CASE st # "refunded"
    BY <1>1, <1>4, <1>5, <2>2 DEF FullyRefunded, SettledStatus
  <2> QED
    BY <2>1, <2>2
<1>8. k \in earned => Commissionable(k)
  BY <1>1 DEF SettlementInv, CommissionEarned
<1>9. (k \in reversed') <=> (k \in earned' /\ st = "refunded")
  <2>1. k \in reversed => k \in earned /\ st = "refunded"
    <3>1. ASSUME k \in reversed
          PROVE  checkout[k].status = "refunded" /\ k \in earned
      BY <1>1, <3>1 DEF SettlementInv, CommissionEarned
    <3>2. ASSUME k \in reversed
          PROVE  ledger[p].refunded = FullAmount
      BY <1>1, <3>1, <3>2 DEF SettlementInv, LedgerRows, SettledStatus
    <3> QED
      BY <1>3, <1>4, <3>1, <3>2, ConstantsAssumption DEF TypeOK
  <2> QED
    BY <1>4, <1>5, <1>8, <2>1 DEF Reverses, FullyRefunded
<1>10. \A j \in Keys \ {k} : /\ (j \in earned') <=> (j \in earned)
                             /\ (j \in reversed') <=> (j \in reversed)
  BY <1>5
<1>11. k \in earned' => Commissionable(k)
  BY <1>5, <1>8
<1> HIDE DEF n, st
<1> QED
  BY <1>1, <1>2, <1>3, <1>4, <1>5, <1>7, <1>9, <1>10, <1>11, RecordKeeps

\* A first capture finds no commission of its order.
LEMMA FirstCaptureFinds ==
  ASSUME TypeOK, SettlementInv, NEW p \in Pays, NEW seen \in 0..FullAmount,
         FirstCapture(p, seen)
  PROVE  /\ Arrives(p, seen) /\ 0 <= payment[p].refunded
         /\ PayFor[p] \in Keys /\ PayFor[p] \in Terms /\ term[PayFor[p]].status # "none"
         /\ PayFor[p] \notin earned /\ PayFor[p] \notin reversed
         /\ checkout[PayFor[p]].status \in {"expired"} \cup OpenStatus
<1>1. Arrives(p, seen) /\ checkout[PayFor[p]].status \notin SettledStatus
  BY DEF FirstCapture
<1>2. /\ PayFor[p] \in Keys /\ PayFor[p] \in Terms /\ term[PayFor[p]].status # "none"
      /\ checkout[PayFor[p]].status # "none"
  BY <1>1, ArrivesFinds
<1>3. checkout[PayFor[p]].status \in CheckoutStatus /\ 0 <= payment[p].refunded
  BY <1>2, ConstantsAssumption DEF TypeOK, Checkout
<1>4. PayFor[p] \notin earned /\ PayFor[p] \notin reversed
  BY <1>1, <1>2 DEF SettlementInv, CommissionEarned
<1> QED
  BY <1>1, <1>2, <1>3, <1>4 DEF CheckoutStatus

LEMMA SettleReviewKeeps ==
  ASSUME TypeOK, SettlementInv, NEW p \in Pays, NEW seen \in 0..FullAmount, NEW sawOpen,
         SettleReview(p, seen, sawOpen)
  PROVE  SettlementInv'
<1> DEFINE k == PayFor[p]
<1>1. /\ Arrives(p, seen) /\ 0 <= payment[p].refunded
      /\ k \in Keys /\ k \in Terms /\ term[k].status # "none" /\ k \notin earned /\ k \notin reversed
  BY FirstCaptureFinds DEF SettleReview
<1>2. Record(p, "review", 0) /\ term' = term /\ earned' = earned /\ reversed' = reversed
  BY DEF SettleReview
<1>3. 0 \in 0..FullAmount /\ FullAmount # 0 /\ "review" \in SettledStatus
  BY ConstantsAssumption DEF SettledStatus
<1> QED
  BY <1>1, <1>2, <1>3, RecordKeeps

LEMMA SettlePaidKeeps ==
  ASSUME TypeOK, SettlementInv, NEW p \in Pays, NEW seen \in 0..FullAmount, NEW sawOpen,
         SettlePaid(p, seen, sawOpen)
  PROVE  SettlementInv'
<1> DEFINE k == PayFor[p]
           started == [Moved(term[k], "ACTIVE") EXCEPT !.ends = now + TermLength]
<1>1. /\ Arrives(p, seen) /\ 0 <= payment[p].refunded
      /\ k \in Keys /\ k \in Terms /\ term[k].status # "none" /\ k \notin earned /\ k \notin reversed
  BY FirstCaptureFinds DEF SettlePaid
<1>2. Record(p, "paid", 0) /\ CanActivate(k, sawOpen) /\ reversed' = reversed
  BY DEF SettlePaid
<1>3. 0 \in 0..FullAmount /\ FullAmount # 0 /\ "paid" \in SettledStatus
  BY ConstantsAssumption DEF SettledStatus
<1>4. started.status = "ACTIVE" /\ started.coupon = term[k].coupon
  <2>1. /\ Moved(term[k], "ACTIVE") \in Term /\ Moved(term[k], "ACTIVE").status = "ACTIVE"
        /\ Moved(term[k], "ACTIVE").coupon = term[k].coupon
    BY <1>1, MovedType DEF TypeOK, TermStatus
  <2> QED
    BY <2>1 DEF Term
<1>5. term' = [t \in Terms |-> IF t = k THEN started
                 ELSE IF t = checkout[k].prev THEN Moved(term[t], "CANCELLED") ELSE term[t]]
  BY DEF SettlePaid
<1> HIDE DEF started
<1>6. term'[k].status = "ACTIVE" /\ term'[k].coupon = term[k].coupon
  BY <1>1, <1>4, <1>5
<1>7. ASSUME NEW t \in Terms \ {k}
      PROVE  \/ term'[t] = term[t]
             \/ /\ term[t].status # "none" /\ term'[t].status \in Retired
                /\ term'[t].coupon = term[t].coupon
  <2>1. CASE t = checkout[k].prev
    <3>1. term[t].status \in Replaceable
      BY <1>2, <2>1, ConstantsAssumption DEF CanActivate, ValidPrevious
    <3>2. /\ Moved(term[t], "CANCELLED").status = "CANCELLED"
          /\ Moved(term[t], "CANCELLED").coupon = term[t].coupon
      BY MovedType DEF TypeOK, TermStatus
    <3> QED
      BY <1>5, <2>1, <3>1, <3>2 DEF Replaceable, InForce, Retired
  <2>2. CASE t # checkout[k].prev
    BY <1>5, <2>2
  <2> QED
    BY <2>1, <2>2
<1>8. /\ \A j \in Keys \ {k} : (j \in earned') <=> (j \in earned)
      /\ k \in earned' => Commissionable(k)
  BY <1>1 DEF SettlePaid
<1> QED
  BY <1>1, <1>2, <1>3, <1>6, <1>7, <1>8, RecordKeeps

LEMMA SettleAgainKeeps ==
  ASSUME TypeOK, SettlementInv, NEW p \in Pays, NEW seen \in 0..FullAmount,
         SettleAgain(p, seen)
  PROVE  SettlementInv'
<1> DEFINE k  == PayFor[p]
           st == checkout[k].status
<1>1. /\ Arrives(p, seen) /\ Record(p, st, 0) /\ st \in SettledStatus /\ KnownRefund(p, seen) = 0
      /\ term' = term /\ earned' = earned /\ reversed' = reversed
  BY DEF SettleAgain
<1>2. /\ k \in Keys /\ k \in Terms /\ term[k].status # "none"
      /\ checkout[k].payment = p /\ ledger[p].recorded
  BY <1>1, ArrivesFinds
<1>3. ledger[p].refunded = 0 /\ 0 \in 0..FullAmount /\ FullAmount # 0
      /\ 0 <= payment[p].refunded
  BY <1>1, KnownRefundType, ConstantsAssumption DEF TypeOK
<1>4. st # "refunded"
  BY <1>2, <1>3 DEF SettlementInv, LedgerRows
<1>5. /\ k \in earned => Commissionable(k)
      /\ (k \in reversed) <=> (k \in earned /\ st = "refunded")
      /\ term[k].status \in InForce => st \in {"paid", "review"}
  BY <1>2 DEF SettlementInv, CommissionEarned, TermsFollowCheckouts
<1> HIDE DEF st
<1> QED
  BY <1>1, <1>2, <1>3, <1>4, <1>5, RecordKeeps

LEMMA SettlementKeeps ==
  ASSUME TypeOK, SettlementInv, NEW p \in Pays, NEW seen \in 0..FullAmount,
         SettlePayment(p, seen)
  PROVE  SettlementInv'
  BY SettleRefundKeeps, SettleReviewKeeps, SettlePaidKeeps, SettleAgainKeeps
  DEF SettlePayment
-----------------------------------------------------------------------------
(* The expire-checkouts job *)

LEMMA SweepReadKeeps ==
  ASSUME TypeOK, SettlementInv, SweepRead
  PROVE  SettlementInv'
<1> USE DEF TypeOK, providerVars, couponVars
<1>1. /\ UNCHANGED <<term, checkout, handler, orders, payment, ledger, redemptions, earned,
                     reversed>>
      /\ sweep' = [k \in Keys |->
           IF k \in {j \in Keys : Stale(j)}
           THEN [status |-> term[k].status, version |-> term[k].version] ELSE Unseen]
  BY DEF SweepRead
<1>2. /\ PaymentsBound' /\ LedgerRows' /\ TermsFollowCheckouts' /\ OrdersAreSaved'
      /\ ReadersWait'
  BY <1>1 DEF SettlementInv, PaymentsBound, LedgerRows, TermsFollowCheckouts, OrdersAreSaved,
              ReadersWait
<1>3. SweepHolds'
  <2> SUFFICES ASSUME NEW k \in Keys, sweep'[k].status # "none"
               PROVE  /\ Open(k) /\ checkout[k].payment = NoPay
                      /\ term[k].status = "PENDING" =>
                           sweep'[k].status = "PENDING" /\ sweep'[k].version = term[k].version
    BY <1>1 DEF SweepHolds, Held, Open
  <2>1. Stale(k)
    BY <1>1 DEF Unseen
  <2>2. sweep'[k] = [status |-> term[k].status, version |-> term[k].version]
    BY <1>1, <2>1
  <2> QED
    BY <2>1, <2>2 DEF Stale
<1>4. CommissionEarned'
  BY <1>1 DEF SettlementInv, CommissionEarned, Commissionable
<1> QED
  BY <1>2, <1>3, <1>4 DEF SettlementInv

LEMMA SweepCommitKeeps ==
  ASSUME TypeOK, SettlementInv, SweepCommit
  PROVE  SettlementInv'
<1>1. /\ checkout' = ExpiredCheckouts(Held) /\ term' = ExpiredTerms(Held, sweep)
      /\ redemptions' = redemptions \ Released(Held)
      /\ sweep' = [k \in Keys |-> Unseen]
      /\ UNCHANGED <<handler, orders, payment, ledger, earned, reversed>>
  BY DEF SweepCommit, providerVars
<1>2. /\ Held \in SUBSET Keys
      /\ \A k \in Held : /\ Open(k) /\ checkout[k].payment = NoPay
                         /\ term[k].status = "PENDING" => sweep[k].status = "PENDING"
  BY DEF Held, SettlementInv, SweepHolds
<1>3. \A k \in Keys :
        /\ checkout'[k].payment = checkout[k].payment
        /\ k \notin Held => checkout'[k] = checkout[k] /\ term'[k] = term[k]
        /\ k \in Held => /\ checkout'[k].status = "expired" /\ term'[k].status \in Retired
                         /\ k \notin earned /\ k \notin reversed
        /\ term'[k].coupon = term[k].coupon
  BY <1>1, <1>2, ExpiryKeeps
<1>4. PaymentsBound'
  BY <1>1, <1>2, <1>3 DEF SettlementInv, PaymentsBound, SettledStatus
<1>5. LedgerRows'
  <2> SUFFICES ASSUME NEW p \in Pays
               PROVE  /\ ledger[p].recorded =>
                           /\ payment[p].captured /\ ledger[p].refunded <= payment[p].refunded
                           /\ checkout'[PayFor[p]].payment = p
                           /\ (ledger[p].refunded = FullAmount)
                                <=> (checkout'[PayFor[p]].status = "refunded")
                      /\ ~ledger[p].recorded => ledger[p].refunded = 0
    BY <1>1 DEF LedgerRows
  <2>1. ledger[p].recorded => checkout[PayFor[p]].payment = p /\ p # NoPay /\ PayFor[p] \in Keys
    BY ConstantsAssumption DEF SettlementInv, LedgerRows
  <2>2. ledger[p].recorded => checkout'[PayFor[p]] = checkout[PayFor[p]]
    BY <1>2, <1>3, <2>1
  <2> QED
    BY <2>2 DEF SettlementInv, LedgerRows
<1>6. TermsFollowCheckouts'
  <2> SUFFICES ASSUME NEW k \in Keys
               PROVE  /\ (checkout'[k].status = "none") <=> (term'[k].status = "none")
                      /\ term'[k].status \in InForce => checkout'[k].status \in {"paid", "review"}
                      /\ checkout'[k].status \in {"expired", "refunded"} =>
                           term'[k].status \in Retired
    BY DEF TermsFollowCheckouts
  <2>1. CASE k \in Held
    BY <1>3, <2>1 DEF Retired, InForce
  <2>2. CASE k \notin Held
    BY <1>3, <2>2 DEF SettlementInv, TermsFollowCheckouts
  <2> QED
    BY <2>1, <2>2
<1>7. OrdersAreSaved'
  BY <1>1, <1>3 DEF SettlementInv, OrdersAreSaved, TypeOK
<1>8. SweepHolds'
  BY <1>1 DEF SweepHolds, Held, Unseen
<1>9. ReadersWait'
  <2> SUFFICES ASSUME NEW t \in Terms, handler[t].phase = "read"
               PROVE  term'[t].status = "none"
    BY <1>1 DEF ReadersWait
  <2>1. term[t].status = "none"
    BY DEF SettlementInv, ReadersWait
  <2>2. t \notin Held
    BY <1>2, <2>1 DEF Open, OpenStatus, SettlementInv, TermsFollowCheckouts
  <2> QED
    BY <1>1, <2>1, <2>2, OutsideExpiry
<1>10. CommissionEarned'
  <2> SUFFICES ASSUME NEW k \in Keys
               PROVE  /\ k \in earned => checkout'[k].status \in SettledStatus /\ Commissionable(k)'
                      /\ (k \in reversed) <=> (k \in earned /\ checkout'[k].status = "refunded")
    BY <1>1 DEF CommissionEarned
  <2>1. CASE k \in Held
    BY <1>3, <2>1
  <2>2. CASE k \notin Held
    <3>1. k \in redemptions => k \in redemptions'
      BY <1>1, <2>2 DEF Released
    <3> QED
      BY <1>3, <2>2, <3>1 DEF SettlementInv, CommissionEarned, Commissionable
  <2> QED
    BY <2>1, <2>2
<1> QED
  BY <1>4, <1>5, <1>6, <1>7, <1>8, <1>9, <1>10 DEF SettlementInv
-----------------------------------------------------------------------------
(* The inductive invariant *)

LEMMA InitSettlement == Init => SettlementInv
<1> SUFFICES ASSUME Init
             PROVE  SettlementInv
  OBVIOUS
<1>1. /\ \A t \in Terms : term[t].status = "none"
      /\ \A k \in Keys : checkout[k].status = "none" /\ checkout[k].payment = NoPay
      /\ \A p \in Pays : ~ledger[p].recorded /\ ledger[p].refunded = 0
      /\ orders = {} /\ Held = {} /\ earned = {} /\ reversed = {}
  BY DEF Init, EmptyTerm, EmptyCheckout, Held, Unseen
<1> QED
  BY <1>1 DEF SettlementInv, PaymentsBound, LedgerRows, TermsFollowCheckouts, OrdersAreSaved,
              SweepHolds, ReadersWait, CommissionEarned, SettledStatus, InForce, Terms

LEMMA SettlementStep == TypeOK /\ SettlementInv /\ [Next]_vars => SettlementInv'
<1> SUFFICES ASSUME TypeOK, SettlementInv, [Next]_vars
             PROVE  SettlementInv'
  OBVIOUS
<1>1. CASE TermStep
  BY <1>1, TermStepKeeps
<1>2. CASE CheckoutStep
  <2>1. ASSUME NEW k \in Keys, NEW prev \in Terms \cup {NoTerm},
               NEW c \in Coupons \cup {NoCoupon},
               AdminCheckout(k, prev, c)
        PROVE  SettlementInv'
    <3> DEFINE version == IF prev = NoTerm THEN 0 ELSE term[prev].version
    <3>1. version \in Nat
      BY DEF TypeOK, Term
    <3>2. StartCheckout(k, prev, version, c, FALSE)
      BY <2>1 DEF AdminCheckout
    <3> QED
      BY <3>1, <3>2, StartCheckoutKeeps
  <2>2. ASSUME NEW k \in Keys, NEW c \in Coupons \cup {NoCoupon}, CustomerCheckout(k, c)
        PROVE  SettlementInv'
    <3>1. handler[k].prev \in Terms \cup {NoTerm} /\ handler[k].version \in Nat
      BY DEF TypeOK, Request, Terms
    <3>2. StartCheckout(k, handler[k].prev, handler[k].version, c, TRUE)
      BY <2>2 DEF CustomerCheckout
    <3> QED
      BY <3>1, <3>2, StartCheckoutKeeps
  <2>3. CASE \/ \E t \in Terms, prev \in Terms \cup {NoTerm} : CustomerOrder(t, prev)
             \/ \E k \in Keys : AdminOrder(k) \/ CreateProviderOrder(k)
             \/ \E t \in Terms : Abandon(t)
    BY <2>3, QuietActionsKeep
  <2>4. ASSUME NEW t \in Grants, ActivateFreePlan(t)
        PROVE  SettlementInv'
    BY <2>4, ActivateFreePlanKeeps
  <2>5. ASSUME NEW k \in Keys, BindOrder(k)
        PROVE  SettlementInv'
    BY <2>5, BindOrderKeeps
  <2> QED
    BY <1>2, <2>1, <2>2, <2>3, <2>4, <2>5 DEF CheckoutStep
<1>3. CASE PaymentStep
  BY <1>3, QuietActionsKeep, SettlementKeeps DEF PaymentStep
<1>4. CASE SweepRead \/ SweepCommit
  BY <1>4, SweepReadKeeps, SweepCommitKeeps
<1>5. CASE UNCHANGED vars
  BY <1>5
  DEF vars, SettlementInv, PaymentsBound, LedgerRows, TermsFollowCheckouts, OrdersAreSaved,
      SweepHolds, Held, Open, ReadersWait, CommissionEarned, Commissionable
<1> QED
  BY <1>1, <1>2, <1>3, <1>4, <1>5, QuietActionsKeep DEF Next

\* In every reachable state the checkout, its term, its ledger row, its commission and what
\* the expiry job has read of them agree: no interleaving of settlement, the job, the two
\* halves of start_checkout and the administrators' commands pulls them apart.
THEOREM Settlement == Spec => []SettlementInv
<1>1. TypeOK /\ SettlementInv /\ [Next]_vars => SettlementInv'
  BY SettlementStep
<1> QED
  BY <1>1, InitSettlement, TypeCorrect, PTL DEF Spec

\* A bought term is in force only while its checkout's captured payment is in the ledger and
\* not refunded in full: nothing the code does gives access without money behind it.
THEOREM FundedTerms == Spec => []PaidTermIsFunded
<1>1. TypeOK /\ SettlementInv => PaidTermIsFunded
  <2> SUFFICES ASSUME TypeOK, SettlementInv, NEW k \in Keys, term[k].status \in InForce
               PROVE  /\ checkout[k].status \in {"paid", "review"}
                      /\ \E p \in Pays : /\ checkout[k].payment = p /\ PayFor[p] = k
                                         /\ ledger[p].recorded /\ ledger[p].refunded < FullAmount
    BY DEF PaidTermIsFunded
  <2> DEFINE p == checkout[k].payment
  <2>1. checkout[k].status \in {"paid", "review"}
    BY DEF SettlementInv, TermsFollowCheckouts
  <2>2. p # NoPay /\ PayFor[p] = k /\ ledger[p].recorded
    BY <2>1 DEF SettlementInv, PaymentsBound, SettledStatus
  <2>3. p \in Pays
    BY <2>2 DEF TypeOK, Checkout
  <2>4. ledger[p].refunded # FullAmount
    BY <2>1, <2>2, <2>3 DEF SettlementInv, LedgerRows
  <2>5. ledger[p].refunded < FullAmount
    <3>1. ledger[p].refunded \in 0..FullAmount
      BY <2>3 DEF TypeOK
    <3> HIDE DEF p
    <3> QED
      BY <2>4, <3>1, ConstantsAssumption
  <2> QED
    BY <2>1, <2>2, <2>3, <2>5
<1> QED
  BY <1>1, Settlement, TypeCorrect, PTL

\* A full refund leaves neither the term nor the commission of its checkout standing.
THEOREM FullRefunds == Spec => []RefundLeavesNothing
<1>1. SettlementInv => RefundLeavesNothing
  BY DEF SettlementInv, TermsFollowCheckouts, CommissionEarned, RefundLeavesNothing, Retired
<1> QED
  BY <1>1, Settlement, PTL

\* The ledger follows the provider: no row without a capture, no refund the provider did not
\* report, no row for a payment its order is not bound to, no settled order without a row.
THEOREM LedgerIsTrue == Spec => []LedgerFollowsProvider
<1>1. TypeOK /\ SettlementInv => LedgerFollowsProvider
  <2> SUFFICES ASSUME TypeOK, SettlementInv, NEW k \in Keys, checkout[k].status \in SettledStatus
               PROVE  \E p \in Pays : checkout[k].payment = p /\ ledger[p].recorded
    BY DEF LedgerFollowsProvider, SettlementInv, LedgerRows
  <2> QED
    BY DEF SettlementInv, PaymentsBound, TypeOK, Checkout
<1> QED
  BY <1>1, Settlement, TypeCorrect, PTL

\* Commission is earned for settled checkouts with a redemption only, and undone exactly when
\* the payment is refunded in full.
THEOREM CommissionIsBacked == Spec => []CommissionFollowsMoney
<1>1. SettlementInv => CommissionFollowsMoney
  BY DEF SettlementInv, CommissionEarned, Commissionable, CommissionFollowsMoney
<1> QED
  BY <1>1, Settlement, PTL
=============================================================================
