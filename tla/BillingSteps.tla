----------------------------- MODULE BillingSteps -----------------------------
(***************************************************************************)
(* What no step of Billing may do, proved for every step from the          *)
(* inductive invariant of BillingProofs; the proof that Billing implements *)
(* CheckoutContract; and the two invariants that rest on what the steps    *)
(* do: fresh outbox keys and accounted coupons.                            *)
(***************************************************************************)
EXTENDS BillingProofs
-----------------------------------------------------------------------------
(* What a settlement writes *)

LEMMA RecordMoves ==
  ASSUME TypeOK, NEW p \in Pays, NEW st \in SettledStatus, NEW n, Record(p, st, n)
  PROVE  LET k == PayFor[p]
         IN  /\ k \in Keys /\ k \in Terms
             /\ checkout'[k].payment = p /\ checkout'[k].status = st
             /\ \A j \in Keys \ {k} : checkout'[j] = checkout[j]
             /\ ledger'[p].recorded /\ ledger'[p].refunded = n
             /\ \A q \in Pays \ {p} : ledger'[q] = ledger[q]
<1> DEFINE k == PayFor[p]
<1>1. k \in Keys /\ k \in Terms
  BY ConstantsAssumption DEF Terms
<1>2. checkout'[k].payment = p /\ checkout'[k].status = st
  <2>1. st \in CheckoutStatus /\ checkout[k] \in Checkout
    BY <1>1 DEF CheckoutStatus, TypeOK
  <2>2. checkout'[k] = Settled(checkout[k], p, st)
    BY <1>1 DEF Record, TypeOK
  <2> QED
    BY <2>1, <2>2, SettledType
<1>3. /\ \A j \in Keys \ {k} : checkout'[j] = checkout[j]
      /\ ledger'[p].recorded /\ ledger'[p].refunded = n
      /\ \A q \in Pays \ {p} : ledger'[q] = ledger[q]
  BY DEF Record, TypeOK
<1> QED
  BY <1>1, <1>2, <1>3

\* Every settlement is a Record of a settled status and of a refund no smaller than known.
LEMMA SettlementRecords ==
  ASSUME TypeOK, SettlementInv, NEW p \in Pays, NEW seen \in 0..FullAmount,
         SettlePayment(p, seen)
  PROVE  /\ Arrives(p, seen)
         /\ \E st \in SettledStatus, n \in 0..FullAmount :
              Record(p, st, n) /\ n >= ledger[p].refunded
<1>1. KnownRefund(p, seen) \in 0..FullAmount /\ KnownRefund(p, seen) >= ledger[p].refunded
      /\ 0 \in 0..FullAmount
  BY KnownRefundType, ConstantsAssumption
<1>2. CASE SettleRefund(p, seen)
  <2>1. Record(p, RefundStatus(KnownRefund(p, seen)), KnownRefund(p, seen)) /\ Arrives(p, seen)
    BY <1>2 DEF SettleRefund
  <2>2. RefundStatus(KnownRefund(p, seen)) \in SettledStatus
    BY DEF RefundStatus, SettledStatus
  <2> QED
    BY <1>1, <2>1, <2>2
<1>3. ASSUME NEW sawOpen, SettleReview(p, seen, sawOpen) \/ SettlePaid(p, seen, sawOpen)
      PROVE  /\ Arrives(p, seen)
             /\ \E st \in SettledStatus, n \in 0..FullAmount :
                  Record(p, st, n) /\ n >= ledger[p].refunded
  <2>1. Record(p, "review", 0) \/ Record(p, "paid", 0)
    BY <1>3 DEF SettleReview, SettlePaid
  <2>2. Arrives(p, seen) /\ KnownRefund(p, seen) = 0
    BY <1>3 DEF SettleReview, SettlePaid, FirstCapture
  <2> QED
    BY <1>1, <2>1, <2>2 DEF SettledStatus
<1>4. CASE SettleAgain(p, seen)
  BY <1>1, <1>4 DEF SettleAgain
<1> QED
  BY <1>2, <1>3, <1>4 DEF SettlePayment
-----------------------------------------------------------------------------
(* Money *)

\* What holds of the ledger and of the bound payments in every step.
LEMMA MoneyStep ==
  ASSUME TypeOK, SettlementInv, [Next]_vars
  PROVE  /\ \A p \in Pays : /\ ledger[p].recorded => ledger'[p].recorded
                            /\ ledger'[p].refunded >= ledger[p].refunded
         /\ \A k \in Keys : checkout[k].payment # NoPay =>
              checkout'[k].payment = checkout[k].payment
<1>0. \A p \in Pays : ledger[p].refunded >= ledger[p].refunded
  BY ConstantsAssumption DEF TypeOK
<1>1. ASSUME NEW k \in Keys, NEW prev, NEW version, NEW c, NEW customer,
             StartCheckout(k, prev, version, c, customer)
      PROVE  /\ ledger' = ledger
             /\ \A j \in Keys : checkout[j].payment # NoPay =>
                  checkout'[j].payment = checkout[j].payment
  <2>1. checkout[k].payment = NoPay
    BY <1>1 DEF StartCheckout, SettlementInv, PaymentsBound, SettledStatus
  <2>2. \A j \in Keys \ {k} : checkout'[j] = ExpiredCheckouts(StaleOf(Owner[k]))[j]
    BY <1>1 DEF StartCheckout, ExpiredCheckouts
  <2>3. \A j \in Keys : checkout[j].payment # NoPay => j \notin StaleOf(Owner[k])
    BY DEF StaleOf, Stale
  <2> QED
    BY <1>1, <2>1, <2>2, <2>3, OutsideExpiry DEF StartCheckout
<1>2. ASSUME NEW k \in Keys, BindOrder(k)
      PROVE  /\ ledger' = ledger
             /\ \A j \in Keys : checkout'[j].payment = checkout[j].payment
  <2>1. BoundOrder(checkout[k]).payment = checkout[k].payment
    BY BoundOrderType DEF TypeOK
  <2> QED
    BY <1>2, <2>1 DEF BindOrder, TypeOK, providerVars
<1>3. CASE SweepCommit
  <2>1. \A j \in Keys : checkout[j].payment # NoPay => j \notin Held
    BY DEF SettlementInv, SweepHolds
  <2> QED
    BY <1>0, <1>3, <2>1, OutsideExpiry DEF SweepCommit
<1>4. ASSUME NEW p \in Pays, NEW seen \in 0..FullAmount, SettlePayment(p, seen)
      PROVE  /\ \A q \in Pays : /\ ledger[q].recorded => ledger'[q].recorded
                                /\ ledger'[q].refunded >= ledger[q].refunded
             /\ \A k \in Keys : checkout[k].payment # NoPay =>
                  checkout'[k].payment = checkout[k].payment
  <2>1. PICK st \in SettledStatus, n \in 0..FullAmount :
          Record(p, st, n) /\ n >= ledger[p].refunded
    BY <1>4, SettlementRecords
  <2>2. checkout[PayFor[p]].payment \in {NoPay, p}
    BY <1>4, SettlementRecords DEF Arrives
  <2> QED
    BY <1>0, <2>1, <2>2, RecordMoves
<1>5. CASE UNCHANGED <<checkout, ledger>>
  BY <1>0, <1>5
<1>6. CASE TermStep
  BY <1>5, <1>6
  DEF TermStep, CreateSubscription, Suspend, Resume, Cancel, Move, Renew, Replace, ReplaceTerm
<1>7. CASE CheckoutStep
  <2>1. ASSUME NEW k \in Keys, NEW c, NEW prev,
               AdminCheckout(k, prev, c) \/ CustomerCheckout(k, c)
        PROVE  \E pv, version, customer : StartCheckout(k, pv, version, c, customer)
    BY <2>1 DEF AdminCheckout, CustomerCheckout
  <2>2. ASSUME NEW t \in Terms, NEW prev,
               CustomerOrder(t, prev) \/ ActivateFreePlan(t) \/ Abandon(t)
        PROVE  UNCHANGED <<checkout, ledger>>
    BY <2>2 DEF CustomerOrder, ActivateFreePlan, Abandon
  <2>3. ASSUME NEW k \in Keys, AdminOrder(k) \/ CreateProviderOrder(k)
        PROVE  UNCHANGED <<checkout, ledger>>
    BY <2>3 DEF AdminOrder, CreateProviderOrder
  <2> QED
    BY <1>0, <1>1, <1>2, <1>5, <1>7, <2>1, <2>2, <2>3 DEF CheckoutStep, Terms
<1>8. CASE PaymentStep
  BY <1>4, <1>5, <1>8 DEF PaymentStep, Capture, Refund, LoadApplication
<1> QED
  BY <1>3, <1>5, <1>6, <1>7, <1>8
  DEF Next, vars, Tick, Archive, RestrictSubscriber, RestoreSubscriber, SweepRead

\* A late or repeated provider response never undoes what is recorded: ledger rows stay, their
\* refunds only grow and a checkout stays bound to its payment.
THEOREM MoneyIsMonotonic == Spec => MoneyNeverRegresses
<1>1. TypeOK /\ SettlementInv /\ [Next]_vars =>
        [/\ \A p \in Pays : /\ ledger[p].recorded => ledger'[p].recorded
                            /\ ledger'[p].refunded >= ledger[p].refunded
         /\ \A k \in Keys : checkout[k].payment # NoPay =>
              checkout'[k].payment = checkout[k].payment]_vars
  BY MoneyStep
<1> QED
  BY <1>1, Settlement, TypeCorrect, PTL DEF Spec, MoneyNeverRegresses
-----------------------------------------------------------------------------
(* Terms *)

\* The ways the row of a term may change in one step, and who starts a bought term.
Lawful(t) ==
  \/ term'[t] = term[t]
  \/ term[t].status = "none" /\ term'[t].status \in {"PENDING", "ACTIVE"}
  \/ term[t].status \in Retired /\ term'[t].status \in Retired
  \/ /\ term[t].status \in {"PENDING"} \cup InForce
     /\ term'[t].status \in InForce \cup Retired
     /\ term'[t].version = term[t].version + 1

Bought(k) ==
  term[k].status \notin InForce /\ term'[k].status \in InForce =>
    \E p \in Pays, seen \in 0..FullAmount, sawOpen \in BOOLEAN :
      PayFor[p] = k /\ SettlePaid(p, seen, sawOpen)

LEMMA UnchangedIsLawful ==
  ASSUME NEW t, term'[t] = term[t]
  PROVE  Lawful(t) /\ Bought(t)
  BY DEF Lawful, Bought

\* A status that is moved with its version.
LEMMA MovedIsLawful ==
  ASSUME TypeOK, NEW t \in Terms, NEW st \in TermStatus, term'[t] = Moved(term[t], st),
         \/ term[t].status \in Retired /\ st \in Retired
         \/ /\ term[t].status \in {"PENDING"} \cup InForce
            /\ st \in InForce \cup Retired
  PROVE  Lawful(t) /\ ((term[t].status \in InForce \/ st \in Retired) => Bought(t))
<1>1. term'[t].status = st /\ term'[t].version = term[t].version + 1
  BY MovedType DEF TypeOK
<1> QED
  BY <1>1 DEF Lawful, Bought, Retired, InForce

\* The job and the next order retire terms that were pending, or retired before they wrote.
LEMMA ExpiryIsLawful ==
  ASSUME TypeOK, SettlementInv, NEW S \in SUBSET Keys, NEW seen, NEW t \in Terms,
         term'[t] = ExpiredTerms(S, seen)[t],
         \A k \in S : /\ Open(k) /\ checkout[k].payment = NoPay
                      /\ term[k].status = "PENDING" =>
                           seen[k].status = "PENDING" /\ seen[k].version = term[k].version
  PROVE  Lawful(t) /\ Bought(t)
<1>1. CASE t \notin S
  BY <1>1, OutsideExpiry, UnchangedIsLawful
<1>2. CASE t \in S
  <2>1. ExpiredTerms(S, seen)[t].status \in Retired
    BY <1>2, ExpiryRetires DEF SettlementInv
  <2>2. term[t].status \in {"PENDING"} \cup Retired /\ term[t] \in Term
    BY <1>2 DEF TypeOK, SettlementInv, TermsFollowCheckouts, Open, OpenStatus, Retired, InForce,
                Term, TermStatus
  <2>3. CASE term[t].status = "PENDING"
    <3> DEFINE n == seen[t].version + 1
    <3>1. term'[t] = [term[t] EXCEPT !.status = "CANCELLED", !.version = n]
      BY <1>2, <2>3 DEF ExpiredTerms
    <3>2. n = term[t].version + 1
      BY <1>2, <2>3
    <3> HIDE DEF n
    <3>3. term'[t].version = n
      BY <2>2, <3>1 DEF Term
    <3> QED
      BY <2>1, <2>3, <3>2, <3>3 DEF Lawful, Bought, Retired, InForce
  <2>4. CASE term[t].status \in Retired
    BY <2>1, <2>4 DEF Lawful, Bought, Retired, InForce
  <2> QED
    BY <2>2, <2>3, <2>4
<1> QED
  BY <1>1, <1>2

LEMMA TermStepLawful ==
  ASSUME TypeOK, SettlementInv, TermStep
  PROVE  (\A t \in Terms : Lawful(t)) /\ (\A k \in Keys : Bought(k))
<1>0. \A g \in Grants : g \in Terms /\ g \notin Keys
  BY ConstantsAssumption DEF Terms
<1>1. ASSUME NEW g \in Grants, NEW c \in Coupons \cup {NoCoupon}, CreateSubscription(g, c)
      PROVE  (\A t \in Terms : Lawful(t)) /\ (\A k \in Keys : Bought(k))
  <2>1. /\ \A u \in Terms \ {g} : term'[u] = term[u]
        /\ term'[g] = NewTerm("ACTIVE", c) /\ term[g].status = "none"
    BY <1>0, <1>1 DEF CreateSubscription, Unused, TypeOK
  <2>2. Lawful(g)
    BY <2>1 DEF Lawful, NewTerm
  <2> QED
    BY <1>0, <2>1, <2>2, UnchangedIsLawful DEF Terms
<1>2. ASSUME NEW u \in Terms, Suspend(u) \/ Resume(u) \/ Cancel(u)
      PROVE  (\A t \in Terms : Lawful(t)) /\ (\A k \in Keys : Bought(k))
  <2>1. PICK st \in InForce \cup Retired : Move(u, st) /\ term[u].status \in InForce
    BY <1>2 DEF Suspend, Resume, Cancel, InForce, Retired
  <2>2. term'[u] = Moved(term[u], st) /\ \A t \in Terms \ {u} : term'[t] = term[t]
    BY <2>1 DEF Move, TypeOK
  <2>3. st \in TermStatus
    BY DEF InForce, Retired, TermStatus
  <2>4. Lawful(u) /\ Bought(u)
    BY <2>1, <2>2, <2>3, MovedIsLawful
  <2> QED
    BY <2>2, <2>4, UnchangedIsLawful DEF Terms
<1>3. ASSUME NEW old \in Terms, NEW new \in Grants, Renew(old, new) \/ Replace(old, new)
      PROVE  (\A t \in Terms : Lawful(t)) /\ (\A k \in Keys : Bought(k))
  <2>1. PICK st \in Retired : ReplaceTerm(old, new, st)
    BY <1>3 DEF Renew, Replace, Retired
  <2>2. CASE term[old].status \in {"PENDING"} \cup InForce \/ term[old].status \in Retired
    <3>1. /\ term'[old] = Moved(term[old], st)
          /\ term'[new] = NewTerm("ACTIVE", NoCoupon) /\ term[new].status = "none"
          /\ \A u \in Terms \ {old, new} : term'[u] = term[u]
      BY <1>0, <2>1 DEF ReplaceTerm, Unused, TypeOK
    <3>2. Lawful(old) /\ Bought(old)
      BY <2>2, <3>1, MovedIsLawful DEF TermStatus, Retired
    <3>3. Lawful(new)
      BY <3>1 DEF Lawful, NewTerm
    <3> QED
      BY <1>0, <3>1, <3>2, <3>3, UnchangedIsLawful DEF Terms
  <2>3. term[old].status \in {"PENDING"} \cup InForce \/ term[old].status \in Retired
    BY <1>3 DEF Renew, Replace, InForce, Retired, TypeOK, Term, TermStatus
  <2> QED
    BY <2>2, <2>3
<1> QED
  BY <1>1, <1>2, <1>3 DEF TermStep

LEMMA ActivateFreePlanLawful ==
  ASSUME TypeOK, NEW g \in Grants, ActivateFreePlan(g), ReadersWait
  PROVE  (\A t \in Terms : Lawful(t)) /\ (\A k \in Keys : Bought(k))
<1>0. g \in Terms /\ g \notin Keys
  BY ConstantsAssumption DEF Terms
<1>1. Lawful(g)
  BY <1>0 DEF ActivateFreePlan, ReadersWait, Lawful, NewTerm
<1>2. ASSUME NEW u \in Terms \ {g}
      PROVE  Lawful(u) /\ Bought(u)
  <2>1. CASE u \in Current(Owner[g])
    <3>1. term'[u] = Moved(term[u], "EXPIRED") /\ term[u].status \in InForce
      BY <2>1 DEF ActivateFreePlan, Current
    <3> QED
      BY <3>1, MovedIsLawful DEF TermStatus, Retired
  <2>2. CASE u \notin Current(Owner[g])
    BY <2>2, UnchangedIsLawful DEF ActivateFreePlan
  <2> QED
    BY <2>1, <2>2
<1> QED
  BY <1>0, <1>1, <1>2 DEF Terms

LEMMA StartCheckoutLawful ==
  ASSUME TypeOK, SettlementInv, NEW k \in Keys, NEW prev, NEW version, NEW c, NEW customer,
         StartCheckout(k, prev, version, c, customer)
  PROVE  (\A t \in Terms : Lawful(t)) /\ (\A j \in Keys : Bought(j))
<1> DEFINE old == StaleOf(Owner[k])
<1>1. /\ checkout[k].status = "none" /\ k \in Terms
      /\ term' = [ExpiredTerms(old, term) EXCEPT ![k] = NewTerm("PENDING", c)]
  BY DEF StartCheckout, Terms
<1>2. old \in SUBSET Keys /\ \A j \in old : Open(j) /\ checkout[j].payment = NoPay
  BY DEF StaleOf, Stale
<1>3. term[k].status = "none"
  BY <1>1 DEF SettlementInv, TermsFollowCheckouts
<1>4. /\ term'[k] = NewTerm("PENDING", c)
      /\ \A t \in Terms \ {k} : term'[t] = ExpiredTerms(old, term)[t]
  BY <1>1 DEF ExpiredTerms
<1>5. Lawful(k) /\ Bought(k)
  BY <1>3, <1>4 DEF Lawful, Bought, NewTerm, InForce
<1> HIDE DEF old
<1>6. \A t \in Terms \ {k} : Lawful(t) /\ Bought(t)
  BY <1>2, <1>4, ExpiryIsLawful
<1> QED
  BY <1>5, <1>6 DEF Terms

LEMMA SettlementLawful ==
  ASSUME TypeOK, SettlementInv, NEW p \in Pays, NEW seen \in 0..FullAmount,
         SettlePayment(p, seen)
  PROVE  (\A t \in Terms : Lawful(t)) /\ (\A j \in Keys : Bought(j))
<1> DEFINE k == PayFor[p]
<1>0. k \in Keys /\ k \in Terms
  BY ConstantsAssumption DEF Terms
<1>1. CASE term' = term
  BY <1>1, UnchangedIsLawful
<1>2. CASE SettleRefund(p, seen)
  <2>1. /\ \A t \in Terms \ {k} : term'[t] = term[t]
        /\ \/ term'[k] = term[k]
           \/ term'[k] = Moved(term[k], "CANCELLED") /\ term[k].status \in Revocable
    BY <1>0, <1>2 DEF SettleRefund, TypeOK
  <2>2. Lawful(k) /\ Bought(k)
    BY <1>0, <2>1, UnchangedIsLawful, MovedIsLawful DEF Revocable, TermStatus, Retired
  <2> QED
    BY <2>1, <2>2, UnchangedIsLawful DEF Terms
<1>3. ASSUME NEW sawOpen \in BOOLEAN, SettlePaid(p, seen, sawOpen)
      PROVE  (\A t \in Terms : Lawful(t)) /\ (\A j \in Keys : Bought(j))
  <2> DEFINE started == [Moved(term[k], "ACTIVE") EXCEPT !.ends = now + TermLength]
  <2>1. term' = [t \in Terms |-> IF t = k THEN started
                   ELSE IF t = checkout[k].prev THEN Moved(term[t], "CANCELLED") ELSE term[t]]
    BY <1>3 DEF SettlePaid
  <2>2. CanActivate(k, sawOpen)
    BY <1>3 DEF SettlePaid
  <2>3. started.status = "ACTIVE" /\ started.version = term[k].version + 1
    <3>1. /\ Moved(term[k], "ACTIVE") \in Term /\ Moved(term[k], "ACTIVE").status = "ACTIVE"
          /\ Moved(term[k], "ACTIVE").version = term[k].version + 1
      BY <1>0, MovedType DEF TypeOK, TermStatus
    <3> QED
      BY <3>1 DEF Term
  <2>4. Bought(k)
    BY <1>3 DEF Bought
  <2> HIDE DEF started
  <2>5. Lawful(k)
    BY <1>0, <2>1, <2>2, <2>3 DEF Lawful, CanActivate, InForce
  <2>6. ASSUME NEW t \in Terms \ {k}
        PROVE  Lawful(t) /\ Bought(t)
    <3>1. CASE t = checkout[k].prev
      <4>1. term[t].status \in Replaceable /\ term'[t] = Moved(term[t], "CANCELLED")
        BY <2>1, <2>2, <3>1, ConstantsAssumption DEF CanActivate, ValidPrevious
      <4> QED
        BY <4>1, MovedIsLawful DEF Replaceable, InForce, Retired, TermStatus
    <3>2. CASE t # checkout[k].prev
      BY <2>1, <3>2, UnchangedIsLawful
    <3> QED
      BY <3>1, <3>2
  <2> QED
    BY <2>4, <2>5, <2>6 DEF Terms
<1>4. \A j : ApplicationsHeld(j) \subseteq BOOLEAN
  BY DEF TypeOK, ApplicationsHeld
<1> QED
  BY <1>1, <1>2, <1>3, <1>4 DEF SettlePayment, SettleReview, SettleAgain

LEMMA EveryStepLawful ==
  ASSUME TypeOK, SettlementInv, [Next]_vars
  PROVE  (\A t \in Terms : Lawful(t)) /\ (\A k \in Keys : Bought(k))
<1>1. CASE term' = term
  BY <1>1, UnchangedIsLawful
<1>2. CASE CheckoutStep
  <2>1. ASSUME NEW k \in Keys, NEW c, NEW prev,
               AdminCheckout(k, prev, c) \/ CustomerCheckout(k, c)
        PROVE  \E pv, version, customer : StartCheckout(k, pv, version, c, customer)
    BY <2>1 DEF AdminCheckout, CustomerCheckout
  <2>2. ASSUME NEW t \in Terms, NEW prev, CustomerOrder(t, prev) \/ Abandon(t)
        PROVE  term' = term
    BY <2>2 DEF CustomerOrder, Abandon
  <2>3. ASSUME NEW k \in Keys, AdminOrder(k) \/ CreateProviderOrder(k) \/ BindOrder(k)
        PROVE  term' = term
    BY <2>3 DEF AdminOrder, CreateProviderOrder, BindOrder
  <2>4. ReadersWait
    BY DEF SettlementInv
  <2> QED
    BY <1>1, <1>2, <2>1, <2>2, <2>3, <2>4, StartCheckoutLawful, ActivateFreePlanLawful
    DEF CheckoutStep
<1>3. CASE PaymentStep
  BY <1>1, <1>3, SettlementLawful DEF PaymentStep, Capture, Refund, LoadApplication
<1>4. CASE SweepCommit
  <2>1. /\ Held \in SUBSET Keys /\ term' = ExpiredTerms(Held, sweep)
        /\ \A k \in Held : /\ Open(k) /\ checkout[k].payment = NoPay
                           /\ term[k].status = "PENDING" =>
                                sweep[k].status = "PENDING" /\ sweep[k].version = term[k].version
    BY <1>4 DEF SweepCommit, Held, SettlementInv, SweepHolds
  <2> QED
    BY <2>1, ExpiryIsLawful DEF Terms
<1> QED
  BY <1>1, <1>2, <1>3, <1>4, TermStepLawful
  DEF Next, vars, Tick, Archive, RestrictSubscriber, RestoreSubscriber, SweepRead

\* A cancelled or expired term never comes back into force and no term becomes pending again,
\* whatever is settled late.
THEOREM RetiredIsFinal == Spec => RetiredStaysRetired
<1>1. TypeOK /\ SettlementInv /\ [Next]_vars =>
        [\A t \in Terms :
           /\ term[t].status \in {"EXPIRED", "CANCELLED"} =>
                term'[t].status \in {"EXPIRED", "CANCELLED"}
           /\ term[t].status \notin {"none", "PENDING"} => term'[t].status # "PENDING"]_vars
  BY EveryStepLawful DEF Lawful, Retired, InForce
<1> QED
  BY <1>1, Settlement, TypeCorrect, PTL DEF Spec, RetiredStaysRetired

\* Every change of the status of a term that may give access advances its version, although
\* the expiry job writes a version it read without a lock.
THEOREM VersionsIdentify == Spec => VersionsAdvance
<1>1. TypeOK /\ SettlementInv /\ [Next]_vars =>
        [\A t \in Terms :
           term[t].status \in {"PENDING"} \cup InForce /\ term'[t].status # term[t].status =>
             term'[t].version > term[t].version]_vars
  <2> SUFFICES ASSUME TypeOK, SettlementInv, [Next]_vars, NEW t \in Terms,
                      term[t].status \in {"PENDING"} \cup InForce,
                      term'[t].status # term[t].status
               PROVE  term'[t].version > term[t].version
    OBVIOUS
  <2>1. Lawful(t)
    BY EveryStepLawful
  <2>2. term'[t].version = term[t].version + 1
    BY <2>1 DEF Lawful, InForce, Retired
  <2>3. term[t].version \in Nat
    BY DEF TypeOK, Term
  <2> QED
    BY <2>2, <2>3
<1> QED
  BY <1>1, Settlement, TypeCorrect, PTL DEF Spec, VersionsAdvance

\* A term is activated by the first, unrefunded capture of an order that is still open: never
\* after a refund, and never after its order expired.
THEOREM ActivationIsTimely == Spec => NoActivationAfterRefundOrExpiry
<1>1. TypeOK /\ SettlementInv /\ [Next]_vars =>
        [\A k \in Keys : term[k].status \notin InForce /\ term'[k].status \in InForce =>
           /\ checkout[k].status \in OpenStatus
           /\ \A p \in Pays : PayFor[p] = k => ledger'[p].refunded = 0]_vars
  <2> SUFFICES ASSUME TypeOK, SettlementInv, [Next]_vars, NEW k \in Keys,
                      term[k].status \notin InForce, term'[k].status \in InForce
               PROVE  /\ checkout[k].status \in OpenStatus
                      /\ \A p \in Pays : PayFor[p] = k => ledger'[p].refunded = 0
    OBVIOUS
  <2>1. PICK p \in Pays, seen \in 0..FullAmount, sawOpen \in BOOLEAN :
          PayFor[p] = k /\ SettlePaid(p, seen, sawOpen)
    BY EveryStepLawful DEF Bought
  <2>2. /\ FirstCapture(p, seen) /\ Arrives(p, seen) /\ Record(p, "paid", 0)
        /\ term[k].status = "PENDING"
    BY <2>1 DEF SettlePaid, CanActivate, FirstCapture
  <2>3. checkout[k].status \in {"expired"} \cup OpenStatus
    BY <2>1, <2>2, FirstCaptureFinds
  <2>4. checkout[k].status # "expired"
    BY <2>2 DEF SettlementInv, TermsFollowCheckouts, Retired
  <2>5. ASSUME NEW q \in Pays, PayFor[q] = k
        PROVE  ledger'[q].refunded = 0
    <3>1. /\ ledger'[p].refunded = 0
          /\ \A r \in Pays \ {p} : ledger'[r] = ledger[r]
      BY <2>2, RecordMoves DEF SettledStatus
    <3>2. q # p => ~ledger[q].recorded
      BY <2>1, <2>2, <2>5, ArrivesFinds
    <3> QED
      BY <3>1, <3>2 DEF SettlementInv, LedgerRows
  <2> QED
    BY <2>3, <2>4, <2>5
<1> QED
  BY <1>1, Settlement, TypeCorrect, PTL DEF Spec, NoActivationAfterRefundOrExpiry
-----------------------------------------------------------------------------
(* Which step moves a checkout, and where *)

Stage(k) == IF Open(k) THEN "open" ELSE checkout[k].status
Access   == {k \in Keys : term[k].status \in InForce}

\* The stages and the access of all checkouts, as the steps of CheckoutContract move them.
Stays == /\ \A k \in Keys : Stage(k)' = Stage(k)
         /\ Access' \subseteq Access

Expires(S, N) ==
  /\ S \cup N # {} /\ S \in SUBSET Keys /\ N \in SUBSET Keys /\ S \cap N = {}
  /\ \A k \in S : Stage(k) = "open" /\ Stage(k)' = "expired"
  /\ \A k \in N : Stage(k) = "none" /\ Stage(k)' = "open"
  /\ \A k \in Keys \ (S \cup N) : Stage(k)' = Stage(k)
  /\ Access' = Access

Settles(k, from, to) ==
  /\ k \in Keys /\ Stage(k) \in from /\ Stage(k)' = to
  /\ \A j \in Keys \ {k} : Stage(j)' = Stage(j)

LEMMA StageOf ==
  ASSUME NEW k, checkout[k].status \notin OpenStatus
  PROVE  Stage(k) = checkout[k].status
  BY DEF Stage, Open

LEMMA NoRowMoves ==
  ASSUME TypeOK, SettlementInv,
         \A k \in Keys : /\ checkout'[k].status = checkout[k].status
                         /\ term'[k].status \in InForce => term[k].status \in InForce
  PROVE  Stays
  BY DEF Stays, Stage, Open, Access

\* A set of open checkouts expires, with or without a new order.
LEMMA StartCheckoutStage ==
  ASSUME TypeOK, SettlementInv, NEW k \in Keys, NEW prev, NEW version, NEW c, NEW customer,
         StartCheckout(k, prev, version, c, customer)
  PROVE  \E S, N \in SUBSET Keys : Expires(S, N)
<1> DEFINE old == StaleOf(Owner[k])
<1>1. /\ checkout[k].status = "none" /\ k \in Terms /\ k \notin old
      /\ old \in SUBSET Keys /\ \A j \in old : Open(j) /\ checkout[j].payment = NoPay
  BY DEF StartCheckout, Terms, StaleOf, Stale, Open, OpenStatus
<1>2. /\ checkout'[k].status = "creating" /\ term'[k].status = "PENDING"
      /\ \A j \in Keys \ {k} : /\ checkout'[j] = ExpiredCheckouts(old)[j]
                               /\ term'[j] = ExpiredTerms(old, term)[j]
  BY <1>1 DEF StartCheckout, ExpiredCheckouts, ExpiredTerms, EmptyCheckout, NewTerm, Terms
<1> HIDE DEF old
<1>3. \A j \in Keys \ {k} :
        /\ j \notin old => checkout'[j] = checkout[j] /\ term'[j] = term[j]
        /\ j \in old => checkout'[j].status = "expired" /\ term'[j].status \in Retired
  BY <1>1, <1>2, ExpiryKeeps
<1>4. \A j \in Keys : Open(j) \/ j = k => term[j].status \notin InForce
  BY <1>1 DEF SettlementInv, TermsFollowCheckouts, Open, OpenStatus, InForce
<1>5. Expires(old, {k})
  <2>1. Access' = Access
    BY <1>1, <1>2, <1>3, <1>4 DEF Access, Retired, InForce
  <2>2. \A j \in old : Stage(j) = "open" /\ Stage(j)' = "expired"
    BY <1>1, <1>3 DEF Stage, Open, OpenStatus
  <2>3. Stage(k) = "none" /\ Stage(k)' = "open"
    BY <1>1, <1>2 DEF Stage, Open, OpenStatus
  <2>4. \A j \in Keys \ (old \cup {k}) : Stage(j)' = Stage(j)
    BY <1>3 DEF Stage, Open
  <2> QED
    BY <1>1, <2>1, <2>2, <2>3, <2>4 DEF Expires
<1> QED
  BY <1>1, <1>5

LEMMA SweepCommitStage ==
  ASSUME TypeOK, SettlementInv, SweepCommit
  PROVE  \E S, N \in SUBSET Keys : Expires(S, N)
<1>1. /\ Held \in SUBSET Keys /\ Held # {}
      /\ \A k \in Held : /\ Open(k) /\ checkout[k].payment = NoPay
                         /\ term[k].status = "PENDING" => sweep[k].status = "PENDING"
      /\ checkout' = ExpiredCheckouts(Held) /\ term' = ExpiredTerms(Held, sweep)
  BY DEF SweepCommit, Held, SettlementInv, SweepHolds
<1>2. \A j \in Keys :
        /\ j \notin Held => checkout'[j] = checkout[j] /\ term'[j] = term[j]
        /\ j \in Held => checkout'[j].status = "expired" /\ term'[j].status \in Retired
  BY <1>1, ExpiryKeeps
<1>3. \A j \in Held : term[j].status \notin InForce
  BY <1>1 DEF SettlementInv, TermsFollowCheckouts, Open, OpenStatus
<1>4. Expires(Held, {})
  <2>1. Access' = Access
    BY <1>1, <1>2, <1>3 DEF Access, Retired, InForce
  <2>2. \A j \in Held : Stage(j) = "open" /\ Stage(j)' = "expired"
    BY <1>1, <1>2 DEF Stage, Open, OpenStatus
  <2>3. \A j \in Keys \ Held : Stage(j)' = Stage(j)
    BY <1>2 DEF Stage, Open
  <2> QED
    BY <1>1, <2>1, <2>2, <2>3 DEF Expires
<1> QED
  BY <1>1, <1>4

\* What a settlement makes of its checkout: nothing new, a granted purchase, a review, or
\* a refund that takes the access back.
Granted(k) ==
  /\ \E p \in Pays, seen \in 0..FullAmount, sawOpen \in BOOLEAN :
       PayFor[p] = k /\ SettlePaid(p, seen, sawOpen)
  /\ Settles(k, {"open"}, "paid") /\ k \notin Access
  /\ \E old \in Keys : Access' = (Access \ {old}) \cup {k}

Reviews(k) == Settles(k, {"open", "expired", "paid"}, "review") /\ Access' = Access

Revokes(k) ==
  /\ Settles(k, {"open", "expired", "paid", "review"}, "refunded")
  /\ Access' = Access \ {k}

LEMMA SettlementStage ==
  ASSUME TypeOK, SettlementInv, NEW p \in Pays, NEW seen \in 0..FullAmount,
         SettlePayment(p, seen)
  PROVE  Stays \/ \E k \in Keys : Granted(k) \/ Reviews(k) \/ Revokes(k)
<1> DEFINE k == PayFor[p]
<1>0. k \in Keys /\ k \in Terms
  BY ConstantsAssumption DEF Terms
<1>1. /\ Arrives(p, seen) /\ checkout[k].status \in CheckoutStatus \ {"none"}
      /\ checkout[k].status \in SettledStatus => ledger[p].recorded
  BY <1>0, SettlementRecords, ArrivesFinds DEF TypeOK, Checkout
<1>2. ASSUME NEW st \in SettledStatus, NEW n, Record(p, st, n)
      PROVE  /\ Stage(k)' = st
             /\ \A j \in Keys \ {k} : checkout'[j] = checkout[j] /\ Stage(j)' = Stage(j)
  <2>1. checkout'[k].status = st /\ \A j \in Keys \ {k} : checkout'[j] = checkout[j]
    BY <1>2, RecordMoves
  <2> QED
    BY <2>1 DEF Stage, Open, OpenStatus, SettledStatus
<1>3. CASE SettleAgain(p, seen)
  <2>1. checkout[k].status \in SettledStatus /\ Record(p, checkout[k].status, 0) /\ term' = term
    BY <1>3 DEF SettleAgain
  <2>2. Stage(k) = checkout[k].status
    BY <2>1 DEF Stage, Open, OpenStatus, SettledStatus
  <2> QED
    BY <1>2, <2>1, <2>2 DEF Stays, Access
<1>4. ASSUME NEW sawOpen, SettleReview(p, seen, sawOpen)
      PROVE  Reviews(k)
  <2>1. Record(p, "review", 0) /\ term' = term /\ FirstCapture(p, seen)
    BY <1>4 DEF SettleReview
  <2>2. Stage(k) \in {"open", "expired"}
    BY <2>1, FirstCaptureFinds DEF Stage, Open, OpenStatus
  <2> QED
    BY <1>0, <1>2, <2>1, <2>2 DEF Reviews, Settles, Access, SettledStatus
<1>5. ASSUME NEW sawOpen \in BOOLEAN, SettlePaid(p, seen, sawOpen)
      PROVE  Granted(k)
  <2> DEFINE started == [Moved(term[k], "ACTIVE") EXCEPT !.ends = now + TermLength]
             old == IF checkout[k].prev \in Keys THEN checkout[k].prev ELSE k
  <2>1. /\ term' = [t \in Terms |-> IF t = k THEN started
                   ELSE IF t = checkout[k].prev THEN Moved(term[t], "CANCELLED") ELSE term[t]]
        /\ Record(p, "paid", 0) /\ FirstCapture(p, seen) /\ term[k].status = "PENDING"
    BY <1>5 DEF SettlePaid, CanActivate
  <2>2. started.status = "ACTIVE"
    <3>1. Moved(term[k], "ACTIVE") \in Term /\ Moved(term[k], "ACTIVE").status = "ACTIVE"
      BY <1>0, MovedType DEF TypeOK, TermStatus
    <3> QED
      BY <3>1 DEF Term
  <2>3. \A t \in Terms : Moved(term[t], "CANCELLED").status = "CANCELLED"
    BY MovedType DEF TypeOK, TermStatus
  <2> HIDE DEF started
  <2>4. Stage(k) = "open"
    <3>1. checkout[k].status \in {"expired"} \cup OpenStatus
      BY <2>1, FirstCaptureFinds
    <3>2. checkout[k].status # "expired"
      BY <1>0, <2>1 DEF SettlementInv, TermsFollowCheckouts, Retired
    <3> QED
      BY <3>1, <3>2 DEF Stage, Open
  <2>5. k \notin Access
    BY <2>1 DEF Access, InForce
  <2>6. ASSUME NEW j \in Keys
        PROVE  term'[j].status \in InForce <=>
                 (j = k \/ (j # checkout[k].prev /\ term[j].status \in InForce))
    BY <1>0, <2>1, <2>2, <2>3 DEF Terms, InForce
  <2>7. Access' = (Access \ {old}) \cup {k}
    BY <1>0, <2>6 DEF Access
  <2> HIDE DEF old
  <2>8. old \in Keys
    BY <1>0 DEF old
  <2>9. Settles(k, {"open"}, "paid")
    BY <1>0, <1>2, <2>1, <2>4 DEF Settles, SettledStatus
  <2> QED
    BY <1>5, <2>5, <2>7, <2>8, <2>9 DEF Granted
<1>6. CASE SettleRefund(p, seen)
  <2> DEFINE n == KnownRefund(p, seen)
  <2>1. /\ Record(p, RefundStatus(n), n) /\ n \in 0..FullAmount /\ n >= ledger[p].refunded
        /\ \A t \in Terms \ {k} : term'[t] = term[t]
        /\ term'[k] = IF FullyRefunded(n) /\ term[k].status \in Revocable
                      THEN Moved(term[k], "CANCELLED") ELSE term[k]
    BY <1>0, <1>6, KnownRefundType DEF SettleRefund, TypeOK
  <2>2. Moved(term[k], "CANCELLED").status = "CANCELLED"
    BY <1>0, MovedType DEF TypeOK, TermStatus
  <2> HIDE DEF n
  <2>3. CASE FullyRefunded(n)
    <3>1. Stage(k)' = "refunded" /\ \A j \in Keys \ {k} : Stage(j)' = Stage(j)
      BY <1>2, <2>1, <2>3 DEF RefundStatus, SettledStatus
    <3>2. term'[k].status \notin InForce
      BY <2>1, <2>2, <2>3 DEF Revocable, InForce
    <3>3. Access' = Access \ {k}
      BY <2>1, <3>2 DEF Access, Terms
    <3>4. Stage(k) \in {"open", "expired", "paid", "review", "refunded"}
      BY <1>1 DEF Stage, Open, CheckoutStatus, SettledStatus
    <3> QED
      BY <1>0, <3>1, <3>3, <3>4 DEF Revokes, Settles, Stays
  <2>4. CASE ~FullyRefunded(n)
    <3>1. Stage(k)' = "review" /\ \A j \in Keys \ {k} : Stage(j)' = Stage(j)
      BY <1>2, <2>1, <2>4 DEF RefundStatus, SettledStatus
    <3>2. Access' = Access
      BY <2>1, <2>4 DEF Access, Terms
    <3>3. checkout[k].status # "refunded"
      <4>1. checkout[k].status = "refunded" => ledger[p].refunded = FullAmount
        BY <1>1 DEF SettlementInv, LedgerRows, SettledStatus
      <4> QED
        BY <2>1, <2>4, <4>1, ConstantsAssumption DEF FullyRefunded
    <3>4. Stage(k) \in {"open", "expired", "paid", "review"}
      BY <1>1, <3>3 DEF Stage, Open, CheckoutStatus, SettledStatus
    <3> QED
      BY <1>0, <3>1, <3>2, <3>4 DEF Reviews, Settles, Stays
  <2> QED
    BY <2>3, <2>4
<1>7. \A j : ApplicationsHeld(j) \subseteq BOOLEAN
  BY DEF TypeOK, ApplicationsHeld
<1> QED
  BY <1>0, <1>3, <1>4, <1>5, <1>6, <1>7 DEF SettlePayment

LEMMA EveryStepStages ==
  ASSUME TypeOK, SettlementInv, [Next]_vars
  PROVE  \/ Stays
         \/ \E S, N \in SUBSET Keys : Expires(S, N)
         \/ \E k \in Keys : Granted(k) \/ Reviews(k) \/ Revokes(k)
<1>1. CASE UNCHANGED <<term, checkout>>
  BY <1>1, NoRowMoves
<1>2. CASE TermStep
  <2>1. checkout' = checkout
    BY <1>2
    DEF TermStep, CreateSubscription, Suspend, Resume, Cancel, Move, Renew, Replace, ReplaceTerm
  <2>2. ASSUME NEW k \in Keys, term[k].status \notin InForce, term'[k].status \in InForce
        PROVE  FALSE
    <3>1. PICK p \in Pays, seen \in 0..FullAmount, sawOpen \in BOOLEAN :
            PayFor[p] = k /\ SettlePaid(p, seen, sawOpen)
      BY <1>2, <2>2, TermStepLawful DEF Bought
    <3>2. checkout'[k].status = "paid" /\ checkout[k].status \notin SettledStatus
      BY <3>1, RecordMoves DEF SettlePaid, FirstCapture, SettledStatus
    <3> QED
      BY <2>1, <3>2 DEF SettledStatus
  <2> QED
    BY <2>1, <2>2, NoRowMoves
<1>3. CASE CheckoutStep
  <2>1. ASSUME NEW k \in Keys, NEW c, NEW prev,
               AdminCheckout(k, prev, c) \/ CustomerCheckout(k, c)
        PROVE  \E S, N \in SUBSET Keys : Expires(S, N)
    <3>1. PICK pv, version, customer : StartCheckout(k, pv, version, c, customer)
      BY <2>1 DEF AdminCheckout, CustomerCheckout
    <3> QED
      BY <3>1, StartCheckoutStage
  <2>2. ASSUME NEW t \in Terms, NEW prev, CustomerOrder(t, prev) \/ Abandon(t)
        PROVE  Stays
    BY <2>2, NoRowMoves DEF CustomerOrder, Abandon
  <2>3. ASSUME NEW k \in Keys, AdminOrder(k) \/ CreateProviderOrder(k)
        PROVE  Stays
    BY <2>3, NoRowMoves DEF AdminOrder, CreateProviderOrder
  <2>4. ASSUME NEW k \in Keys, BindOrder(k)
        PROVE  Stays
    <3>1. /\ BoundOrder(checkout[k]).status = IF checkout[k].status = "creating" THEN "ready"
                                              ELSE checkout[k].status
      BY BoundOrderType DEF TypeOK
    <3>2. /\ term' = term /\ checkout'[k] = BoundOrder(checkout[k])
          /\ \A j \in Keys \ {k} : checkout'[j] = checkout[j]
      BY <2>4 DEF BindOrder, TypeOK
    <3> QED
      BY <3>1, <3>2 DEF Stays, Stage, Open, OpenStatus, Access
  <2>5. ASSUME NEW g \in Grants, ActivateFreePlan(g)
        PROVE  Stays
    <3>1. checkout' = checkout /\ g \notin Keys
      BY <2>5, ConstantsAssumption DEF ActivateFreePlan
    <3>2. \A u \in Terms : Moved(term[u], "EXPIRED").status = "EXPIRED"
      BY MovedType DEF TypeOK, TermStatus
    <3>3. \A k \in Keys : term'[k].status \in InForce => term[k].status \in InForce
      BY <2>5, <3>1, <3>2 DEF ActivateFreePlan, Terms, InForce
    <3> QED
      BY <3>1, <3>3, NoRowMoves
  <2> QED
    BY <1>3, <2>1, <2>2, <2>3, <2>4, <2>5 DEF CheckoutStep
<1>4. CASE PaymentStep
  BY <1>1, <1>4, SettlementStage DEF PaymentStep, Capture, Refund, LoadApplication
<1>5. CASE SweepCommit
  BY <1>5, SweepCommitStage
<1> QED
  BY <1>1, <1>2, <1>3, <1>4, <1>5
  DEF Next, vars, Tick, Archive, RestrictSubscriber, RestoreSubscriber, SweepRead

\* A payment that buys a replacement retires one other term only: the one the buyer chose, in
\* the version they were shown.
THEOREM ReplacementIsQuoted == Spec => PaymentReplacesOnlyTheQuotedTerm
<1>1. TypeOK /\ SettlementInv /\ [Next]_vars =>
        [\A k \in Keys : checkout[k].status # "paid" /\ checkout'[k].status = "paid" =>
           \A t \in Terms \ {k} : term'[t] # term[t] =>
             t = checkout[k].prev /\ term[t].version = checkout[k].prevVersion]_vars
  <2> SUFFICES ASSUME TypeOK, SettlementInv, [Next]_vars, NEW k \in Keys,
                      checkout[k].status # "paid", checkout'[k].status = "paid",
                      NEW t \in Terms \ {k}, term'[t] # term[t]
               PROVE  t = checkout[k].prev /\ term[t].version = checkout[k].prevVersion
    OBVIOUS
  <2>1. Stage(k) # "paid" /\ Stage(k)' = "paid"
    BY DEF Stage, Open, OpenStatus
  <2>2. Granted(k)
    BY <2>1, EveryStepStages DEF Stays, Expires, Granted, Reviews, Revokes, Settles
  <2>3. PICK p \in Pays, seen \in 0..FullAmount, sawOpen \in BOOLEAN :
          PayFor[p] = k /\ SettlePaid(p, seen, sawOpen)
    BY <2>2 DEF Granted
  <2>4. t = checkout[k].prev
    BY <2>3 DEF SettlePaid
  <2> QED
    BY <2>3, <2>4, ConstantsAssumption DEF SettlePaid, CanActivate, ValidPrevious
<1> QED
  BY <1>1, Settlement, TypeCorrect, PTL DEF Spec, PaymentReplacesOnlyTheQuotedTerm

LEMMA LedgerMovesBySettlement ==
  ASSUME TypeOK, SettlementInv, [Next]_vars, NEW p \in Pays, ledger'[p] # ledger[p]
  PROVE  \E seen \in 0..FullAmount : SettlePayment(p, seen)
<1>1. PICK q \in Pays, seen \in 0..FullAmount : SettlePayment(q, seen)
  <2>1. TermStep => ledger' = ledger
    BY DEF TermStep, CreateSubscription, Suspend, Resume, Cancel, Move, Renew, Replace,
           ReplaceTerm
  <2>2. CheckoutStep => ledger' = ledger
    <3>1. ASSUME NEW k, NEW c, NEW prev,
                 AdminCheckout(k, prev, c) \/ CustomerCheckout(k, c)
          PROVE  ledger' = ledger
      BY <3>1 DEF AdminCheckout, CustomerCheckout, StartCheckout
    <3>2. ASSUME NEW t, NEW prev, CustomerOrder(t, prev) \/ ActivateFreePlan(t) \/ Abandon(t)
          PROVE  ledger' = ledger
      BY <3>2 DEF CustomerOrder, ActivateFreePlan, Abandon
    <3>3. ASSUME NEW k, AdminOrder(k) \/ CreateProviderOrder(k) \/ BindOrder(k)
          PROVE  ledger' = ledger
      BY <3>3 DEF AdminOrder, CreateProviderOrder, BindOrder
    <3> QED
      BY <3>1, <3>2, <3>3 DEF CheckoutStep
  <2>3. \/ Tick \/ Archive \/ SweepRead \/ SweepCommit \/ UNCHANGED vars
        \/ \E s \in Subs : RestrictSubscriber(s) \/ RestoreSubscriber(s)
        => ledger' = ledger
    BY DEF vars, Tick, Archive, RestrictSubscriber, RestoreSubscriber, SweepRead, SweepCommit
  <2>4. PaymentStep
    BY <2>1, <2>2, <2>3 DEF Next
  <2> QED
    BY <2>4 DEF PaymentStep, Capture, Refund, LoadApplication
<1>2. q = p
  <2>1. PICK st \in SettledStatus, n \in 0..FullAmount : Record(q, st, n)
    BY <1>1, SettlementRecords
  <2> QED
    BY <2>1, RecordMoves
<1> QED
  BY <1>1, <1>2

\* Recording a capture again, or a partial refund, takes no access away.
THEOREM PartialRefundsLeaveAccess == Spec => PartialRefundKeepsAccess
<1>1. TypeOK /\ SettlementInv /\ [Next]_vars =>
        [\A p \in Pays :
           ledger'[p] # ledger[p] /\ ledger'[p].refunded < FullAmount =>
             (term[PayFor[p]].status \in InForce => term'[PayFor[p]] = term[PayFor[p]])]_vars
  <2> SUFFICES ASSUME TypeOK, SettlementInv, [Next]_vars, NEW p \in Pays,
                      ledger'[p] # ledger[p], ledger'[p].refunded < FullAmount,
                      term[PayFor[p]].status \in InForce
               PROVE  term'[PayFor[p]] = term[PayFor[p]]
    OBVIOUS
  <2> DEFINE k == PayFor[p]
  <2>1. PICK seen \in 0..FullAmount : SettlePayment(p, seen)
    BY LedgerMovesBySettlement
  <2>2. CASE SettleRefund(p, seen)
    <3> DEFINE n == KnownRefund(p, seen)
    <3>1. n \in 0..FullAmount /\ Record(p, RefundStatus(n), n) /\ RefundStatus(n) \in SettledStatus
      BY <2>2, KnownRefundType DEF SettleRefund, RefundStatus, SettledStatus
    <3>2. ledger'[p].refunded = n
      BY <3>1, RecordMoves
    <3>3. ~FullyRefunded(n)
      BY <3>1, <3>2, ConstantsAssumption DEF FullyRefunded
    <3>4. k \in Terms
      BY ConstantsAssumption DEF Terms
    <3> QED
      BY <2>2, <3>3, <3>4 DEF SettleRefund, TypeOK
  <2>3. ASSUME NEW sawOpen, SettlePaid(p, seen, sawOpen)
        PROVE  FALSE
    BY <2>3 DEF SettlePaid, CanActivate, InForce
  <2> QED
    BY <2>1, <2>2, <2>3 DEF SettlePayment, SettleReview, SettleAgain
<1> QED
  BY <1>1, Settlement, TypeCorrect, PTL DEF Spec, PartialRefundKeepsAccess
-----------------------------------------------------------------------------
(* One order at a time *)

LEMMA OneOrderStep ==
  ASSUME TypeOK, SettlementInv, OneCustomerCheckout, [Next]_vars
  PROVE  OneCustomerCheckout'
<1> DEFINE Ours(k) == Open(k) /\ checkout[k].customer
<1>1. ASSUME \A k \in Keys : Ours(k)' => Ours(k)
      PROVE  OneCustomerCheckout'
  BY <1>1 DEF OneCustomerCheckout
<1>2. ASSUME NEW k \in Keys, NEW prev, NEW version, NEW c, NEW customer \in BOOLEAN,
             StartCheckout(k, prev, version, c, customer)
      PROVE  OneCustomerCheckout'
  <2> DEFINE old == StaleOf(Owner[k])
  <2>1. /\ checkout'[k].customer = customer
        /\ \A j \in Keys \ {k} : checkout'[j] = ExpiredCheckouts(old)[j]
        /\ customer => NoOpenCheckout(Owner[k], old)
    BY <1>2 DEF StartCheckout, ExpiredCheckouts, EmptyCheckout
  <2>2. \A j \in Keys \ {k} : /\ j \in old => checkout'[j].status = "expired"
                              /\ j \notin old => checkout'[j] = checkout[j]
    BY <2>1 DEF ExpiredCheckouts, TypeOK, Checkout
  <2>3. \A j \in Keys \ {k} : Ours(j)' => Ours(j) /\ j \notin old
    BY <2>2 DEF Open, OpenStatus
  <2>4. ASSUME NEW i \in Keys, NEW j \in Keys, Owner[i] = Owner[j], i # j, Ours(i)', Ours(j)'
        PROVE  FALSE
    <3>1. CASE i # k /\ j # k
      BY <2>3, <2>4, <3>1 DEF OneCustomerCheckout
    <3>2. CASE i = k
      <4>1. Ours(j) /\ j \notin old
        BY <2>3, <2>4, <3>2
      <4> QED
        BY <2>1, <2>4, <3>2, <4>1 DEF NoOpenCheckout
    <3>3. CASE j = k
      <4>1. Ours(i) /\ i \notin old
        BY <2>3, <2>4, <3>3
      <4> QED
        BY <2>1, <2>4, <3>3, <4>1 DEF NoOpenCheckout
    <3> QED
      BY <3>1, <3>2, <3>3
  <2> HIDE DEF old
  <2> QED
    BY <2>4 DEF OneCustomerCheckout
<1>3. CASE checkout' = checkout
  BY <1>1, <1>3 DEF Open
<1>4. ASSUME NEW k \in Keys, BindOrder(k)
      PROVE  OneCustomerCheckout'
  <2>1. /\ checkout'[k] = BoundOrder(checkout[k])
        /\ \A j \in Keys \ {k} : checkout'[j] = checkout[j]
    BY <1>4 DEF BindOrder, TypeOK
  <2>2. BoundOrder(checkout[k]).status \in OpenStatus => checkout[k].status \in OpenStatus
    BY BoundOrderType DEF TypeOK, OpenStatus
  <2>3. BoundOrder(checkout[k]).customer = checkout[k].customer
    BY DEF BoundOrder, TypeOK, Checkout
  <2>4. \A j \in Keys : Ours(j)' => Ours(j)
    BY <2>1, <2>2, <2>3 DEF Open
  <2> QED
    BY <1>1, <2>4
<1>5. CASE SweepCommit
  <2>1. \A j \in Keys : Ours(j)' => Ours(j)
    BY <1>5 DEF SweepCommit, ExpiredCheckouts, Open, OpenStatus, TypeOK, Checkout
  <2> QED
    BY <1>1, <2>1
<1>6. ASSUME NEW p \in Pays, NEW seen \in 0..FullAmount, SettlePayment(p, seen)
      PROVE  OneCustomerCheckout'
  <2>1. PICK st \in SettledStatus, n \in 0..FullAmount : Record(p, st, n)
    BY <1>6, SettlementRecords
  <2>2. /\ checkout'[PayFor[p]].status \notin OpenStatus
        /\ \A j \in Keys \ {PayFor[p]} : checkout'[j] = checkout[j]
    BY <2>1, RecordMoves DEF SettledStatus, OpenStatus
  <2>3. \A j \in Keys : Ours(j)' => Ours(j)
    BY <2>2 DEF Open
  <2> QED
    BY <1>1, <2>3
<1>7. TermStep => checkout' = checkout
  BY DEF TermStep, CreateSubscription, Suspend, Resume, Cancel, Move, Renew, Replace, ReplaceTerm
<1>8. CASE CheckoutStep
  <2>1. ASSUME NEW k \in Keys, NEW c, NEW prev,
               AdminCheckout(k, prev, c) \/ CustomerCheckout(k, c)
        PROVE  OneCustomerCheckout'
    <3>1. \E pv, version : \E customer \in BOOLEAN :
            StartCheckout(k, pv, version, c, customer)
      BY <2>1 DEF AdminCheckout, CustomerCheckout
    <3> QED
      BY <1>2, <3>1
  <2>2. ASSUME NEW t, NEW prev, CustomerOrder(t, prev) \/ ActivateFreePlan(t) \/ Abandon(t)
        PROVE  checkout' = checkout
    BY <2>2 DEF CustomerOrder, ActivateFreePlan, Abandon
  <2>3. ASSUME NEW k, AdminOrder(k) \/ CreateProviderOrder(k)
        PROVE  checkout' = checkout
    BY <2>3 DEF AdminOrder, CreateProviderOrder
  <2> QED
    BY <1>3, <1>4, <1>8, <2>1, <2>2, <2>3 DEF CheckoutStep
<1>9. CASE PaymentStep
  BY <1>3, <1>6, <1>9 DEF PaymentStep, Capture, Refund, LoadApplication
<1> QED
  BY <1>3, <1>5, <1>7, <1>8, <1>9
  DEF Next, vars, Tick, Archive, RestrictSubscriber, RestoreSubscriber, SweepRead

\* A customer never has two orders open for payment, even when the second is requested while
\* the job is expiring the first.
THEOREM OneOrderAtATime == Spec => []OneCustomerCheckout
<1>1. Init => OneCustomerCheckout
  BY DEF Init, EmptyCheckout, OneCustomerCheckout, Open, OpenStatus
<1>2. TypeOK /\ SettlementInv /\ OneCustomerCheckout /\ [Next]_vars => OneCustomerCheckout'
  BY OneOrderStep
<1> QED
  BY <1>1, <1>2, Settlement, TypeCorrect, PTL DEF Spec
-----------------------------------------------------------------------------
(* Billing implements CheckoutContract *)

LEMMA InitContract == Init => Contract!Init
<1> SUFFICES ASSUME Init
             PROVE  Contract!Init
  OBVIOUS
<1>1. \A k \in Keys : checkout[k].status = "none" /\ term[k].status = "none"
  BY DEF Init, EmptyCheckout, EmptyTerm, Terms
<1>2. [k \in Keys |-> IF Open(k) THEN "open" ELSE checkout[k].status] = [k \in Keys |-> "none"]
  BY <1>1 DEF Open, OpenStatus
<1>3. {k \in Keys : term[k].status \in InForce} = {}
  BY <1>1 DEF InForce
<1> QED
  BY <1>2, <1>3 DEF Contract!Init

\* Each step of Billing is a step of the contract, or moves neither stage nor access.
LEMMA StepContract ==
  ASSUME TypeOK, SettlementInv, [Next]_vars
  PROVE  [Contract!Next]_<<[k \in Keys |-> IF Open(k) THEN "open" ELSE checkout[k].status],
                           {k \in Keys : term[k].status \in InForce}>>
<1> DEFINE stage  == [k \in Keys |-> IF Open(k) THEN "open" ELSE checkout[k].status]
           access == {k \in Keys : term[k].status \in InForce}
<1>1. /\ \A k \in Keys : stage[k] = Stage(k)
      /\ \A k \in Keys : stage'[k] = Stage(k)'
      /\ access = Access /\ access' = Access'
  BY DEF Stage, Access
<1>2. stage = [k \in Keys |-> stage[k]] /\ stage' = [k \in Keys |-> stage'[k]]
  OBVIOUS
<1>3. CASE Stays
  <2>1. stage' = stage
    BY <1>1, <1>2, <1>3 DEF Stays
  <2>2. access' \subseteq access
    BY <1>1, <1>3 DEF Stays
  <2> QED
    BY <2>1, <2>2 DEF Contract!Next, Contract!Lose
<1>4. ASSUME NEW S \in SUBSET Keys, NEW N \in SUBSET Keys, Expires(S, N)
      PROVE  Contract!OpenAndExpire
  <2>1. stage' = [k \in Keys |-> IF k \in S THEN "expired"
                                 ELSE IF k \in N THEN "open" ELSE stage[k]]
    BY <1>1, <1>4 DEF Expires
  <2>2. /\ S \cup N # {} /\ access' = access
        /\ \A k \in S : stage[k] = "open"
        /\ \A k \in N : stage[k] = "none"
    BY <1>1, <1>4 DEF Expires
  <2> QED
    BY <2>1, <2>2 DEF Contract!OpenAndExpire
<1>5. ASSUME NEW k \in Keys, NEW from, NEW to, Settles(k, from, to)
      PROVE  Contract!Move(k, from, to)
  <2>1. stage' = [stage EXCEPT ![k] = to]
    BY <1>1, <1>5 DEF Settles
  <2> QED
    BY <1>1, <1>5, <2>1 DEF Contract!Move, Settles
<1>6. ASSUME NEW k \in Keys, Granted(k)
      PROVE  \E old \in Keys : Contract!GrantInPlaceOf(k, old)
  <2>1. PICK old \in Keys : Access' = (Access \ {old}) \cup {k}
    BY <1>6 DEF Granted
  <2>2. Contract!Move(k, {"open"}, "paid")
    BY <1>5, <1>6 DEF Granted
  <2>3. Contract!GrantInPlaceOf(k, old)
    BY <1>1, <1>6, <2>1, <2>2 DEF Granted, Contract!GrantInPlaceOf
  <2> QED
    BY <2>3
<1>7. ASSUME NEW k \in Keys, Reviews(k)
      PROVE  Contract!Review(k)
  <2>1. Contract!Move(k, {"open", "expired", "paid"}, "review")
    BY <1>5, <1>7 DEF Reviews
  <2> QED
    BY <1>1, <1>7, <2>1 DEF Reviews, Contract!Review
<1>8. ASSUME NEW k \in Keys, Revokes(k)
      PROVE  Contract!Refund(k)
  <2>1. Contract!Move(k, {"open", "expired", "paid", "review"}, "refunded")
    BY <1>5, <1>8 DEF Revokes
  <2> QED
    BY <1>1, <1>8, <2>1 DEF Revokes, Contract!Refund
<1> QED
  BY <1>3, <1>4, <1>6, <1>7, <1>8, EveryStepStages DEF Contract!Next

\* Locks, versions, retries and the expiry job together keep the contract of a checkout: access
\* begins once, with the money of an open order, and never returns.
THEOREM BillingKeepsContract == Spec => ImplementsContract
<1>1. TypeOK /\ SettlementInv /\ [Next]_vars =>
        [Contract!Next]_<<[k \in Keys |-> IF Open(k) THEN "open" ELSE checkout[k].status],
                          {k \in Keys : term[k].status \in InForce}>>
  BY StepContract
<1> QED
  BY <1>1, InitContract, Settlement, TypeCorrect, PTL DEF Spec, Contract!Spec, ImplementsContract
-----------------------------------------------------------------------------
(* What is announced *)

\* Every other step leaves ledger and outbox alone, and the checkouts that are settled.
LEMMA OnlySettlementsRecord ==
  ASSUME TypeOK, SettlementInv, [Next]_vars
  PROVE  \/ \E p \in Pays, seen \in 0..FullAmount : SettlePayment(p, seen)
         \/ /\ UNCHANGED <<ledger, outbox>>
            /\ \A k \in Keys : checkout[k].payment # NoPay =>
                 /\ checkout'[k].payment = checkout[k].payment
                 /\ checkout'[k].status = checkout[k].status
<1> DEFINE Apart == /\ UNCHANGED <<ledger, outbox>>
                    /\ \A k \in Keys : checkout[k].payment # NoPay =>
                         /\ checkout'[k].payment = checkout[k].payment
                         /\ checkout'[k].status = checkout[k].status
<1>1. CASE UNCHANGED <<checkout, ledger, outbox>>
  BY <1>1
<1>2. ASSUME NEW k \in Keys, NEW prev, NEW version, NEW c, NEW customer,
             StartCheckout(k, prev, version, c, customer)
      PROVE  Apart
  <2>1. checkout[k].payment = NoPay
    BY <1>2 DEF StartCheckout, SettlementInv, PaymentsBound, SettledStatus
  <2>2. \A j \in Keys \ {k} : checkout'[j] = ExpiredCheckouts(StaleOf(Owner[k]))[j]
    BY <1>2 DEF StartCheckout, ExpiredCheckouts
  <2>3. \A j \in Keys : checkout[j].payment # NoPay => j \notin StaleOf(Owner[k])
    BY DEF StaleOf, Stale
  <2> QED
    BY <1>2, <2>1, <2>2, <2>3, OutsideExpiry DEF StartCheckout
<1>3. ASSUME NEW k \in Keys, BindOrder(k)
      PROVE  Apart
  <2>1. checkout[k].payment # NoPay => checkout[k].status # "creating"
    BY DEF SettlementInv, PaymentsBound, SettledStatus
  <2>2. /\ BoundOrder(checkout[k]).payment = checkout[k].payment
        /\ checkout[k].status # "creating" => BoundOrder(checkout[k]).status = checkout[k].status
    BY BoundOrderType DEF TypeOK
  <2> QED
    BY <1>3, <2>1, <2>2 DEF BindOrder, TypeOK
<1>4. CASE SweepCommit
  <2>1. \A j \in Keys : checkout[j].payment # NoPay => j \notin Held
    BY DEF SettlementInv, SweepHolds
  <2> QED
    BY <1>4, <2>1, OutsideExpiry DEF SweepCommit
<1>5. CASE TermStep
  BY <1>1, <1>5
  DEF TermStep, CreateSubscription, Suspend, Resume, Cancel, Move, Renew, Replace, ReplaceTerm
<1>6. CASE CheckoutStep
  <2>1. ASSUME NEW k \in Keys, NEW c, NEW prev,
               AdminCheckout(k, prev, c) \/ CustomerCheckout(k, c)
        PROVE  \E pv, version, customer : StartCheckout(k, pv, version, c, customer)
    BY <2>1 DEF AdminCheckout, CustomerCheckout
  <2>2. ASSUME NEW t, NEW prev, CustomerOrder(t, prev) \/ ActivateFreePlan(t) \/ Abandon(t)
        PROVE  UNCHANGED <<checkout, ledger, outbox>>
    BY <2>2 DEF CustomerOrder, ActivateFreePlan, Abandon
  <2>3. ASSUME NEW k, AdminOrder(k) \/ CreateProviderOrder(k)
        PROVE  UNCHANGED <<checkout, ledger, outbox>>
    BY <2>3 DEF AdminOrder, CreateProviderOrder
  <2> QED
    BY <1>1, <1>2, <1>3, <1>6, <2>1, <2>2, <2>3 DEF CheckoutStep
<1>7. CASE PaymentStep
  BY <1>1, <1>7 DEF PaymentStep, Capture, Refund, LoadApplication
<1> QED
  BY <1>1, <1>4, <1>5, <1>6, <1>7
  DEF Next, vars, Tick, Archive, RestrictSubscriber, RestoreSubscriber, SweepRead

\* A settlement records the status its amount calls for, or no refund at all.
LEMMA SettlementAnnounces ==
  ASSUME TypeOK, SettlementInv, NEW p \in Pays, NEW seen \in 0..FullAmount,
         SettlePayment(p, seen)
  PROVE  \E st \in SettledStatus, n \in 0..FullAmount :
           /\ Record(p, st, n) /\ n >= ledger[p].refunded
           /\ n > 0 => st = RefundStatus(n)
<1>1. KnownRefund(p, seen) \in 0..FullAmount /\ KnownRefund(p, seen) >= ledger[p].refunded
      /\ 0 \in 0..FullAmount
  BY KnownRefundType, ConstantsAssumption
<1>2. CASE SettleRefund(p, seen)
  <2>1. RefundStatus(KnownRefund(p, seen)) \in SettledStatus
    BY DEF RefundStatus, SettledStatus
  <2> QED
    BY <1>1, <1>2, <2>1 DEF SettleRefund
<1>3. CASE \/ \E sawOpen : SettleReview(p, seen, sawOpen) \/ SettlePaid(p, seen, sawOpen)
           \/ SettleAgain(p, seen)
  <2>1. KnownRefund(p, seen) = 0
    BY <1>3 DEF SettleReview, SettlePaid, SettleAgain, FirstCapture
  <2>2. \E st \in SettledStatus : Record(p, st, 0)
    BY <1>3 DEF SettleReview, SettlePaid, SettleAgain, SettledStatus
  <2> QED
    BY <1>1, <2>1, <2>2
<1> QED
  BY <1>2, <1>3 DEF SettlePayment

LEMMA OutboxStep ==
  ASSUME TypeOK, TypeOK', SettlementInv, OutboxFollowsLedger, [Next]_vars
  PROVE  OutboxFollowsLedger'
<1>0. /\ \A e \in outbox : e[1] \in Keys /\ e[3] \in Nat
      /\ \A e \in outbox : checkout[e[1]].payment \in Pays
      /\ \A p \in Pays : ledger[p].refunded \in 0..FullAmount /\ ledger'[p].refunded \in 0..FullAmount
  BY DEF TypeOK, Event, Checkout, OutboxFollowsLedger
<1>1. CASE \E p \in Pays, seen \in 0..FullAmount : SettlePayment(p, seen)
  <2>1. PICK p \in Pays, seen \in 0..FullAmount : SettlePayment(p, seen)
    BY <1>1
  <2> DEFINE k == PayFor[p]
  <2>2. PICK st \in SettledStatus, n \in 0..FullAmount :
          /\ Record(p, st, n) /\ n >= ledger[p].refunded
          /\ n > 0 => st = RefundStatus(n)
    BY <2>1, SettlementAnnounces
  <2>3. /\ k \in Keys /\ checkout'[k].payment = p /\ checkout'[k].status = st
        /\ \A j \in Keys \ {k} : checkout'[j] = checkout[j]
        /\ ledger'[p].refunded = n
        /\ \A q \in Pays \ {p} : ledger'[q] = ledger[q]
    BY <2>2, RecordMoves
  <2>4. p # NoPay /\ checkout[k].payment \in {NoPay, p}
    BY <2>1, SettlementRecords, ConstantsAssumption DEF Arrives
  <2>5. ASSUME NEW e \in outbox'
        PROVE  checkout'[e[1]].payment # NoPay
               /\ e[3] <= ledger'[checkout'[e[1]].payment].refunded
    <3>1. CASE e = EventKey(k, st, n)
      <4>1. e[1] = k /\ e[3] = n
        BY <3>1 DEF EventKey
      <4> QED
        BY <2>3, <2>4, <4>1, <1>0
    <3>2. CASE e \in outbox /\ e[1] = k
      <4>1. checkout[k].payment = p /\ e[3] <= ledger[p].refunded
        BY <2>4, <3>2 DEF OutboxFollowsLedger
      <4> QED
        BY <1>0, <2>2, <2>3, <2>4, <3>2, <4>1
    <3>3. CASE e \in outbox /\ e[1] # k
      <4>1. e[1] \in Keys /\ checkout'[e[1]] = checkout[e[1]]
        BY <1>0, <2>3, <3>3
      <4>2. checkout[e[1]].payment \in Pays \ {p}
        <5>1. checkout[e[1]].payment \in Pays
          BY <1>0, <3>3
        <5>2. PayFor[checkout[e[1]].payment] = e[1]
          BY <4>1, <5>1, ConstantsAssumption DEF SettlementInv, PaymentsBound
        <5> QED
          BY <3>3, <5>1, <5>2
      <4> QED
        BY <2>3, <3>3, <4>1, <4>2 DEF OutboxFollowsLedger
    <3>4. e \in outbox \/ e = EventKey(k, st, n)
      BY <2>2 DEF Record
    <3> QED
      BY <3>1, <3>2, <3>3, <3>4
  <2>6. ASSUME NEW q \in Pays, ledger'[q].refunded > 0
        PROVE  checkout'[PayFor[q]].status = RefundStatus(ledger'[q].refunded)
    <3>1. CASE q = p
      BY <2>2, <2>3, <2>6, <3>1
    <3>2. CASE q # p
      <4>1. ledger'[q] = ledger[q] /\ ledger[q].recorded
        BY <2>3, <2>6, <3>2, ConstantsAssumption DEF SettlementInv, LedgerRows
      <4>2. PayFor[q] # k
        BY <2>4, <3>2, <4>1, ConstantsAssumption DEF SettlementInv, LedgerRows
      <4>3. PayFor[q] \in Keys
        BY ConstantsAssumption
      <4> QED
        BY <2>3, <2>6, <4>1, <4>2, <4>3 DEF OutboxFollowsLedger
    <3> QED
      BY <3>1, <3>2
  <2> QED
    BY <2>5, <2>6 DEF OutboxFollowsLedger
<1>2. CASE /\ UNCHANGED <<ledger, outbox>>
           /\ \A k \in Keys : checkout[k].payment # NoPay =>
                /\ checkout'[k].payment = checkout[k].payment
                /\ checkout'[k].status = checkout[k].status
  <2>1. ASSUME NEW e \in outbox
        PROVE  checkout'[e[1]].payment # NoPay
               /\ e[3] <= ledger[checkout'[e[1]].payment].refunded
    BY <1>0, <1>2, <2>1 DEF OutboxFollowsLedger
  <2>2. ASSUME NEW q \in Pays, ledger[q].refunded > 0
        PROVE  checkout'[PayFor[q]].status = RefundStatus(ledger[q].refunded)
    <3>1. ledger[q].recorded
      BY <2>2 DEF SettlementInv, LedgerRows
    <3>2. PayFor[q] \in Keys /\ checkout[PayFor[q]].payment # NoPay
      BY <3>1, ConstantsAssumption DEF SettlementInv, LedgerRows
    <3> QED
      BY <1>2, <2>2, <3>2 DEF OutboxFollowsLedger
  <2> QED
    BY <1>2, <2>1, <2>2 DEF OutboxFollowsLedger
<1> QED
  BY <1>1, <1>2, OnlySettlementsRecord

\* Whatever a response that may still arrive has to announce has not been announced, so that
\* the unique key of the outbox refuses no settlement.
THEOREM AnnouncementsAreNew == Spec => []OutboxKeysFresh
<1>1. Init => OutboxFollowsLedger
  BY ConstantsAssumption DEF Init, OutboxFollowsLedger
<1>2. TypeOK /\ TypeOK' /\ SettlementInv /\ OutboxFollowsLedger /\ [Next]_vars
        => OutboxFollowsLedger'
  BY OutboxStep
<1>3. TypeOK /\ SettlementInv /\ OutboxFollowsLedger => OutboxKeysFresh
  <2> SUFFICES ASSUME TypeOK, SettlementInv, OutboxFollowsLedger,
                      NEW p \in Pays, NEW seen \in 0..FullAmount, Arrives(p, seen)
               PROVE  LET k == PayFor[p]
                          refunded == KnownRefund(p, seen)
                      IN  IF refunded > 0
                          THEN (\/ RefundStatus(refunded) # checkout[k].status
                                \/ refunded # ledger[p].refunded)
                                 => EventKey(k, RefundStatus(refunded), refunded) \notin outbox
                          ELSE checkout[k].status \notin SettledStatus =>
                                 \A st \in {"paid", "review"} : EventKey(k, st, 0) \notin outbox
    BY DEF OutboxKeysFresh
  <2> DEFINE k == PayFor[p]
             n == KnownRefund(p, seen)
  <2>1. k \in Keys /\ p # NoPay /\ checkout[k].payment \in {NoPay, p}
    BY ConstantsAssumption DEF Arrives
  <2>2. n \in 0..FullAmount /\ n >= ledger[p].refunded /\ ledger[p].refunded \in 0..FullAmount
    BY KnownRefundType DEF TypeOK
  <2>3. ASSUME NEW st, NEW m, EventKey(k, st, m) \in outbox
        PROVE  checkout[k].payment = p /\ m <= ledger[p].refunded
    <3>1. EventKey(k, st, m)[1] = k /\ EventKey(k, st, m)[3] = m
      BY DEF EventKey
    <3> QED
      BY <2>1, <2>3, <3>1 DEF OutboxFollowsLedger
  <2>4. CASE n > 0
    <3>1. ASSUME EventKey(k, RefundStatus(n), n) \in outbox
          PROVE  RefundStatus(n) = checkout[k].status /\ n = ledger[p].refunded
      <4>1. n <= ledger[p].refunded
        BY <2>3, <3>1
      <4>2. n = ledger[p].refunded
        BY <2>2, <4>1, ConstantsAssumption
      <4> QED
        BY <2>4, <4>2 DEF OutboxFollowsLedger
    <3> QED
      BY <2>4, <3>1
  <2>5. CASE ~(n > 0)
    <3>1. checkout[k].status \notin SettledStatus => checkout[k].payment = NoPay
      BY <2>1 DEF SettlementInv, PaymentsBound
    <3> QED
      BY <2>1, <2>3, <2>5, <3>1
  <2> QED
    BY <2>4, <2>5
<1> QED
  BY <1>1, <1>2, <1>3, Settlement, TypeCorrect, PTL DEF Spec
-----------------------------------------------------------------------------
(* Coupons *)

\* The redemptions of coupon c among the terms in R, and those of one subscriber.
Redeemed(R, c)      == {t \in R : term[t].coupon = c}
RedeemedBy(R, c, s) == {t \in Redeemed(R, c) : Owner[t] = s}

\* What apply_to_subscription compares and what release and redemption write, in those terms.
LEMMA ReleasedUses ==
  ASSUME TypeOK, CouponAccounts, NEW gone \in SUBSET redemptions, NEW c \in Coupons
  PROVE  UsesAfter(gone)[c] = Cardinality(Redeemed(redemptions \ gone, c))
<1> DEFINE R == Redeemed(redemptions, c)
           G == Redeemed(gone, c)
<1>1. /\ R \in SUBSET Terms /\ G \in SUBSET R /\ R \cap G = G
      /\ Redeemed(redemptions \ gone, c) = R \ G
  BY DEF TypeOK, Redeemed
<1>2. /\ IsFiniteSet(R) /\ IsFiniteSet(G) /\ Cardinality(R) \in Nat /\ Cardinality(G) \in Nat
  BY <1>1, CountsAreNat
<1>3. uses[c] = Cardinality(R)
  BY DEF CouponAccounts, Redeemed
<1>4. UsesAfter(gone)[c] = IF Cardinality(G) <= uses[c] THEN uses[c] - Cardinality(G) ELSE 0
  BY DEF UsesAfter, Redeemed
<1> HIDE DEF R, G
<1>5. Cardinality(G) <= Cardinality(R)
  BY <1>1, <1>2, FS_Subset
<1>6. Cardinality(R \ G) = Cardinality(R) - Cardinality(R \cap G)
  BY <1>2, FS_Difference
<1> QED
  BY <1>1, <1>2, <1>3, <1>4, <1>5, <1>6

LEMMA OneMore ==
  ASSUME NEW S \in SUBSET Terms, NEW t, t \notin S
  PROVE  Cardinality(S \cup {t}) = Cardinality(S) + 1
<1>1. IsFiniteSet(S)
  BY CountsAreNat
<1> QED
  BY <1>1, FS_AddElement

\* The rows stay, or some are released and one for coupon c may follow, within its limits.
LEMMA RedemptionsMove ==
  ASSUME TypeOK, TypeOK', RedemptionInv,
         NEW gone \in SUBSET redemptions, NEW t \in Terms, NEW c \in Coupons \cup {NoCoupon},
         term[t].status = "none", term'[t].status # "none", term'[t].coupon = c,
         Redeemable(t, c, gone, UsesAfter(gone)),
         redemptions' = (redemptions \ gone) \cup Holds(t, c),
         uses' = Redeem(UsesAfter(gone), c),
         \A u \in Terms \ {t} : /\ term'[u].coupon = term[u].coupon
                                /\ term[u].status # "none" => term'[u].status # "none"
  PROVE  /\ CouponAccounts'
         /\ \A u \in redemptions' : term'[u].status # "none"
<1> DEFINE kept == redemptions \ gone
<1>1. /\ kept \in SUBSET Terms /\ t \notin kept /\ t \notin redemptions
      /\ \A u \in kept : u \in Terms \ {t}
  BY DEF TypeOK, RedemptionInv
<1>2. \A u \in redemptions' : term'[u].status # "none"
  BY <1>1 DEF RedemptionInv, Holds
<1>3. ASSUME NEW d \in Coupons
      PROVE  /\ uses'[d] = Cardinality({u \in redemptions' : term'[u].coupon = d})
             /\ uses'[d] <= MaxRedemptions
             /\ \A s \in Subs :
                  Cardinality({u \in {v \in redemptions' : term'[v].coupon = d} : Owner[u] = s})
                    <= PerSubscriber
  <2> DEFINE K == Redeemed(kept, d)
             R == Redeemed(redemptions, d)
             N == {u \in redemptions' : term'[u].coupon = d}
  <2>1. /\ K \in SUBSET Terms /\ R \in SUBSET Terms /\ K \in SUBSET R /\ t \notin K
        /\ N = IF d = c THEN K \cup {t} ELSE K
    BY <1>1, ConstantsAssumption DEF Holds, Redeemed, TypeOK
  <2>2. /\ IsFiniteSet(K) /\ Cardinality(K) \in Nat /\ IsFiniteSet(R) /\ Cardinality(R) \in Nat
    BY <2>1, CountsAreNat
  <2>3. /\ UsesAfter(gone)[d] = Cardinality(K) /\ uses[d] = Cardinality(R)
        /\ uses[d] <= MaxRedemptions
    BY ReleasedUses DEF RedemptionInv, RedemptionsAreAccounted, CouponAccounts, Redeemed
  <2>4. uses'[d] = IF d = c THEN Cardinality(K) + 1 ELSE Cardinality(K)
    BY <2>3 DEF Redeem
  <2>5. Cardinality(N) = IF d = c THEN Cardinality(K) + 1 ELSE Cardinality(K)
    <3>1. Cardinality(K \cup {t}) = Cardinality(K) + 1
      BY <2>1, OneMore
    <3> HIDE DEF K, N
    <3> QED
      BY <2>1, <3>1
  <2>6. uses'[d] <= MaxRedemptions
    <3>1. CASE d = c
      <4>1. Cardinality(K) < MaxRedemptions
        BY <2>3, <3>1, ConstantsAssumption DEF Redeemable
      <4> QED
        BY <2>2, <2>4, <3>1, <4>1, ConstantsAssumption
    <3>2. CASE d # c
      <4>1. Cardinality(K) <= Cardinality(R)
        BY <2>1, <2>2, FS_Subset
      <4> QED
        BY <2>2, <2>3, <2>4, <3>2, <4>1, ConstantsAssumption
    <3> QED
      BY <3>1, <3>2
  <2>7. ASSUME NEW s \in Subs
        PROVE  Cardinality({u \in N : Owner[u] = s}) <= PerSubscriber
    <3> DEFINE KS == RedeemedBy(kept, d, s)
               RS == RedeemedBy(redemptions, d, s)
               NS == {u \in N : Owner[u] = s}
    <3>1. /\ KS \in SUBSET Terms /\ RS \in SUBSET Terms /\ KS \in SUBSET RS /\ t \notin KS
          /\ NS = IF d = c /\ Owner[t] = s THEN KS \cup {t} ELSE KS
      BY <2>1 DEF RedeemedBy
    <3>2. /\ IsFiniteSet(KS) /\ Cardinality(KS) \in Nat
          /\ IsFiniteSet(RS) /\ Cardinality(RS) \in Nat
      BY <3>1, CountsAreNat
    <3>3. CASE d = c /\ Owner[t] = s
      <4>1. {u \in kept : Owner[u] = Owner[t] /\ term[u].coupon = c} = KS
        BY <3>3 DEF RedeemedBy, Redeemed
      <4>2. Cardinality(KS) < PerSubscriber
        BY <3>3, <4>1, ConstantsAssumption DEF Redeemable
      <4>3. Cardinality(NS) = Cardinality(KS) + 1
        <5>1. Cardinality(KS \cup {t}) = Cardinality(KS) + 1
          BY <3>1, OneMore
        <5> HIDE DEF KS, NS
        <5> QED
          BY <3>1, <3>3, <5>1
      <4> QED
        BY <3>2, <4>2, <4>3, ConstantsAssumption
    <3>4. CASE ~(d = c /\ Owner[t] = s)
      <4>1. Cardinality(KS) <= Cardinality(RS)
        BY <3>1, <3>2, FS_Subset
      <4>2. Cardinality(RS) <= PerSubscriber
        BY DEF RedemptionInv, RedemptionsAreAccounted, CouponAccounts, RedeemedBy, Redeemed
      <4>3. Cardinality(NS) = Cardinality(KS)
        BY <3>1, <3>4
      <4> QED
        BY <3>2, <4>1, <4>2, <4>3, ConstantsAssumption
    <3> QED
      BY <3>3, <3>4
  <2> QED
    BY <2>4, <2>5, <2>6, <2>7
<1> QED
  BY <1>2, <1>3 DEF CouponAccounts

\* A release alone: what expires of the job's checkouts.
LEMMA RedemptionsLeave ==
  ASSUME TypeOK, TypeOK', RedemptionInv, NEW gone \in SUBSET redemptions,
         redemptions' = redemptions \ gone, uses' = UsesAfter(gone),
         \A u \in Terms : term[u].status # "none" =>
           term'[u].coupon = term[u].coupon /\ term'[u].status # "none"
  PROVE  /\ CouponAccounts'
         /\ \A u \in redemptions' : term'[u].status # "none"
<1>1. \A u \in redemptions : /\ u \in Terms /\ term'[u].coupon = term[u].coupon
                             /\ term'[u].status # "none"
  BY DEF TypeOK, RedemptionInv
<1>2. ASSUME NEW d \in Coupons
      PROVE  /\ uses'[d] = Cardinality({u \in redemptions' : term'[u].coupon = d})
             /\ uses'[d] <= MaxRedemptions
             /\ \A s \in Subs :
                  Cardinality({u \in {v \in redemptions' : term'[v].coupon = d} : Owner[u] = s})
                    <= PerSubscriber
  <2> DEFINE K == Redeemed(redemptions \ gone, d)
             R == Redeemed(redemptions, d)
             N == {u \in redemptions' : term'[u].coupon = d}
  <2>1. K \in SUBSET Terms /\ R \in SUBSET Terms /\ K \in SUBSET R /\ N = K
    BY <1>1 DEF Redeemed
  <2>2. /\ uses'[d] = Cardinality(K) /\ uses[d] = Cardinality(R)
        /\ uses[d] <= MaxRedemptions
    BY ReleasedUses DEF RedemptionInv, RedemptionsAreAccounted, CouponAccounts, Redeemed
  <2>3. \A A, B \in SUBSET Terms : A \subseteq B => Cardinality(A) <= Cardinality(B)
    BY CountsAreNat, FS_Subset
  <2>4. \A A \in SUBSET Terms : Cardinality(A) \in Nat
    BY CountsAreNat
  <2>5. ASSUME NEW s \in Subs
        PROVE  Cardinality({u \in N : Owner[u] = s}) <= PerSubscriber
    <3> DEFINE NS == {u \in N : Owner[u] = s}
               RS == RedeemedBy(redemptions, d, s)
    <3>1. NS \in SUBSET Terms /\ RS \in SUBSET Terms /\ NS \subseteq RS
      BY <2>1 DEF RedeemedBy
    <3>2. Cardinality(RS) <= PerSubscriber
      BY DEF RedemptionInv, RedemptionsAreAccounted, CouponAccounts, RedeemedBy, Redeemed
    <3>3. /\ Cardinality(NS) <= Cardinality(RS)
          /\ Cardinality(NS) \in Nat /\ Cardinality(RS) \in Nat
      BY <2>3, <2>4, <3>1
    <3> QED
      BY <3>2, <3>3, ConstantsAssumption
  <2>6. Cardinality(K) <= Cardinality(R)
    BY <2>1, <2>3
  <2> HIDE DEF K, R
  <2>7. uses'[d] <= MaxRedemptions
    BY <2>1, <2>2, <2>4, <2>6, ConstantsAssumption
  <2> QED
    BY <2>1, <2>2, <2>5, <2>7
<1> QED
  BY <1>1, <1>2 DEF CouponAccounts

\* A term keeps the coupon it was created with.
LEMMA CouponsStay ==
  ASSUME TypeOK, SettlementInv, [Next]_vars
  PROVE  \A t \in Terms : term[t].status # "none" =>
           term'[t].coupon = term[t].coupon /\ term'[t].status # "none"
<1> DEFINE KeepsCoupon(t) == term[t].status # "none" => term'[t].coupon = term[t].coupon
<1>1. \A t \in Terms : term[t].status # "none" => term'[t].status # "none"
  BY EveryStepLawful DEF Lawful, Retired, InForce
<1>2. \A t \in Terms, st \in TermStatus : Moved(term[t], st).coupon = term[t].coupon
  BY MovedType DEF TypeOK
<1>3. \A S, seen : \A t \in Terms : ExpiredTerms(S, seen)[t].coupon = term[t].coupon
  <2> SUFFICES ASSUME NEW S, NEW seen, NEW t \in Terms
               PROVE  ExpiredTerms(S, seen)[t].coupon = term[t].coupon
    OBVIOUS
  <2>1. CASE t \in S /\ seen[t].status = "PENDING"
    BY <2>1 DEF ExpiredTerms, TypeOK, Term
  <2>2. CASE ~(t \in S /\ seen[t].status = "PENDING")
    BY <2>2 DEF ExpiredTerms
  <2> QED
    BY <2>1, <2>2
<1>4. CASE term' = term
  BY <1>1, <1>4
<1>5. CASE TermStep
  <2>1. ASSUME NEW t \in Grants, NEW c, CreateSubscription(t, c)
        PROVE  \A u \in Terms : KeepsCoupon(u)
    BY <2>1 DEF CreateSubscription, Unused, TypeOK
  <2>2. ASSUME NEW t \in Terms, Suspend(t) \/ Resume(t) \/ Cancel(t)
        PROVE  \A u \in Terms : KeepsCoupon(u)
    <3>1. PICK st \in TermStatus : Move(t, st)
      BY <2>2 DEF Suspend, Resume, Cancel, TermStatus
    <3> QED
      BY <1>2, <3>1 DEF Move, TypeOK
  <2>3. ASSUME NEW old \in Terms, NEW new \in Grants, Renew(old, new) \/ Replace(old, new)
        PROVE  \A u \in Terms : KeepsCoupon(u)
    <3>1. PICK st \in TermStatus : ReplaceTerm(old, new, st)
      BY <2>3 DEF Renew, Replace, TermStatus
    <3> QED
      BY <1>2, <3>1 DEF ReplaceTerm, Unused, TypeOK
  <2> QED
    BY <1>1, <1>5, <2>1, <2>2, <2>3 DEF TermStep
<1>6. CASE CheckoutStep
  <2>1. ASSUME NEW k \in Keys, NEW pv, NEW version, NEW c, NEW customer,
               StartCheckout(k, pv, version, c, customer)
        PROVE  \A u \in Terms : KeepsCoupon(u)
    <3>1. term[k].status = "none"
      BY <2>1 DEF StartCheckout, SettlementInv, TermsFollowCheckouts
    <3>2. \A u \in Terms \ {k} : term'[u] = ExpiredTerms(StaleOf(Owner[k]), term)[u]
      BY <2>1 DEF StartCheckout, ExpiredTerms
    <3> QED
      BY <1>3, <3>1, <3>2
  <2>2. ASSUME NEW k \in Keys, NEW c, NEW prev,
               AdminCheckout(k, prev, c) \/ CustomerCheckout(k, c)
        PROVE  \A u \in Terms : KeepsCoupon(u)
    BY <2>1, <2>2 DEF AdminCheckout, CustomerCheckout
  <2>3. ASSUME NEW t, NEW prev, CustomerOrder(t, prev) \/ Abandon(t)
        PROVE  term' = term
    BY <2>3 DEF CustomerOrder, Abandon
  <2>4. ASSUME NEW k, AdminOrder(k) \/ CreateProviderOrder(k) \/ BindOrder(k)
        PROVE  term' = term
    BY <2>4 DEF AdminOrder, CreateProviderOrder, BindOrder
  <2>5. ASSUME NEW t \in Grants, ActivateFreePlan(t)
        PROVE  \A u \in Terms : KeepsCoupon(u)
    <3>1. term[t].status = "none"
      BY <2>5 DEF ActivateFreePlan, SettlementInv, ReadersWait, Terms
    <3> QED
      BY <1>2, <2>5, <3>1 DEF ActivateFreePlan, TermStatus
  <2> QED
    BY <1>1, <1>4, <1>6, <2>2, <2>3, <2>4, <2>5 DEF CheckoutStep
<1>7. ASSUME NEW p \in Pays, NEW seen \in 0..FullAmount, SettlePayment(p, seen)
      PROVE  \A u \in Terms : KeepsCoupon(u)
  <2> DEFINE k == PayFor[p]
  <2>1. k \in Terms
    BY ConstantsAssumption DEF Terms
  <2>2. CASE SettleRefund(p, seen)
    BY <1>2, <2>1, <2>2 DEF SettleRefund, TypeOK, TermStatus
  <2>3. ASSUME NEW sawOpen, SettlePaid(p, seen, sawOpen)
        PROVE  \A u \in Terms : KeepsCoupon(u)
    <3> DEFINE active == Moved(term[k], "ACTIVE")
    <3>1. [active EXCEPT !.ends = now + TermLength].coupon = active.coupon
      BY <2>1, MovedType DEF TypeOK, TermStatus, Term
    <3>2. term' = [t \in Terms |->
             IF t = k THEN [active EXCEPT !.ends = now + TermLength]
             ELSE IF t = checkout[k].prev THEN Moved(term[t], "CANCELLED") ELSE term[t]]
      BY <2>3 DEF SettlePaid
    <3>3. active.coupon = term[k].coupon
      BY <1>2, <2>1 DEF TermStatus
    <3> HIDE DEF active, k
    <3> QED
      BY <1>2, <3>1, <3>2, <3>3 DEF TermStatus
  <2>4. CASE term' = term
    BY <2>4
  <2> QED
    BY <1>7, <2>2, <2>3, <2>4 DEF SettlePayment, SettleReview, SettleAgain
<1>8. CASE PaymentStep
  BY <1>1, <1>4, <1>7, <1>8 DEF PaymentStep, Capture, Refund, LoadApplication
<1>9. CASE SweepCommit
  BY <1>1, <1>3, <1>9 DEF SweepCommit
<1> QED
  BY <1>4, <1>5, <1>6, <1>8, <1>9
  DEF Next, vars, Tick, Archive, RestrictSubscriber, RestoreSubscriber, SweepRead

\* The steps that neither redeem nor release: no checkout opens or expires by them.
LEMMA RowsStay ==
  ASSUME TypeOK, SettlementInv, RedemptionInv, [Next]_vars,
         UNCHANGED <<redemptions, uses>>,
         \A k \in Keys : /\ checkout'[k].status \in OpenStatus => Open(k)
                         /\ checkout'[k].status = "expired" => checkout[k].status = "expired"
  PROVE  RedemptionInv'
<1>1. \A u \in redemptions : /\ u \in Terms /\ term'[u].coupon = term[u].coupon
                             /\ term'[u].status # "none"
  BY CouponsStay DEF TypeOK, RedemptionInv
<1>2. \A c \in Coupons :
        {t \in redemptions : term'[t].coupon = c} = {t \in redemptions : term[t].coupon = c}
  BY <1>1
<1>3. CouponAccounts'
  BY <1>2 DEF RedemptionInv, RedemptionsAreAccounted, CouponAccounts
<1>4. ReservationFollowsCheckout'
  <2> SUFFICES ASSUME NEW k \in Keys
               PROVE  /\ Open(k)' /\ term'[k].coupon # NoCoupon => k \in redemptions
                      /\ checkout'[k].status = "expired" => k \notin redemptions
    BY DEF ReservationFollowsCheckout
  <2>1. Open(k)' => Open(k) /\ term'[k].coupon = term[k].coupon
    BY CouponsStay DEF Open, OpenStatus, SettlementInv, TermsFollowCheckouts, Terms
  <2> QED
    BY <2>1 DEF RedemptionInv, RedemptionsAreAccounted, ReservationFollowsCheckout
<1> QED
  BY <1>1, <1>3, <1>4 DEF RedemptionInv, RedemptionsAreAccounted

LEMMA CreateSubscriptionRedeems ==
  ASSUME TypeOK, TypeOK', SettlementInv, RedemptionInv, [Next]_vars,
         NEW t \in Grants, NEW c \in Coupons \cup {NoCoupon}, CreateSubscription(t, c)
  PROVE  RedemptionInv'
<1>1. t \in Terms /\ t \notin Keys
  BY ConstantsAssumption DEF Terms
<1>2. /\ term[t].status = "none" /\ term'[t] = NewTerm("ACTIVE", c)
      /\ \A u \in Terms \ {t} : term'[u] = term[u]
      /\ Redeemable(t, c, {}, uses) /\ uses' = Redeem(uses, c)
      /\ redemptions' = redemptions \cup Holds(t, c) /\ checkout' = checkout
  BY <1>1 DEF CreateSubscription, Unused, TypeOK
<1>3. uses = UsesAfter({})
  <2>1. \A d \in Coupons : Cardinality({u \in {} : term[u].coupon = d}) = 0
    <3>1. \A d : {u \in {} : term[u].coupon = d} = {}
      OBVIOUS
    <3> QED
      BY <3>1, FS_EmptySet
  <2>2. UsesAfter({}) = [d \in Coupons |-> uses[d]]
    BY <2>1 DEF UsesAfter, TypeOK
  <2> QED
    BY <2>2 DEF TypeOK
<1>4. redemptions' = (redemptions \ {}) \cup Holds(t, c)
  BY <1>2
<1>5. term'[t].status # "none" /\ term'[t].coupon = c
  BY <1>2 DEF NewTerm
<1>6. CouponAccounts' /\ \A u \in redemptions' : term'[u].status # "none"
  <2>1. {} \in SUBSET redemptions
    OBVIOUS
  <2> QED
    BY <1>1, <1>2, <1>3, <1>4, <1>5, <2>1, RedemptionsMove
<1>7. ReservationFollowsCheckout'
  <2>1. \A k \in Keys : /\ term'[k] = term[k] /\ checkout'[k] = checkout[k]
                        /\ k \in redemptions' <=> k \in redemptions
    BY <1>1, <1>2 DEF Holds, Terms
  <2> QED
    BY <2>1 DEF RedemptionInv, RedemptionsAreAccounted, ReservationFollowsCheckout, Open
<1> QED
  BY <1>6, <1>7 DEF RedemptionInv, RedemptionsAreAccounted

LEMMA StartCheckoutRedeems ==
  ASSUME TypeOK, TypeOK', SettlementInv, RedemptionInv, [Next]_vars,
         NEW k \in Keys, NEW prev, NEW version, NEW c \in Coupons \cup {NoCoupon},
         NEW customer, StartCheckout(k, prev, version, c, customer)
  PROVE  RedemptionInv'
<1> DEFINE old  == StaleOf(Owner[k])
           gone == Released(old)
<1>1. /\ checkout[k].status = "none" /\ term[k].status = "none" /\ k \in Terms
      /\ old \in SUBSET Keys /\ \A j \in old : Open(j) /\ checkout[j].payment = NoPay
  BY DEF StartCheckout, Terms, StaleOf, Stale, SettlementInv, TermsFollowCheckouts
<1>2. /\ checkout'[k].status = "creating"
      /\ term'[k].status # "none" /\ term'[k].coupon = c
      /\ \A j \in Keys \ {k} : checkout'[j] = ExpiredCheckouts(old)[j]
  BY <1>1 DEF StartCheckout, ExpiredCheckouts, ExpiredTerms, EmptyCheckout, NewTerm
<1>3. /\ Redeemable(k, c, gone, UsesAfter(gone)) /\ uses' = Redeem(UsesAfter(gone), c)
      /\ redemptions' = (redemptions \ gone) \cup Holds(k, c)
  BY DEF StartCheckout
<1>4. gone \in SUBSET redemptions /\ gone \subseteq old /\ k \notin old
  BY <1>1 DEF Released, Open, OpenStatus
<1>5. \A u \in Terms \ {k} : /\ term'[u].coupon = term[u].coupon
                             /\ term[u].status # "none" => term'[u].status # "none"
  <2>1. term' = [ExpiredTerms(old, term) EXCEPT ![k] = NewTerm("PENDING", c)]
    BY DEF StartCheckout
  <2>2. \A u \in Terms \ {k} : term'[u] = ExpiredTerms(old, term)[u]
    BY <2>1 DEF ExpiredTerms
  <2>3. \A u \in Terms : ExpiredTerms(old, term)[u].coupon = term[u].coupon
    <3> SUFFICES ASSUME NEW u \in Terms
                 PROVE  ExpiredTerms(old, term)[u].coupon = term[u].coupon
      OBVIOUS
    <3>1. term[u] \in Term
      BY DEF TypeOK
    <3>2. ExpiredTerms(old, term)[u] =
            IF u \in old /\ term[u].status = "PENDING"
            THEN [term[u] EXCEPT !.status = "CANCELLED", !.version = term[u].version + 1]
            ELSE term[u]
      BY DEF ExpiredTerms
    <3> QED
      BY <3>1, <3>2 DEF Term
  <2> QED
    BY <2>2, <2>3, CouponsStay
<1> HIDE DEF old, gone
<1>6. CouponAccounts' /\ \A u \in redemptions' : term'[u].status # "none"
  BY <1>1, <1>2, <1>3, <1>4, <1>5, RedemptionsMove
<1>7. ReservationFollowsCheckout'
  <2> SUFFICES ASSUME NEW j \in Keys
               PROVE  /\ Open(j)' /\ term'[j].coupon # NoCoupon => j \in redemptions'
                      /\ checkout'[j].status = "expired" => j \notin redemptions'
    BY DEF ReservationFollowsCheckout
  <2>1. /\ Open(j) /\ term[j].coupon # NoCoupon => j \in redemptions
        /\ checkout[j].status = "expired" => j \notin redemptions
    BY DEF RedemptionInv, RedemptionsAreAccounted, ReservationFollowsCheckout
  <2>2. CASE j = k
    BY <1>2, <1>3, <2>2 DEF Holds
  <2>3. CASE j # k /\ j \in old
    <3>1. j \notin earned
      BY <1>1, <2>3 DEF SettlementInv, CommissionEarned, Open, OpenStatus, SettledStatus
    <3>2. j \notin redemptions'
      BY <1>3, <2>3, <3>1 DEF gone, Released, Holds
    <3>3. checkout'[j].status = "expired"
      BY <1>2, <2>3 DEF ExpiredCheckouts, TypeOK, Checkout
    <3> QED
      BY <3>2, <3>3 DEF Open, OpenStatus
  <2>4. CASE j # k /\ j \notin old
    <3>1. checkout'[j] = checkout[j] /\ (j \in redemptions' <=> j \in redemptions)
      BY <1>2, <1>3, <1>4, <2>4 DEF ExpiredCheckouts, Holds
    <3>2. term'[j].coupon = term[j].coupon
      BY <1>5, <2>4 DEF Terms
    <3> QED
      BY <2>1, <3>1, <3>2 DEF Open
  <2> QED
    BY <2>2, <2>3, <2>4
<1> QED
  BY <1>6, <1>7 DEF RedemptionInv, RedemptionsAreAccounted

LEMMA SweepCommitReleases ==
  ASSUME TypeOK, TypeOK', SettlementInv, RedemptionInv, [Next]_vars, SweepCommit
  PROVE  RedemptionInv'
<1> DEFINE gone == Released(Held)
<1>1. /\ redemptions' = redemptions \ gone /\ uses' = UsesAfter(gone)
      /\ checkout' = ExpiredCheckouts(Held)
      /\ gone \in SUBSET redemptions /\ gone \subseteq Held /\ Held \in SUBSET Keys
  BY DEF SweepCommit, Released, Held
<1>2. CouponAccounts' /\ \A u \in redemptions' : term'[u].status # "none"
  BY <1>1, CouponsStay, RedemptionsLeave
<1>3. ReservationFollowsCheckout'
  <2> SUFFICES ASSUME NEW j \in Keys
               PROVE  /\ Open(j)' /\ term'[j].coupon # NoCoupon => j \in redemptions'
                      /\ checkout'[j].status = "expired" => j \notin redemptions'
    BY DEF ReservationFollowsCheckout
  <2>1. /\ Open(j) /\ term[j].coupon # NoCoupon => j \in redemptions
        /\ checkout[j].status = "expired" => j \notin redemptions
    BY DEF RedemptionInv, RedemptionsAreAccounted, ReservationFollowsCheckout
  <2>2. CASE j \in Held
    <3>1. Open(j)
      BY <2>2 DEF SettlementInv, SweepHolds
    <3>2. j \notin earned
      BY <3>1 DEF SettlementInv, CommissionEarned, Open, OpenStatus, SettledStatus
    <3>3. j \notin redemptions'
      BY <1>1, <2>2, <3>2 DEF Released
    <3>4. checkout'[j].status = "expired"
      BY <1>1, <2>2 DEF ExpiredCheckouts, TypeOK, Checkout
    <3> QED
      BY <3>3, <3>4 DEF Open, OpenStatus
  <2>3. CASE j \notin Held
    <3>1. checkout'[j] = checkout[j] /\ (j \in redemptions' <=> j \in redemptions)
      BY <1>1, <2>3 DEF ExpiredCheckouts
    <3>2. Open(j) => term'[j].coupon = term[j].coupon
      BY CouponsStay DEF Open, OpenStatus, SettlementInv, TermsFollowCheckouts, Terms
    <3> QED
      BY <2>1, <3>1, <3>2 DEF Open
  <2> QED
    BY <2>2, <2>3
<1> QED
  BY <1>2, <1>3 DEF RedemptionInv, RedemptionsAreAccounted

LEMMA RedemptionStep ==
  ASSUME TypeOK, TypeOK', SettlementInv, RedemptionInv, [Next]_vars
  PROVE  RedemptionInv'
<1> DEFINE Still == /\ UNCHANGED <<redemptions, uses>>
                    /\ \A k \in Keys :
                         /\ checkout'[k].status \in OpenStatus => Open(k)
                         /\ checkout'[k].status = "expired" => checkout[k].status = "expired"
<1>0. Still => RedemptionInv'
  BY RowsStay
<1>1. CASE UNCHANGED <<checkout, redemptions, uses>>
  BY <1>0, <1>1 DEF Open
<1>2. CASE TermStep
  <2>1. CASE \E t \in Grants, c \in Coupons \cup {NoCoupon} : CreateSubscription(t, c)
    BY <2>1, CreateSubscriptionRedeems
  <2>2. ASSUME NEW t, NEW old, NEW new,
               \/ Suspend(t) \/ Resume(t) \/ Cancel(t) \/ Renew(old, new) \/ Replace(old, new)
        PROVE  UNCHANGED <<checkout, redemptions, uses>>
    BY <2>2 DEF Suspend, Resume, Cancel, Move, Renew, Replace, ReplaceTerm, couponVars
  <2> QED
    BY <1>1, <1>2, <2>1, <2>2 DEF TermStep
<1>3. CASE CheckoutStep
  <2>1. ASSUME NEW k \in Keys, NEW c \in Coupons \cup {NoCoupon}, NEW prev,
               AdminCheckout(k, prev, c) \/ CustomerCheckout(k, c)
        PROVE  \E pv, version, customer : StartCheckout(k, pv, version, c, customer)
    BY <2>1 DEF AdminCheckout, CustomerCheckout
  <2>2. ASSUME NEW t, NEW prev, CustomerOrder(t, prev) \/ ActivateFreePlan(t) \/ Abandon(t)
        PROVE  UNCHANGED <<checkout, redemptions, uses>>
    BY <2>2 DEF CustomerOrder, ActivateFreePlan, Abandon, couponVars
  <2>3. ASSUME NEW k, AdminOrder(k) \/ CreateProviderOrder(k)
        PROVE  UNCHANGED <<checkout, redemptions, uses>>
    BY <2>3 DEF AdminOrder, CreateProviderOrder, couponVars
  <2>4. ASSUME NEW k \in Keys, BindOrder(k)
        PROVE  Still
    <3>1. BoundOrder(checkout[k]).status = IF checkout[k].status = "creating" THEN "ready"
                                           ELSE checkout[k].status
      BY BoundOrderType DEF TypeOK
    <3> QED
      BY <2>4, <3>1 DEF BindOrder, TypeOK, couponVars, Open, OpenStatus
  <2> QED
    BY <1>0, <1>1, <1>3, <2>1, <2>2, <2>3, <2>4, StartCheckoutRedeems DEF CheckoutStep
<1>4. ASSUME NEW p \in Pays, NEW seen \in 0..FullAmount, SettlePayment(p, seen)
      PROVE  Still
  <2>1. PICK st \in SettledStatus, n \in 0..FullAmount : Record(p, st, n)
    BY <1>4, SettlementRecords
  <2>2. UNCHANGED <<redemptions, uses>>
    BY <2>1 DEF Record
  <2>3. /\ checkout'[PayFor[p]].status \notin OpenStatus \cup {"expired"}
        /\ \A j \in Keys \ {PayFor[p]} : checkout'[j] = checkout[j]
    BY <2>1, RecordMoves DEF SettledStatus, OpenStatus
  <2> QED
    BY <2>2, <2>3 DEF Open
<1>5. CASE PaymentStep
  BY <1>0, <1>1, <1>4, <1>5 DEF PaymentStep, Capture, Refund, LoadApplication, couponVars
<1> QED
  BY <1>1, <1>2, <1>3, <1>5, SweepCommitReleases
  DEF Next, vars, Tick, Archive, RestrictSubscriber, RestoreSubscriber, SweepRead, couponVars

\* A coupon's count is the number of its redemptions and within both of its limits, an open
\* order holds the coupon it was quoted with and an expired one holds none, in every
\* interleaving of orders, their expiry, subscriptions an administrator creates and payments.
THEOREM CouponsAreKept == Spec => []RedemptionsAreAccounted
<1>1. Init => RedemptionInv
  <2> SUFFICES ASSUME Init
               PROVE  RedemptionInv
    OBVIOUS
  <2>1. /\ redemptions = {} /\ \A c \in Coupons : uses[c] = 0
        /\ \A k \in Keys : checkout[k].status = "none"
    BY DEF Init, EmptyCheckout
  <2>2. \A c : {t \in redemptions : term[t].coupon = c} = {}
    BY <2>1
  <2>3. CouponAccounts
    BY <2>1, <2>2, FS_EmptySet, ConstantsAssumption DEF CouponAccounts
  <2>4. ReservationFollowsCheckout
    BY <2>1 DEF ReservationFollowsCheckout, Open, OpenStatus
  <2> QED
    BY <2>1, <2>3, <2>4 DEF RedemptionInv, RedemptionsAreAccounted
<1>2. TypeOK /\ TypeOK' /\ SettlementInv /\ RedemptionInv /\ [Next]_vars => RedemptionInv'
  BY RedemptionStep
<1>3. RedemptionInv => RedemptionsAreAccounted
  BY DEF RedemptionInv
<1> QED
  BY <1>1, <1>2, <1>3, Settlement, TypeCorrect, PTL DEF Spec
=============================================================================
