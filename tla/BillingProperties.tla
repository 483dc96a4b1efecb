-------------------------- MODULE BillingProperties --------------------------
(***************************************************************************)
(* What Billing must never do, and what it must eventually do.             *)
(***************************************************************************)
EXTENDS Billing

(* Invariants *)

\* A subscriber never has two terms in force (active or suspended), whichever of the four
\* routes that create terms run against each other.
OneCurrentTerm ==
  \A s \in Subs : \A t, u \in Current(s) : t = u

\* A bought term is in force only while the ledger holds a captured payment for its own
\* checkout that is not refunded in full (RAZORPAY.md "Activation requires ...").
PaidTermIsFunded ==
  \A k \in Keys : term[k].status \in InForce =>
    /\ checkout[k].status \in {"paid", "review"}
    /\ \E p \in Pays : /\ checkout[k].payment = p /\ PayFor[p] = k
                       /\ ledger[p].recorded /\ ledger[p].refunded < FullAmount

\* A full refund leaves nothing behind: the term is retired and the commission undone
\* (RAZORPAY.md "A verified full refund cancels the associated paid term").
RefundLeavesNothing ==
  \A k \in Keys : checkout[k].status = "refunded" =>
    /\ term[k].status \in {"EXPIRED", "CANCELLED"}
    /\ k \in earned => k \in reversed

\* The ledger never claims more than the provider holds, every row belongs to the checkout
\* that is bound to its payment, and a settled checkout always has its row.
LedgerFollowsProvider ==
  /\ \A p \in Pays : ledger[p].recorded =>
       /\ payment[p].captured /\ ledger[p].refunded <= payment[p].refunded
       /\ checkout[PayFor[p]].payment = p
  /\ \A k \in Keys : checkout[k].status \in SettledStatus =>
       \E p \in Pays : checkout[k].payment = p /\ ledger[p].recorded

\* Commission is earned at most for money received, and undone exactly by a full refund.
CommissionFollowsMoney ==
  \A k \in Keys :
    /\ k \in earned => checkout[k].status \in SettledStatus /\ k \in redemptions
    /\ k \in reversed <=> k \in earned /\ checkout[k].status = "refunded"

\* redemption_count counts the redemption rows, within both limits of the coupon, although
\* reservations are released by the job, by the next order and never by a late payment.
CouponAccounts ==
  \A c \in Coupons :
    LET rows == {t \in redemptions : term[t].coupon = c}
    IN  /\ uses[c] = Cardinality(rows)
        /\ uses[c] <= MaxRedemptions
        /\ \A s \in Subs : Cardinality({t \in rows : Owner[t] = s}) <= PerSubscriber

\* An open checkout holds the coupon it was quoted with, an expired one holds none.
ReservationFollowsCheckout ==
  \A k \in Keys :
    /\ Open(k) /\ term[k].coupon # NoCoupon => k \in redemptions
    /\ checkout[k].status = "expired" => k \notin redemptions

\* Coupons are redeemed within their limits, and for the orders that hold them.
RedemptionsAreAccounted == CouponAccounts /\ ReservationFollowsCheckout

\* A customer cannot have two orders open for payment (start_checkout "Resume your existing
\* checkout before starting another payment").
OneCustomerCheckout ==
  \A j, k \in Keys :
    /\ Owner[j] = Owner[k] /\ j # k
    /\ Open(j) /\ checkout[j].customer /\ Open(k) /\ checkout[k].customer
    => FALSE

\* No settlement can fail for ever on the unique outbox key: whatever a callback that may
\* still arrive would announce has not been announced before.
OutboxKeysFresh ==
  \A p \in Pays, seen \in 0..FullAmount : Arrives(p, seen) =>
    LET k == PayFor[p]
        refunded == KnownRefund(p, seen)
    IN  IF refunded > 0
        THEN (RefundStatus(refunded) # checkout[k].status \/ refunded # ledger[p].refunded)
               => EventKey(k, RefundStatus(refunded), refunded) \notin outbox
        ELSE checkout[k].status \notin SettledStatus =>
               \A st \in {"paid", "review"} : EventKey(k, st, 0) \notin outbox

(* The inductive invariant behind them *)

Retired == {"EXPIRED", "CANCELLED"}

\* A checkout has a payment exactly when it is settled, and that payment has its ledger row.
PaymentsBound ==
  \A k \in Keys :
    LET p == checkout[k].payment
    IN  /\ p # NoPay <=> checkout[k].status \in SettledStatus
        /\ p # NoPay => PayFor[p] = k /\ ledger[p].recorded

LedgerRows ==
  \A p \in Pays :
    /\ ledger[p].recorded =>
         /\ payment[p].captured /\ ledger[p].refunded <= payment[p].refunded
         /\ checkout[PayFor[p]].payment = p
         /\ ledger[p].refunded = FullAmount <=> checkout[PayFor[p]].status = "refunded"
    /\ ~ledger[p].recorded => ledger[p].refunded = 0

TermsFollowCheckouts ==
  \A k \in Keys :
    /\ checkout[k].status = "none" <=> term[k].status = "none"
    /\ term[k].status \in InForce => checkout[k].status \in {"paid", "review"}
    /\ checkout[k].status \in {"expired", "refunded"} => term[k].status \in Retired

OrdersAreSaved == \A k \in orders : checkout[k].status # "none"

\* What the job holds stays open and unpaid, and what it read is out of date only for a term
\* that is retired by now.
SweepHolds ==
  \A k \in Held :
    /\ Open(k) /\ checkout[k].payment = NoPay
    /\ term[k].status = "PENDING" =>
         sweep[k].status = "PENDING" /\ sweep[k].version = term[k].version

ReadersWait == \A t \in Terms : handler[t].phase = "read" => term[t].status = "none"

CommissionEarned ==
  \A k \in Keys :
    /\ k \in earned => checkout[k].status \in SettledStatus /\ Commissionable(k)
    /\ k \in reversed <=> k \in earned /\ checkout[k].status = "refunded"

\* Checkout, term, ledger row, commission and what the expiry job has read agree at every
\* moment, so that each handler may decide on the one it has locked.
SettlementInv ==
  /\ PaymentsBound /\ LedgerRows /\ TermsFollowCheckouts /\ OrdersAreSaved
  /\ SweepHolds /\ ReadersWait /\ CommissionEarned

\* What was announced of a checkout was announced of its payment, and of no larger refund than
\* its ledger row records; a row with a refund and its checkout's status say the same.
OutboxFollowsLedger ==
  /\ \A e \in outbox : LET p == checkout[e[1]].payment
                      IN  p # NoPay /\ e[3] <= ledger[p].refunded
  /\ \A p \in Pays : ledger[p].refunded > 0 =>
       checkout[PayFor[p]].status = RefundStatus(ledger[p].refunded)

\* Only a term that exists holds a coupon: the one it was created with.
RedemptionInv == RedemptionsAreAccounted /\ \A t \in redemptions : term[t].status # "none"
-----------------------------------------------------------------------------
(* What a step may never do *)

\* Stale provider responses never undo what is recorded: a payment's ledger row stays, its
\* refund only grows, and a checkout stays bound to its payment.
MoneyNeverRegresses ==
  [][/\ \A p \in Pays : /\ ledger[p].recorded => ledger'[p].recorded
                        /\ ledger'[p].refunded >= ledger[p].refunded
     /\ \A k \in Keys : checkout[k].payment # NoPay =>
          checkout'[k].payment = checkout[k].payment]_vars

\* A cancelled or expired term never comes back into force, and a term never returns to
\* PENDING (RAZORPAY.md "does not restore the old replaced term").
RetiredStaysRetired ==
  [][\A t \in Terms :
       /\ term[t].status \in {"EXPIRED", "CANCELLED"} =>
            term'[t].status \in {"EXPIRED", "CANCELLED"}
       /\ term[t].status \notin {"none", "PENDING"} => term'[t].status # "PENDING"]_vars

\* A payment that buys a replacement touches one other term only, the one the buyer chose,
\* in the very version they saw (RAZORPAY.md "produce review, not an overwrite").
PaymentReplacesOnlyTheQuotedTerm ==
  [][\A k \in Keys : checkout[k].status # "paid" /\ checkout'[k].status = "paid" =>
       \A t \in Terms \ {k} : term'[t] # term[t] =>
         t = checkout[k].prev /\ term[t].version = checkout[k].prevVersion]_vars

\* Settlement takes access away from the term it settles for a full refund only
\* (RAZORPAY.md "an already active term retains access").
PartialRefundKeepsAccess ==
  [][\A p \in Pays :
       ledger'[p] # ledger[p] /\ ledger'[p].refunded < FullAmount =>
         (term[PayFor[p]].status \in InForce => term'[PayFor[p]] = term[PayFor[p]])]_vars

\* RAZORPAY.md "A pending term is never activated after any refund", and an order that
\* expired is never activated at all.
NoActivationAfterRefundOrExpiry ==
  [][\A k \in Keys : term[k].status \notin InForce /\ term'[k].status \in InForce =>
       /\ checkout[k].status \in OpenStatus
       /\ \A p \in Pays : PayFor[p] = k => ledger'[p].refunded = 0]_vars

\* While a term is in force every change of its status advances its version, so a version
\* read with a status identifies it.
VersionsAdvance ==
  [][\A t \in Terms :
       term[t].status \in {"PENDING"} \cup InForce /\ term'[t].status # term[t].status =>
         term'[t].version > term[t].version]_vars
-----------------------------------------------------------------------------
(* What documentation promises and the code does not keep *)

\* RAZORPAY.md "Subscriber/application suspension or archiving also prevents automatic
\* activation": no payment starts a term on an archived application.
ArchivingPreventsActivation ==
  [][\A k \in Keys :
       term[k].status \in {"none", "PENDING"} /\ term'[k].status = "ACTIVE" => appOpen]_vars
-----------------------------------------------------------------------------
(* Refinement: the purchases as the buyer sees them *)

Contract == INSTANCE CheckoutContract WITH
  Purchases <- Keys,
  stage <- [k \in Keys |-> IF Open(k) THEN "open" ELSE checkout[k].status],
  access <- {k \in Keys : term[k].status \in InForce}

ImplementsContract == Contract!Spec
-----------------------------------------------------------------------------
(* Liveness *)

\* The provider repeats its webhook until it is accepted, and a handler queued behind the
\* job's row locks gets its turn; the job runs every day; time passes.
Fairness ==
  /\ WF_vars(Tick)
  /\ WF_vars(SweepRead) /\ WF_vars(SweepCommit)
  /\ \A p \in Pays : SF_vars(SettlePayment(p, payment[p].refunded))

FairSpec == Spec /\ Fairness

\* A captured payment reaches the ledger, unless its order was settled by another payment.
CaptureIsRecorded ==
  \A p \in Pays :
    payment[p].captured ~> (ledger[p].recorded \/ checkout[PayFor[p]].payment \notin {NoPay, p})

\* A full refund of a recorded payment revokes the term it bought.
RefundRevokes ==
  \A p \in Pays :
    (payment[p].refunded = FullAmount /\ ledger[p].recorded)
      ~> term[PayFor[p]].status \notin {"PENDING"} \cup InForce

\* No checkout stays open for ever, nor does it keep its coupon for ever unpaid.
OpenCheckoutCloses ==
  \A k \in Keys : Open(k) ~> ~Open(k)
=============================================================================
