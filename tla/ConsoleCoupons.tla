--------------------------- MODULE ConsoleCoupons ---------------------------
(***************************************************************************)
(* The coupon page of the console (apps/web/src/pages/applications/         *)
(* Coupons.tsx) against one coupon of the server (control_api/app/domains/  *)
(* coupons/service.py) that other owners edit and customers redeem.         *)
(*                                                                         *)
(* What the page sends is computed from the row as it was listed: whether   *)
(* the discount is sent at all from its redemption_count, the status asked  *)
(* for from its status.  A checkout that ends unpaid gives its use back.    *)
(***************************************************************************)
EXTENDS Integers, FiniteSets

CONSTANTS
  Discounts,   \* values of the discount and of the partner's commission
  Orders,      \* subscriptions the coupon may be redeemed for
  MaxRevision, \* bound on the writes
  NoCoupon, NoForm, NoRequest, NotSent

Uses == 0..Cardinality(Orders)

\* Coupon; "deleted" stands for the row that is gone.
Rows == [discount_value : Discounts, status : {"active", "disabled", "deleted"},
         redemption_count : Uses, maximum_redemptions : Uses \ {0}, version : 1..MaxRevision]

\* CreateCouponPayload and UpdateCouponPayload, a field left out is NotSent.
Creates == [discount_value : Discounts, maximum_redemptions : Uses \ {0}]
Updates == [expected_version : 1..MaxRevision, discount_value : Discounts \cup {NotSent},
            maximum_redemptions : (Uses \ {0}) \cup {NotSent},
            status : {"active", "disabled", NotSent}]

\* `editing` (NoCoupon for a new one) and the fields.
Forms == [editing : Rows \cup {NoCoupon}, discount_value : Discounts,
          maximum_redemptions : Uses \ {0}]

ConstantsAssumption ==
  /\ IsFiniteSet(Orders) /\ MaxRevision \in Nat \ {0}
  /\ NoCoupon \notin Rows /\ NoForm \notin Forms /\ NoRequest \notin Creates \cup Updates
  /\ NotSent \notin Discounts

VARIABLES
  coupon,       \* the row, NoCoupon before it is created
  redeemed,     \* [Orders -> the discount it was granted, NotSent for none]
  couponListed, \* the row in the query cache
  couponForm,   \* NoForm when closed
  couponSave    \* what `save` sends, NoRequest when nothing is pending

vars == <<coupon, redeemed, couponListed, couponForm, couponSave>>

InForce == {o \in Orders : redeemed[o] # NotSent}
Alive(row) == row # NoCoupon /\ row.status # "deleted"

-----------------------------------------------------------------------------
(* The server.                                                             *)

Changed(old, sent) == IF sent = NotSent THEN old ELSE sent

\* Mutant: the discount can be changed at any time.
NeverFixed(row) == FALSE

\* Discount and commission are fixed after the first use.
Fixed(row) == row.redemption_count > 0

\* Mutant: a use does not count as a change.
SameRevision(n) == n

\* coupon.version += 1, by a redemption and by a release too.
NextRevision(n) == n + 1

\* update_coupon accepts the request.
Accepted(u) ==
  /\ Alive(coupon) /\ coupon.version = u.expected_version
  /\ u.discount_value # NotSent => ~Fixed(coupon)
  /\ Changed(coupon.maximum_redemptions, u.maximum_redemptions) >= coupon.redemption_count

Updated(u) ==
  /\ coupon.version < MaxRevision
  /\ coupon' = [coupon EXCEPT !.discount_value = Changed(@, u.discount_value),
                              !.maximum_redemptions = Changed(@, u.maximum_redemptions),
                              !.status = Changed(@, u.status), !.version = @ + 1]

\* Mutant: uses are not looked for.
Unchecked(row) == TRUE

\* delete_coupon: neither a redemption nor a use counted.
Unused(row) == InForce = {} /\ row.redemption_count = 0

Removed == Alive(coupon) /\ Unused(coupon) /\ coupon' = [coupon EXCEPT !.status = "deleted"]

-----------------------------------------------------------------------------
Init ==
  /\ coupon = NoCoupon /\ redeemed = [o \in Orders |-> NotSent]
  /\ couponListed = NoCoupon /\ couponForm = NoForm /\ couponSave = NoRequest

\* Another owner, from the row as it is.
Elsewhere ==
  /\ \/ Removed
     \/ \E u \in Updates : Accepted(u) /\ Updated(u)
  /\ UNCHANGED <<redeemed, couponListed, couponForm, couponSave>>

\* A customer applies the coupon at checkout.
Redeem(o) ==
  /\ Alive(coupon) /\ coupon.status = "active" /\ redeemed[o] = NotSent
  /\ coupon.redemption_count < coupon.maximum_redemptions /\ coupon.version < MaxRevision
  /\ coupon' = [coupon EXCEPT !.redemption_count = @ + 1, !.version = NextRevision(@)]
  /\ redeemed' = [redeemed EXCEPT ![o] = coupon.discount_value]
  /\ UNCHANGED <<couponListed, couponForm, couponSave>>

\* The checkout ends unpaid.
Release(o) ==
  /\ redeemed[o] # NotSent /\ coupon.version < MaxRevision
  /\ redeemed' = [redeemed EXCEPT ![o] = NotSent]
  /\ coupon' = IF coupon.redemption_count = 0 THEN coupon
               ELSE [coupon EXCEPT !.redemption_count = @ - 1, !.version = NextRevision(@)]
  /\ UNCHANGED <<couponListed, couponForm, couponSave>>

-----------------------------------------------------------------------------
(* The page.                                                               *)

List ==
  /\ couponListed' = IF Alive(coupon) THEN coupon ELSE NoCoupon
  /\ UNCHANGED <<coupon, redeemed, couponForm, couponSave>>

NewCoupon ==
  /\ couponForm = NoForm
  /\ \E d \in Discounts, n \in Uses \ {0} :
       couponForm' = [editing |-> NoCoupon, discount_value |-> d, maximum_redemptions |-> n]
  /\ UNCHANGED <<coupon, redeemed, couponListed, couponSave>>

StartEdit ==
  /\ couponForm = NoForm /\ couponListed # NoCoupon
  /\ couponForm' = [editing |-> couponListed, discount_value |-> couponListed.discount_value,
                    maximum_redemptions |-> couponListed.maximum_redemptions]
  /\ UNCHANGED <<coupon, redeemed, couponListed, couponSave>>

\* `locked`: the fields of a used coupon are disabled.
Locked(form) == form.editing # NoCoupon /\ form.editing.redemption_count > 0

\* The fields; the maximum is not below the uses the page knows of.
Fill ==
  /\ couponForm # NoForm
  /\ \E d \in Discounts, n \in Uses \ {0} :
       /\ Locked(couponForm) => d = couponForm.discount_value
       /\ couponForm.editing # NoCoupon => n >= couponForm.editing.redemption_count
       /\ couponForm' = [couponForm EXCEPT !.discount_value = d, !.maximum_redemptions = n]
  /\ UNCHANGED <<coupon, redeemed, couponListed, couponSave>>

Close ==
  /\ couponForm # NoForm /\ couponForm' = NoForm
  /\ UNCHANGED <<coupon, redeemed, couponListed, couponSave>>

\* What `save` sends for the form.
Payload(form) ==
  IF form.editing = NoCoupon
  THEN [discount_value |-> form.discount_value, maximum_redemptions |-> form.maximum_redemptions]
  ELSE [expected_version |-> form.editing.version, status |-> NotSent,
        discount_value |->
          IF form.editing.redemption_count = 0 THEN form.discount_value ELSE NotSent,
        maximum_redemptions |-> form.maximum_redemptions]

\* The button is disabled while a save is pending.
Submit ==
  /\ couponForm # NoForm /\ couponSave = NoRequest
  /\ couponSave' = Payload(couponForm)
  /\ UNCHANGED <<coupon, redeemed, couponListed, couponForm>>

\* onSuccess closes the form that is open now; after an error it stays open.
Ended(succeeded) ==
  /\ couponSave' = NoRequest
  /\ couponForm' = IF succeeded THEN NoForm ELSE couponForm

\* createCoupon: the code is unique.  A coupon made again once its code is free is not followed.
Create ==
  /\ couponSave \in Creates
  /\ IF coupon = NoCoupon
     THEN /\ coupon' = [discount_value |-> couponSave.discount_value, status |-> "active",
                        redemption_count |-> 0, version |-> 1,
                        maximum_redemptions |-> couponSave.maximum_redemptions]
          /\ \E answered \in BOOLEAN : Ended(answered)
     ELSE UNCHANGED coupon /\ \E made \in BOOLEAN : Ended(made) /\ (made => ~Alive(coupon))
  /\ UNCHANGED <<redeemed, couponListed>>

\* updateCoupon; the answer may be lost.
Update ==
  /\ couponSave \in Updates
  /\ IF Accepted(couponSave)
     THEN Updated(couponSave) /\ \E answered \in BOOLEAN : Ended(answered)
     ELSE UNCHANGED coupon /\ Ended(FALSE)
  /\ UNCHANGED <<redeemed, couponListed>>

\* Disable or enable, from the row as listed.
Toggle ==
  LET u == [expected_version |-> couponListed.version, discount_value |-> NotSent,
            maximum_redemptions |-> NotSent,
            status |-> IF couponListed.status = "disabled" THEN "active" ELSE "disabled"] IN
  /\ couponListed # NoCoupon /\ Accepted(u) /\ Updated(u)
  /\ UNCHANGED <<redeemed, couponListed, couponForm, couponSave>>

\* deleteCoupon carries no version.
Delete ==
  /\ couponListed # NoCoupon /\ Removed
  /\ UNCHANGED <<redeemed, couponListed, couponForm, couponSave>>

Next ==
  \/ Elsewhere \/ \E o \in Orders : Redeem(o) \/ Release(o)
  \/ List \/ NewCoupon \/ StartEdit \/ Fill \/ Close
  \/ Submit \/ Create \/ Update \/ Toggle \/ Delete

Spec == Init /\ [][Next]_vars

-----------------------------------------------------------------------------
(* Properties.                                                             *)

\* Every variable has its type.
TypeOK ==
  /\ {coupon, couponListed} \subseteq Rows \cup {NoCoupon}
  /\ redeemed \in [Orders -> Discounts \cup {NotSent}]
  /\ couponForm \in Forms \cup {NoForm}
  /\ couponSave \in Creates \cup Updates \cup {NoRequest}

\* Every redemption in force was granted at the discount the coupon shows, and is counted
\* ("fixed after the first use", coupons/service.py:246; the page decides by its own snapshot,
\* Coupons.tsx:44).
GrantedAsShown == Alive(coupon) =>
  /\ \A o \in InForce : redeemed[o] = coupon.discount_value
  /\ coupon.redemption_count = Cardinality(InForce)
  /\ coupon.redemption_count <= coupon.maximum_redemptions

\* A version says what the row was, uses included: as long as it matches, the page's lock on
\* the discount and its minimum for the uses are those of the row.
RevisionsIdentify == Alive(coupon) =>
  /\ couponListed # NoCoupon /\ couponListed.version = coupon.version => couponListed = coupon
  /\ couponForm # NoForm /\ couponForm.editing # NoCoupon
       /\ couponForm.editing.version = coupon.version => couponForm.editing = coupon

\* A coupon that grants somebody a discount is never deleted.
UsedCouponsStay == InForce # {} => Alive(coupon)

CouponsHold == GrantedAsShown /\ RevisionsIdentify /\ UsedCouponsStay
=============================================================================
