------------------------------ MODULE MCOffice ------------------------------
(* Model values for Office.                                                *)
EXTENDS Office

OneNotice == {CHOOSE n \in Notices : TRUE}

\* One partner earns, in both currencies; the other may only reuse a reference.
EarningPartner == [r \in Redemptions |-> CHOOSE a \in Affiliates : TRUE]
CurrencyOfEach == [r \in Redemptions |-> IF r = "r1" THEN "INR" ELSE "USD"]
OneCorrection == {-1}

\* Two subscribers who ordered the same plan with two coupons, and let both orders lapse.
OwnerOfEach == [k \in Checkouts |-> IF k = "k1" THEN "s1" ELSE "s2"]
CouponOfEach == [k \in Checkouts |-> IF k = "k1" THEN "g1" ELSE "g2"]
=============================================================================
