------------------------------ MODULE MCBilling ------------------------------
(***************************************************************************)
(* Small instances of Billing for TLC.                                     *)
(***************************************************************************)
EXTENDS BillingProperties

\* One subscriber: every term and checkout competes for the same access.
OneOwner == [t \in Terms |-> "s1"]

\* Two subscribers: checkouts k1 and g1 belong to the first, the rest to the second.
TwoOwners == [t \in Terms |-> IF t \in {"k1", "g1"} THEN "s1" ELSE "s2"]

\* Payments p1 and p3 are made on the order of k1, p2 on that of k2.
PayOrders == [p \in Pays |-> IF p = "p2" THEN "k2" ELSE "k1"]
=============================================================================
