--------------------------- MODULE CheckoutContract ---------------------------
(***************************************************************************)
(* What a checkout promises to buyer and merchant, with nothing of how     *)
(* locks, versions, retries or the expiry job bring it about: where each   *)
(* purchase stands, and which purchases give access right now.             *)
(*                                                                         *)
(* A purchase is opened once.  Money ends the open stage, or comes after   *)
(* the order expired.  Access begins in one step only, together with the   *)
(* money of an open order, ends at any time, and never comes back once the *)
(* purchase is refunded or was put aside for review.                       *)
(***************************************************************************)
CONSTANT Purchases

VARIABLES
  stage,   \* where each purchase stands
  access   \* the purchases whose term is in force

Stages == {"none", "open", "expired", "paid", "review", "refunded"}

Init ==
  /\ stage = [k \in Purchases |-> "none"]
  /\ access = {}

Move(k, from, to) ==
  /\ stage[k] \in from
  /\ stage' = [stage EXCEPT ![k] = to]

Grant(k)  == /\ Move(k, {"open"}, "paid") /\ k \notin access /\ access' = access \cup {k}
Review(k) == Move(k, {"open", "expired", "paid"}, "review") /\ UNCHANGED access
Refund(k) ==
  /\ Move(k, {"open", "expired", "paid", "review"}, "refunded")
  /\ access' = access \ {k}

\* A buyer's stale orders expire as a set, and one new order may open with them.
OpenAndExpire ==
  /\ \E S \in SUBSET Purchases, N \in SUBSET Purchases :
       /\ S \cup N # {}
       /\ \A k \in S : stage[k] = "open"
       /\ \A k \in N : stage[k] = "none"
       /\ stage' = [k \in Purchases |-> IF k \in S THEN "expired"
                                        ELSE IF k \in N THEN "open" ELSE stage[k]]
  /\ UNCHANGED access

\* Terms run out, are replaced, suspended for good or cancelled.
Lose ==
  /\ access' \subseteq access
  /\ access' # access
  /\ UNCHANGED stage

\* A purchase that replaces another purchase's term ends that one's access.
GrantInPlaceOf(k, old) ==
  /\ Move(k, {"open"}, "paid")
  /\ k \notin access
  /\ access' = (access \ {old}) \cup {k}

Next ==
  \/ \E k \in Purchases :
       \/ Grant(k) \/ Review(k) \/ Refund(k)
       \/ \E old \in Purchases : GrantInPlaceOf(k, old)
  \/ OpenAndExpire
  \/ Lose

Spec == Init /\ [][Next]_<<stage, access>>
=============================================================================
