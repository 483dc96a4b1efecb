------------------------------ MODULE MCUsage ------------------------------
(***************************************************************************)
(* Two subscriptions, one metered and one unlimited grant, two periods.    *)
(***************************************************************************)
EXTENDS Usage

MCStartsAt == [s \in Subs |-> 0]
MCEndsAt == [s \in Subs |-> IF s = "s1" THEN 2 ELSE 9]

\* Periods of two instants.
MCWindow == [t \in Times |-> t - (t % 2)]

MCSnapshot ==
  [s \in Subs |-> [f \in Features |->
     IF f = "scans"
     THEN [kind |-> "limited", limit |-> 2, reset |-> IF s = "s1" THEN "total" ELSE "calendar"]
     ELSE [kind |-> IF s = "s1" THEN "disabled" ELSE "unlimited", limit |-> 0,
           reset |-> "total"]]]
=============================================================================
