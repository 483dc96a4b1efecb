----------------------------- MODULE MCClients -----------------------------
(* Model values for Clients.                                               *)
EXTENDS Clients

\* Two subscriptions of one tenant, the second to start an hour later; the first one's plan
\* limits the feature without a number.
OneTenant == [i \in Ids |-> "t"]
StartOfEach == [i \in Ids |-> IF i = "i1" THEN 0 ELSE 1]
GrantOfEach ==
  [i \in Ids |-> [enabled |-> TRUE, unlimited |-> FALSE, value |-> IF i = "i1" THEN -9 ELSE 2]]

\* Where a side waits, in one of its initial states.
Waits(s, place) == side # s => place

OneWaitingPlace ==
  /\ Waits("navigation", granted = {} /\ url = None)
  /\ Waits("plans", features = {})
  /\ Waits("users", key = [q |-> "s1", filter |-> "f1", page |-> 0])
  /\ Waits("payments", requestKey = "o1")
  /\ Waits("partners", partner = [p \in Partners |-> "none"])
  /\ Waits("storefront", offer = [p \in Plans |-> "none"])

MCInit ==
  /\ side \in Sides /\ OneWaitingPlace
  /\ ClientsInit
  /\ Waits("settings", application.name = CHOOSE n \in Names : TRUE)

MCSpec == MCInit /\ [][ClientsNext]_clientsVars
=============================================================================
