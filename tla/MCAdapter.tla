----------------------------- MODULE MCAdapter -----------------------------
(* Model values for AppLedgers: one plan with a feature limited to two, and *)
(* a coupon for it.                                                         *)
EXTENDS AppLedgers

ScansAreLimited ==
  [p \in Plans |-> [f \in Features |-> [enabled |-> TRUE, limited |-> TRUE, limit |-> 2]]]
=============================================================================
