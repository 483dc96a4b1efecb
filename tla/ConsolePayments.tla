-------------------------- MODULE ConsolePayments --------------------------
(***************************************************************************)
(* The payment panel of the subscriptions page (apps/web/src/pages/         *)
(* applications/RazorpayPanel.tsx) and services/razorpay.ts: one            *)
(* administrator, the orders of the server, the provider's checkout window. *)
(*                                                                         *)
(* A try goes through several promises: the order is made or found by its   *)
(* key, the checkout script is loaded, the window is open, the payment is   *)
(* verified.  What a page that was left has begun goes on, window included, *)
(* while the page entered again knows nothing of it.                        *)
(***************************************************************************)
EXTENDS Integers

CONSTANTS
  Orders,      \* request keys, each the key of one order at most
  MaxTries     \* bound on the tries

ConstantsAssumption == MaxTries \in Nat

Statuses == {"none", "creating", "ready", "paid", "review", "refunded", "expired"}

VARIABLES
  orders,       \* [Orders -> status at the server], "none" before it is made
  captured,     \* orders the provider has captured
  ordersListed, \* the orders of the query cache
  requestKey,
  forms,        \* keys drawn because a form was opened or edited
  busy,
  tries,        \* promises under way
  tried,
  script        \* the provider's script

vars == <<orders, captured, ordersListed, requestKey, forms, busy, tries, tried, script>>

\* A try, by number; `at` is what it awaits, `mine` while its panel is mounted.
Tries == [id : 1..MaxTries, order : Orders, mine : BOOLEAN,
          at : {"create", "script", "window", "verify", "reconcile"}]

Mine == {j \in tries : j.mine}

\* Mutant: after a failure another key is drawn.
AnotherKey(k) == CHOOSE o \in Orders : o # k

\* "the same request key is retained"
SameKey(k) == k

\* Mutant: the panel stays busy.
StillBusy(j) == busy

\* setBusy(false), of the panel that began the try.
NotBusy(j) == IF j.mine THEN FALSE ELSE busy

-----------------------------------------------------------------------------
Init ==
  /\ orders = [o \in Orders |-> "none"] /\ captured = {}
  /\ ordersListed = orders
  /\ requestKey \in Orders /\ forms = {requestKey}
  /\ busy = FALSE /\ tries = {} /\ tried = 0 /\ script = "absent"

Draw(o) ==
  /\ o \notin forms
  /\ requestKey' = o /\ forms' = forms \cup {o}

\* update: the fields are disabled while busy.
Edit(o) ==
  /\ ~busy /\ Draw(o)
  /\ UNCHANGED <<orders, captured, ordersListed, busy, tries, tried, script>>

\* The page is left and entered again.
Remount(o) ==
  /\ Draw(o)
  /\ busy' = FALSE
  /\ tries' = {[j EXCEPT !.mine = FALSE] : j \in tries}
  /\ UNCHANGED <<orders, captured, ordersListed, tried, script>>

\* listRazorpay, whenever the query is invalidated or stale.
List ==
  /\ ordersListed' = orders
  /\ UNCHANGED <<orders, captured, requestKey, forms, busy, tries, tried, script>>

Begin(o, at) ==
  /\ ~busy /\ busy' = TRUE
  /\ tried < MaxTries /\ tried' = tried + 1
  /\ tries' = tries \cup {[id |-> tried', order |-> o, mine |-> TRUE, at |-> at]}

\* pay
Pay ==
  /\ Begin(requestKey, "create")
  /\ UNCHANGED <<orders, captured, ordersListed, requestKey, forms, script>>

\* open, of an order listed as ready.
Resume(o) ==
  /\ ordersListed[o] = "ready" /\ Begin(o, "script")
  /\ UNCHANGED <<orders, captured, ordersListed, requestKey, forms, script>>

\* reconcile
Reconcile(o) ==
  /\ ordersListed[o] # "none" /\ Begin(o, "reconcile")
  /\ UNCHANGED <<orders, captured, ordersListed, requestKey, forms, script>>

Go(j, at) == tries' = (tries \ {j}) \cup {[j EXCEPT !.at = at]} /\ UNCHANGED busy
End(j) == tries' = tries \ {j} /\ busy' = NotBusy(j)

\* createRazorpayOrder: the order of that key, made if there is none; an order whose creation
\* failed at the provider stays "creating".  A ready one is opened, any other reported.
Created(j) ==
  /\ j.at = "create"
  /\ \E s \in (IF orders[j.order] \in {"none", "creating"} THEN {"creating", "ready"}
               ELSE {orders[j.order]}) :
       /\ orders' = [orders EXCEPT ![j.order] = s]
       /\ IF s = "ready" THEN Go(j, "script") ELSE End(j)
  /\ UNCHANGED <<captured, ordersListed, requestKey, forms, tried, script>>

\* An error, with or without the order made.
NotCreated(j) ==
  /\ j.at = "create" /\ End(j)
  /\ IF orders[j.order] = "none"
     THEN orders' \in {orders} \cup {[orders EXCEPT ![j.order] = s] : s \in {"creating", "ready"}}
     ELSE UNCHANGED orders
  /\ requestKey' = IF j.mine THEN SameKey(requestKey) ELSE requestKey
  /\ UNCHANGED <<captured, ordersListed, forms, tried, script>>

\* loadCheckout: all wait for one script, and a failure lets the next try load it again.
LoadCheckout(j) ==
  /\ j.at = "script" /\ script = "absent"
  /\ script' = "loading"
  /\ UNCHANGED <<orders, captured, ordersListed, requestKey, forms, busy, tries, tried>>

ScriptFails ==
  /\ script = "loading" /\ script' = "absent"
  /\ tries' = {j \in tries : j.at # "script"}
  /\ busy' = IF \E j \in Mine : j.at = "script" THEN FALSE ELSE busy
  /\ UNCHANGED <<orders, captured, ordersListed, requestKey, forms, tried>>

ScriptLoads ==
  /\ script = "loading" /\ script' = "loaded"
  /\ UNCHANGED <<orders, captured, ordersListed, requestKey, forms, busy, tries, tried>>

OpenWindow(j) ==
  /\ j.at = "script" /\ script = "loaded"
  /\ Go(j, "window")
  /\ UNCHANGED <<orders, captured, ordersListed, requestKey, forms, tried, script>>

\* ondismiss
Dismiss(j) ==
  /\ j.at = "window" /\ End(j)
  /\ UNCHANGED <<orders, captured, ordersListed, requestKey, forms, tried, script>>

\* The customer pays in the window: the provider captures an order once.
Capture(j) ==
  /\ j.at = "window" /\ j.order \notin captured
  /\ captured' = captured \cup {j.order}
  /\ Go(j, "verify")
  /\ UNCHANGED <<orders, ordersListed, requestKey, forms, tried, script>>

\* settle_payment: what is found captured is recorded, for review if it is too late or the
\* term has changed.
Settle(o) ==
  /\ o \in captured /\ orders[o] \in {"ready", "expired"}
  /\ \E s \in {"paid", "review"} :
       /\ s = "paid" => orders[o] = "ready"
       /\ orders' = [orders EXCEPT ![o] = s]

\* handler and reconcile: verifyRazorpay or reconcileRazorpay answers, or fails.
Verified(j) ==
  /\ j.at \in {"verify", "reconcile"} /\ End(j)
  /\ Settle(j.order) \/ UNCHANGED orders
  /\ UNCHANGED <<captured, ordersListed, requestKey, forms, tried, script>>

\* The provider's webhook, a refund, and the sweep of orders nobody paid for a day.
Webhook(o) ==
  /\ \/ Settle(o)
     \/ orders[o] = "paid" /\ orders' = [orders EXCEPT ![o] = "refunded"]
     \/ orders[o] \in {"creating", "ready"} /\ orders' = [orders EXCEPT ![o] = "expired"]
  /\ UNCHANGED <<captured, ordersListed, requestKey, forms, busy, tries, tried, script>>

Next ==
  \/ \E o \in Orders : Edit(o) \/ Remount(o) \/ Resume(o) \/ Reconcile(o) \/ Webhook(o)
  \/ List \/ Pay \/ ScriptFails \/ ScriptLoads
  \/ \E j \in tries : Created(j) \/ NotCreated(j) \/ LoadCheckout(j) \/ OpenWindow(j)
                      \/ Dismiss(j) \/ Capture(j) \/ Verified(j)

Spec == Init /\ [][Next]_vars

-----------------------------------------------------------------------------
(* Properties.                                                             *)

\* Every variable has its type.
TypeOK ==
  /\ {orders, ordersListed} \subseteq [Orders -> Statuses]
  /\ captured \subseteq Orders /\ forms \subseteq Orders
  /\ requestKey \in Orders /\ busy \in BOOLEAN
  /\ tries \subseteq Tries /\ tried \in 0..MaxTries
  /\ script \in {"absent", "loading", "loaded"}

\* The panel is busy exactly as long as one try of its own is under way: never two of them,
\* and never left busy when a promise fails (RazorpayPanel.tsx:27-63).
BusyWhileTrying ==
  /\ busy = (Mine # {})
  /\ \A i, j \in Mine : i = j

\* However often a form is tried, it makes one order: "the same request key is retained"
\* (RazorpayPanel.tsx:54), and an order is opened only once it is there to be paid.
OneOrderPerForm ==
  /\ {o \in Orders : orders[o] # "none"} \subseteq forms
  /\ \A j \in tries : j.at \in {"script", "window", "verify"} =>
       orders[j.order] \notin {"none", "creating"}

PaymentsPanelHolds == BusyWhileTrying /\ OneOrderPerForm
=============================================================================
