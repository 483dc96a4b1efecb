------------------------ MODULE AdapterSubscriptions ------------------------
(***************************************************************************)
(* The subscriptions the Control Centre keeps in an application, and the    *)
(* entitlement tokens made of them: apps/api/src/routes/control.ts with     *)
(* subscriptionService.ts, entitlementService.ts, routes/entitlements.ts    *)
(* and lib/jwt.ts.                                                          *)
(*                                                                         *)
(* No handler opens a transaction: each await on the database is a step,    *)
(* and a request that fails between two of them leaves the first done.      *)
(***************************************************************************)
EXTENDS Integers, FiniteSets

CONSTANTS
  Ids,        \* external ids of subscriptions
  TenantOf,   \* [Ids -> subscriber_external_id]
  StartsAt,   \* [Ids -> starts_at]
  Grants,     \* [Ids -> the plan's entitlement to the one feature]
  Workers,    \* requests served at once
  TTL,        \* ENTITLEMENT_TTL_HOURS
  MaxHour,    \* the clock stops here
  NoRow, NoToken

Hours == 0..MaxHour
Tenants == {TenantOf[i] : i \in Ids}

\* PlanEntitlement: `value` is limitValue, Null for none.
Null == -9
Unlimited == -1
Entitlements == [enabled : BOOLEAN, unlimited : BOOLEAN, value : Nat \cup {Null}]

RowStatuses == {"PENDING", "ACTIVE", "CANCELLED"}

ConstantsAssumption ==
  /\ Ids # {} /\ TTL \in Nat \ {0} /\ MaxHour \in Nat
  /\ StartsAt \in [Ids -> Nat] /\ Grants \in [Ids -> Entitlements]
  /\ NoRow \notin RowStatuses

VARIABLES
  hour,
  subscribers,  \* external ids of the subscriber rows
  subscription, \* [Ids -> status or NoRow]
  trail,        \* [Ids -> type of the last SubscriptionEvent, "none" for no event]
  serving,      \* [Workers -> request]
  disturbed,    \* ids on which two requests overlapped, or one failed half-way
  lastActive,   \* [Ids -> last hour at which it was active, or -1]
  token         \* the entitlement token an application holds last

vars == <<hour, subscribers, subscription, trail, serving, disturbed, lastActive, token>>

Steps == {"free", "find", "insert", "activate", "cancel", "record", "sign"}
Served == [step : Steps, kind : {"create", "activate", "cancel", "token"}, id : Ids,
           found : BOOLEAN, at : Hours]
Idle == [step |-> "free", kind |-> "token", id |-> CHOOSE i \in Ids : TRUE,
         found |-> FALSE, at |-> 0]
Free(w) == serving[w] = Idle
On(i) == {w \in Workers : ~Free(w) /\ serving[w].kind # "token" /\ serving[w].id = i}

\* Mutant: the event is left out once the subscription is active.
ActiveAtOnce(kind) == "free"

\* What follows the update of the status.
AfterUpdate(kind) == "record"

Go(w, step) ==
  serving' = [serving EXCEPT ![w] = IF step = "free" THEN Idle ELSE [@ EXCEPT !.step = step]]

-----------------------------------------------------------------------------
Init ==
  /\ hour = 0
  /\ subscribers = {}
  /\ subscription = [i \in Ids |-> NoRow]
  /\ trail = [i \in Ids |-> "none"]
  /\ serving = [w \in Workers |-> Idle]
  /\ disturbed = {}
  /\ lastActive = [i \in Ids |-> -1]
  /\ token = NoToken

Begin(w, kind, i, step) ==
  /\ Free(w)
  /\ serving' = [serving EXCEPT ![w] =
       [step |-> step, kind |-> kind, id |-> i, found |-> FALSE,
        at |-> IF kind = "token" THEN hour ELSE 0]]

\* A request of the Control Centre; it may send one again.
Request(w, kind, i) ==
  /\ Begin(w, kind, i, IF kind = "create" THEN "find" ELSE kind)
  /\ disturbed' = IF On(i) = {} THEN disturbed \ {i} ELSE disturbed \cup {i}
  /\ UNCHANGED <<hour, subscribers, subscription, trail, lastActive, token>>

\* A step of w for its id.
At(w, step) == serving[w].step = step

FindSubscriber(w) ==
  /\ At(w, "find")
  /\ serving' = [serving EXCEPT ![w].step = "insert",
                                ![w].found = TenantOf[serving[w].id] \in subscribers]
  /\ UNCHANGED <<hour, subscribers, subscription, trail, disturbed, lastActive, token>>

\* The subscriber, unless it was found: the key is unique, and the second of two inserts fails.
InsertSubscriber(w) ==
  /\ At(w, "insert") /\ ~serving[w].found
  /\ TenantOf[serving[w].id] \notin subscribers
  /\ subscribers' = subscribers \cup {TenantOf[serving[w].id]}
  /\ serving' = [serving EXCEPT ![w].found = TRUE]
  /\ UNCHANGED <<hour, subscription, trail, disturbed, lastActive, token>>

\* starts_at is now or past.
Due(i) == StartsAt[i] <= hour

\* createSubscription; external_id is unique.
CreateSubscription(w) ==
  LET i == serving[w].id IN
  /\ At(w, "insert") /\ serving[w].found /\ subscription[i] = NoRow
  /\ subscription' = [subscription EXCEPT ![i] = "PENDING"]
  /\ Go(w, IF Due(i) THEN "activate" ELSE "free")
  /\ UNCHANGED <<hour, subscribers, trail, disturbed, lastActive, token>>

\* activateSubscription asks nothing of the status before.
Activate(w) ==
  LET i == serving[w].id IN
  /\ At(w, "activate") /\ subscription[i] # NoRow
  /\ subscription' = [subscription EXCEPT ![i] = "ACTIVE"]
  /\ lastActive' = [lastActive EXCEPT ![i] = hour]
  /\ Go(w, AfterUpdate(serving[w].kind))
  /\ UNCHANGED <<hour, subscribers, trail, disturbed, token>>

Cancel(w) ==
  LET i == serving[w].id IN
  /\ At(w, "cancel") /\ subscription[i] # NoRow
  /\ subscription' = [subscription EXCEPT ![i] = "CANCELLED"]
  /\ Go(w, AfterUpdate(serving[w].kind))
  /\ UNCHANGED <<hour, subscribers, trail, disturbed, lastActive, token>>

\* recordSubscriptionEvent.
Record(w) ==
  /\ At(w, "record")
  /\ trail' = [trail EXCEPT ![serving[w].id] =
       IF serving[w].kind = "cancel" THEN "CANCELLED" ELSE "ACTIVE"]
  /\ Go(w, "free")
  /\ UNCHANGED <<hour, subscribers, subscription, disturbed, lastActive, token>>

\* Any step may fail, on a unique key, a missing row or the connection: 500, and what is done
\* is done.
Fail(w) ==
  /\ ~Free(w) /\ Go(w, "free")
  /\ disturbed' = IF serving[w].kind = "token" THEN disturbed
                  ELSE disturbed \cup {serving[w].id}
  /\ UNCHANGED <<hour, subscribers, subscription, trail, lastActive, token>>

-----------------------------------------------------------------------------
(* Entitlement tokens.                                                     *)

\* Mutant: the newest subscription, whatever its status.
OfAnyStatus(t) == {i \in Ids : TenantOf[i] = t /\ subscription[i] # NoRow}

\* The subscriptions a token may be made of; ends_at is not among the conditions.
OfTenant(t) == {i \in Ids : TenantOf[i] = t /\ subscription[i] = "ACTIVE"}

\* orderBy startsAt desc, take 1.
Newest(ids) == {i \in ids : \A j \in ids : StartsAt[j] <= StartsAt[i]}

\* Mutant: an entitlement without a value is unlimited.
LimitOrNone(e) == IF e.unlimited \/ e.value = Null THEN Unlimited ELSE e.value

\* limits[featureCode]: Null is no entry.
TokenLimit(e) == IF e.unlimited THEN Unlimited ELSE e.value

\* buildEntitlementForTenant: one query reads the subscription and its plan.
ReadEntitlement(w, t) ==
  /\ \E i \in Newest(OfTenant(t)) : Begin(w, "token", i, "sign")
  /\ UNCHANGED <<hour, subscribers, subscription, trail, disturbed, lastActive, token>>

\* signEntitlement, at the clock of the signature.
Sign(w) ==
  LET e == Grants[serving[w].id] IN
  /\ At(w, "sign")
  /\ token' = [id |-> serving[w].id, read |-> serving[w].at, signed |-> hour,
               feature |-> e.enabled, limit |-> TokenLimit(e)]
  /\ Go(w, "free")
  /\ UNCHANGED <<hour, subscribers, subscription, trail, disturbed, lastActive>>

\* verifyEntitlement: exp is the hour of the signature and the TTL.
Verified(k) == hour < k.signed + TTL

\* An application verifies the token it holds, and drops it once it is refused.
Drop ==
  /\ token # NoToken /\ ~Verified(token)
  /\ token' = NoToken
  /\ UNCHANGED <<hour, subscribers, subscription, trail, serving, disturbed, lastActive>>

Tick ==
  /\ hour < MaxHour /\ hour' = hour + 1
  /\ lastActive' = [i \in Ids |-> IF subscription[i] = "ACTIVE" THEN hour' ELSE lastActive[i]]
  /\ UNCHANGED <<subscribers, subscription, trail, serving, disturbed, token>>

Next ==
  \/ \E w \in Workers, i \in Ids, kind \in {"create", "activate", "cancel"} : Request(w, kind, i)
  \/ \E w \in Workers :
       \/ FindSubscriber(w) \/ InsertSubscriber(w) \/ CreateSubscription(w)
       \/ Activate(w) \/ Cancel(w) \/ Record(w) \/ Fail(w) \/ Sign(w)
       \/ \E t \in Tenants : ReadEntitlement(w, t)
  \/ Drop \/ Tick

Spec == Init /\ [][Next]_vars

-----------------------------------------------------------------------------
(* Properties.                                                             *)

\* Every variable has its type.
TypeOK ==
  /\ hour \in Hours /\ subscribers \subseteq Tenants
  /\ subscription \in [Ids -> RowStatuses \cup {NoRow}]
  /\ trail \in [Ids -> {"none", "ACTIVE", "CANCELLED"}]
  /\ serving \in [Workers -> Served] /\ disturbed \subseteq Ids
  /\ lastActive \in [Ids -> Hours \cup {-1}]

\* When no request is under way for a subscription, its last event tells its status, unless
\* two requests overlapped or one failed half-way: status and event are two writes
\* (control.ts:80-81, 103-104, 117-118).
TrailTellsTheStatus == \A i \in Ids : On(i) = {} /\ i \notin disturbed =>
  IF trail[i] = "none" THEN subscription[i] \in {NoRow, "PENDING"} ELSE subscription[i] = trail[i]

\* A token is good only less than the TTL, and the time its signature took, after its
\* subscription was active: a cancellation takes effect on tokens by then (lib/jwt.ts:50-57).
TokensLapse == token # NoToken /\ hour < token.signed + TTL =>
  hour - lastActive[token.id] < TTL + (token.signed - token.read)

\* A token grants no amount of a feature that consumeUsage would refuse to a fresh counter;
\* the reverse fails for a limited entitlement without a value, which consumeUsage does not
\* limit (usageService.ts:84) and a token does not grant (entitlementService.ts:53-57).
TokensGrantNoMore == token # NoToken => \A amount \in 1..3 :
  token.feature /\ (token.limit = Unlimited \/ (token.limit # Null /\ amount <= token.limit)) =>
    LET e == Grants[token.id] IN
    e.enabled /\ (e.unlimited \/ (e.value # Null /\ amount <= e.value))

AdapterHolds == TrailTellsTheStatus /\ TokensLapse /\ TokensGrantNoMore
=============================================================================
