-------------------------- MODULE SdkEntitlements --------------------------
(***************************************************************************)
(* The entitlements an application's server keeps through the SDK:          *)
(* EntitlementManager of packages/sdk/src/entitlements/index.ts, with its   *)
(* own InMemoryCache, against an issuer of tokens and a sender of webhooks. *)
(*                                                                         *)
(* The process has one thread; what interleaves are the answers it awaits. *)
(* A token is what the issuer held when it answered: each change of the     *)
(* subscription of a tenant has an edition, and an event that announces it. *)
(***************************************************************************)
EXTENDS Integers, FiniteSets

CONSTANTS
  Tenants,
  TTL, Grace, \* life of a token, and gracePeriodMs
  Window,     \* replayWindowMs
  Skew,       \* how far an event's timestamp may be ahead of the clock
  MaxEdition, MaxClock, MaxFetches, \* bounds
  Nothing

Clock == 0..MaxClock
Editions == 0..MaxEdition
Statuses == {"ACTIVE", "CANCELLED"}

\* EntitlementPayload
Payloads == [tenant : Tenants, edition : Editions, status : Statuses, exp : 0..(MaxClock + TTL)]

ConstantsAssumption ==
  /\ TTL \in Nat \ {0} /\ {Grace, Window, Skew, MaxEdition, MaxClock} \subseteq Nat
  /\ Nothing \notin Payloads

\* A webhook event; its id is its tenant and edition.
Events == [tenant : Tenants, edition : Editions \ {0}, timestamp : 0..(MaxClock + Skew)]

VARIABLES
  clock,
  issuer,    \* [Tenants -> [edition, status]]
  events,    \* events sent, each delivered any number of times
  cache,     \* [Tenants -> payload or Nothing]
  fetches,   \* fetchEntitlement calls under way; equal ones, unanswered, are one
  tokens,    \* the tokens issued: a caller may send one in a header
  processed, \* [event -> when it was processed], processedEvents
  effects,   \* <<event, clock>>: when it had effect since the process started
  told,      \* [Tenants -> edition of the newest event processed since the start]
  late,      \* tenants whose cache was filled by an answer from before that event
  admitted   \* how long its payload had expired when a request was last let through on the cache

vars == <<clock, issuer, events, cache, fetches, tokens, processed, effects, told, late, admitted>>

\* Mutant: the entry is kept for ever.
Endless(p) == TRUE

\* getEntitlement: a payload serves for its grace period after it has expired.
Serves(p) == clock < p.exp + Grace

Expired(p) == clock >= p.exp

\* Mutant: an event is forgotten at the end of the window, when it may still come.
ForgottenEarly(when) == clock - when >= Window

Forgotten(when) == clock - when > Window

\* Mutant: the webhook fetches, and leaves what it has until the answer is there.
Kept(t) == cache[t]

\* cache.delete
Deleted(t) == Nothing

Fetch(t) ==
  /\ Cardinality(fetches) < MaxFetches
  /\ fetches' = fetches \cup {[tenant |-> t, answer |-> Nothing]}

-----------------------------------------------------------------------------
Init ==
  /\ clock = 0
  /\ issuer = [t \in Tenants |-> [edition |-> 0, status |-> "ACTIVE"]]
  /\ events = {} /\ fetches = {} /\ tokens = {}
  /\ cache = [t \in Tenants |-> Nothing]
  /\ processed = << >> /\ effects = {}
  /\ told = [t \in Tenants |-> 0]
  /\ late = {}
  /\ admitted = -TTL

\* The subscription changes, and the sender queues the event; its clock may be ahead.
Change(t) ==
  /\ issuer[t].edition < MaxEdition
  /\ \E s \in Statuses, ahead \in 0..Skew :
       LET e == issuer[t].edition + 1 IN
       /\ issuer' = [issuer EXCEPT ![t] = [edition |-> e, status |-> s]]
       /\ events' = events \cup {[tenant |-> t, edition |-> e, timestamp |-> clock + ahead]}
  /\ UNCHANGED <<clock, cache, fetches, tokens, processed, effects, told, late, admitted>>

\* authorize: a request is let through on p.
Admits(p) == p.status = "ACTIVE"

\* A guarded request: authorize, or enforceLicenseState, which only looks.  What the cache
\* has serves; past its expiry a fetch goes out as well, past the grace it is deleted.
Authorize(t) ==
  LET p == cache[t] IN
  /\ IF p # Nothing /\ Serves(p)
     THEN /\ admitted' = IF Admits(p) THEN clock - p.exp ELSE admitted
          /\ UNCHANGED cache
          /\ IF Expired(p) THEN Fetch(t) ELSE UNCHANGED fetches
     ELSE cache' = [cache EXCEPT ![t] = Nothing] /\ Fetch(t) /\ UNCHANGED admitted
  /\ UNCHANGED <<clock, issuer, events, tokens, processed, effects, told, late>>

EnforceLicense(t) ==
  LET p == cache[t] IN
  /\ p # Nothing /\ Expired(p)
  /\ IF Serves(p) THEN Fetch(t) /\ UNCHANGED cache
     ELSE cache' = [cache EXCEPT ![t] = Nothing] /\ UNCHANGED fetches
  /\ UNCHANGED <<clock, issuer, events, tokens, processed, effects, told, late, admitted>>

\* The issuer answers with what it holds.
Issue(f) ==
  LET p == [tenant |-> f.tenant, edition |-> issuer[f.tenant].edition,
            status |-> issuer[f.tenant].status, exp |-> clock + TTL] IN
  /\ f.answer = Nothing
  /\ fetches' = (fetches \ {f}) \cup {[f EXCEPT !.answer = p]}
  /\ tokens' = tokens \cup {p}
  /\ UNCHANGED <<clock, issuer, events, cache, processed, effects, told, late, admitted>>

\* cacheEntitlement
Cached(p) ==
  /\ cache' = [cache EXCEPT ![p.tenant] = p]
  /\ late' = IF p.edition < told[p.tenant] THEN late \cup {p.tenant} ELSE late \ {p.tenant}

\* The request brings a token itself.  verifyToken does not ask whether it has expired.
Present(p) ==
  /\ cache[p.tenant] # Nothing => ~Serves(cache[p.tenant])
  /\ Cached(p)
  /\ UNCHANGED <<clock, issuer, events, fetches, tokens, processed, effects, told, admitted>>

\* The answer arrives: it is cached, and a request that waited is judged by it.
Arrive(f) ==
  /\ f.answer # Nothing
  /\ Cached(f.answer)
  /\ fetches' = fetches \ {f}
  /\ UNCHANGED <<clock, issuer, events, tokens, processed, effects, told, admitted>>

\* No answer, or one that verifyToken refuses: nothing is cached.
Lose(f) ==
  /\ fetches' = fetches \ {f}
  /\ UNCHANGED <<clock, issuer, events, cache, tokens, processed, effects, told, late, admitted>>

\* A delivery within the window of the clock, either way.
Timely(e) == clock - e.timestamp \in -Window..Window

Remembered == {e \in DOMAIN processed : ~Forgotten(processed[e])}

\* webhookReceiver: forgotten ids go first, a remembered one is a duplicate.
Receive(e) ==
  LET t == e.tenant IN
  /\ Timely(e)
  /\ IF e \in Remembered
     THEN /\ processed' = [x \in Remembered |-> processed[x]]
          /\ UNCHANGED <<cache, fetches, effects, told, late>>
     ELSE /\ processed' = [x \in Remembered \cup {e} |-> IF x = e THEN clock ELSE processed[x]]
          /\ effects' = effects \cup {<<e, clock>>}
          /\ cache' = [cache EXCEPT ![t] = Deleted(t)]
          /\ told' = [told EXCEPT ![t] = IF e.edition > @ THEN e.edition ELSE @]
          /\ late' = late \ {t}
          /\ Fetch(t)
  /\ UNCHANGED <<clock, issuer, events, tokens, admitted>>

\* The process starts again: nothing of this is kept.
Restart ==
  /\ cache' = [t \in Tenants |-> Nothing] /\ fetches' = {}
  /\ processed' = << >> /\ effects' = {}
  /\ told' = [t \in Tenants |-> 0] /\ late' = {} /\ admitted' = -TTL
  /\ UNCHANGED <<clock, issuer, events, tokens>>

Tick ==
  /\ clock < MaxClock /\ clock' = clock + 1
  /\ UNCHANGED <<issuer, events, cache, fetches, tokens, processed, effects, told, late, admitted>>

Next ==
  \/ \E t \in Tenants : Change(t) \/ Authorize(t) \/ EnforceLicense(t)
  \/ \E f \in fetches : Issue(f) \/ Arrive(f) \/ Lose(f)
  \/ \E p \in tokens : Present(p)
  \/ \E e \in events : Receive(e)
  \/ Restart \/ Tick

Spec == Init /\ [][Next]_vars

-----------------------------------------------------------------------------
(* Properties.                                                             *)

\* Every variable has its type.
TypeOK ==
  /\ clock \in Clock
  /\ issuer \in [Tenants -> [edition : Editions, status : Statuses]]
  /\ events \subseteq Events
  /\ cache \in [Tenants -> Payloads \cup {Nothing}]
  /\ fetches \subseteq [tenant : Tenants, answer : Payloads \cup {Nothing}]
  /\ tokens \subseteq Payloads
  /\ DOMAIN processed \subseteq events /\ effects \subseteq events \X Clock
  /\ told \in [Tenants -> Editions] /\ late \subseteq Tenants
  /\ admitted \in -TTL..MaxClock

\* Once an event is processed, what is cached is as new as the event, except where the answer
\* to a fetch, or a token of a request, of before came after it (entitlements/index.ts:60, :101
\* and :126).
FreshOnceTold == \A t \in Tenants \ late :
  cache[t] # Nothing => cache[t].edition >= told[t]

\* Within a life of the process an event has effect a second time only if its timestamp was
\* ahead of the clock, so that it outlives the memory of it (entitlements/index.ts:121-123).
EffectOnce == \A x, y \in effects : x[1] = y[1] /\ x[2] < y[2] => x[1].timestamp > x[2]

\* A request is let through on a cached payload only within its life and grace
\* (entitlements/index.ts:49-51).
AdmittedInGrace == admitted < Grace

SdkHolds == FreshOnceTold /\ EffectOnce /\ AdmittedInGrace
=============================================================================
