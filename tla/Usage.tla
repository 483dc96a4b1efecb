------------------------------- MODULE Usage -------------------------------
(***************************************************************************)
(* Metered usage of one application's subscriptions: `consume_usage`       *)
(* (apps/control_api/app/domains/subscriptions/service.py) with the        *)
(* entitlement evaluator it decides by.                                    *)
(*                                                                         *)
(* A request is one transaction in two steps.  `Consume` locks the         *)
(* subscription, evaluates, and reads the counter and the idempotency key; *)
(* `Commit` writes.  Between them the application may retire the feature,  *)
(* and requests of other subscriptions may commit the same key.            *)
(***************************************************************************)
EXTENDS Integers, FiniteSets, FiniteSetsExt

CONSTANTS
  Subs,        \* subscriptions
  Features,    \* normalised feature codes
  Keys,        \* idempotency keys, unique in the application
  Callers,     \* sessions that may hold a transaction
  Ops,         \* operation names
  Amounts,     \* amounts a request may ask for
  MaxTime,     \* the clock stops here
  StartsAt,    \* [Subs -> Times]: first instant of the term
  EndsAt,      \* [Subs -> Nat]: first instant after it (past MaxTime: open-ended)
  Window,      \* [Times -> Times]: first instant of the calendar period of an instant
  Snapshot,    \* [Subs -> [Features -> Snapshots]]: the grants frozen into the term
  NoTx, NoEvent

Times == 0..MaxTime

Snapshots == [kind : {"missing", "disabled", "unlimited", "limited"},
              limit : Nat, reset : {"total", "calendar"}]

ConstantsAssumption ==
  /\ MaxTime \in Nat
  /\ Amounts \subseteq Nat \ {0}
  /\ StartsAt \in [Subs -> Times]
  /\ EndsAt \in [Subs -> Nat]
  /\ Window \in [Times -> Times]
  /\ \A t \in Times : Window[t] <= t
  /\ Snapshot \in [Subs -> [Features -> Snapshots]]

VARIABLES
  now,         \* the database's and the service's clock
  status,      \* [Subs -> subscription status]
  registered,  \* features the application still publishes (AppFeature.active)
  used,        \* [Counters -> Nat]: UsageCounter.used_value; no row reads as 0
  event,       \* [Keys -> UsageEvent or NoEvent]
  tx,          \* [Callers -> open transaction or NoTx]
  granted,     \* requests whose caller was told "consumed"
  denied       \* requests refused for want of quota, with the instant

vars == <<now, status, registered, used, event, tx, granted, denied>>

Requests == [sub : Subs, feature : Features, key : Keys, amount : Amounts, op : Ops]
Counters == Subs \X Features \X Times
Events == [counter : Counters, delta : Amounts, op : Ops, at : Times]
Transactions == [req : Requests, counter : Counters, at : Times, read : Nat]
Denials == [req : Requests, at : Times]

ASSUME UsageAssumption ==
  ConstantsAssumption /\ NoTx \notin Transactions /\ NoEvent \notin Events

-----------------------------------------------------------------------------
(* The evaluator.                                                          *)

Entitled(snap) == snap.kind \in {"unlimited", "limited"}

Remaining(snap, u) == IF snap.limit > u THEN snap.limit - u ELSE 0

\* Mutant: compares with the limit, not with what remains of it.
AllowedByLimit(snap, u, amount) ==
  /\ Entitled(snap)
  /\ snap.kind = "limited" => amount <= snap.limit

Allowed(snap, u, amount) ==
  /\ Entitled(snap)
  /\ snap.kind = "limited" => amount <= Remaining(snap, u)

\* Mutant: every period is the one the term starts in.
CounterAtStart(s, f, t) == <<s, f, StartsAt[s]>>

\* The counter an instant's usage is charged to (`_period_bounds`).
CounterAt(s, f, t) ==
  <<s, f, IF Snapshot[s][f].reset = "total" THEN StartsAt[s] ELSE Window[t]>>

InForce(s) == status[s] = "active" /\ StartsAt[s] <= now /\ now < EndsAt[s]

\* Mutant: the subscription is read without a lock.
NoLock(s) == TRUE

\* The row lock on the subscription (`locked_subscription_statement`).
Unlocked(s) == \A c \in Callers : tx[c] # NoTx => tx[c].req.sub # s

\* Mutant: a replay is recognised by its counter and operation.
SameCounter(e, r, counter) == e.counter = counter /\ e.op = r.op

\* The stored event was written by this very request.
SameUsage(e, r, counter) == e.counter = counter /\ e.delta = r.amount /\ e.op = r.op

\* Mutants: the counter is set, or the amount given back.
ChargeAmount(read, amount) == amount
Credit(read, amount) == read - amount

\* counter.used_value += payload.amount
Charge(read, amount) == read + amount

-----------------------------------------------------------------------------
Init ==
  /\ now = 0
  /\ status = [s \in Subs |-> "active"]
  /\ registered = Features
  /\ used = [c \in Counters |-> 0]
  /\ event = [k \in Keys |-> NoEvent]
  /\ tx = [c \in Callers |-> NoTx]
  /\ granted = {}
  /\ denied = {}

\* What every accepted request has in common: the term is locked and in force,
\* its snapshot grants the feature, and the feature is registered.
Admitted(c, r) ==
  /\ tx[c] = NoTx
  /\ Unlocked(r.sub)
  /\ InForce(r.sub)
  /\ Entitled(Snapshot[r.sub][r.feature])
  /\ r.feature \in registered

\* consume_usage up to the commit, for a key not seen before.
Consume(c, r) ==
  LET counter == CounterAt(r.sub, r.feature, now)
  IN  /\ Admitted(c, r)
      /\ event[r.key] = NoEvent
      /\ Allowed(Snapshot[r.sub][r.feature], used[counter], r.amount)
      /\ tx' = [tx EXCEPT ![c] = [req |-> r, counter |-> counter, at |-> now,
                                  read |-> used[counter]]]
      /\ UNCHANGED <<now, status, registered, used, event, granted, denied>>

\* consume_usage for a new key and too large an amount: a counter row it may have added
\* is rolled back with the rest.
Deny(c, r) ==
  /\ Admitted(c, r)
  /\ event[r.key] = NoEvent
  /\ ~ Allowed(Snapshot[r.sub][r.feature], used[CounterAt(r.sub, r.feature, now)], r.amount)
  /\ denied' = denied \union {[req |-> r, at |-> now]}
  /\ UNCHANGED <<now, status, registered, used, event, tx, granted>>

\* consume_usage for a key already used by the same request: nothing is written.
Replay(c, r) ==
  /\ Admitted(c, r)
  /\ event[r.key] # NoEvent
  /\ SameUsage(event[r.key], r, CounterAt(r.sub, r.feature, now))
  /\ granted' = granted \union {r}
  /\ UNCHANGED <<now, status, registered, used, event, tx, denied>>

\* The commit.  The unique index on the key decides; the answer may be lost.
Commit(c) ==
  /\ tx[c] # NoTx
  /\ event[tx[c].req.key] = NoEvent
  /\ used' = [used EXCEPT ![tx[c].counter] = Charge(tx[c].read, tx[c].req.amount)]
  /\ event' = [event EXCEPT ![tx[c].req.key] =
                 [counter |-> tx[c].counter, delta |-> tx[c].req.amount,
                  op |-> tx[c].req.op, at |-> tx[c].at]]
  /\ tx' = [tx EXCEPT ![c] = NoTx]
  /\ granted' \in {granted, granted \union {tx[c].req}}
  /\ UNCHANGED <<now, status, registered, denied>>

\* `_commit_unique` rolls back on the index; a broken connection rolls back too.
Rollback(c) ==
  /\ tx[c] # NoTx
  /\ tx' = [tx EXCEPT ![c] = NoTx]
  /\ UNCHANGED <<now, status, registered, used, event, granted, denied>>

\* suspend, resume and cancel take the same row lock (`transition_target`).
Transition(s) ==
  /\ Unlocked(s)
  /\ \/ status[s] = "active" /\ now < EndsAt[s]
        /\ status' = [status EXCEPT ![s] = "suspended"]
     \/ status[s] = "suspended" /\ now < EndsAt[s]
        /\ status' = [status EXCEPT ![s] = "active"]
     \/ status[s] \in {"active", "suspended"}
        /\ status' = [status EXCEPT ![s] = "cancelled"]
  /\ UNCHANGED <<now, registered, used, event, tx, granted, denied>>

\* A manifest without the feature, or with it again.
PublishFeatures(F) ==
  /\ registered' = F
  /\ F # registered
  /\ UNCHANGED <<now, status, used, event, tx, granted, denied>>

Tick ==
  /\ now < MaxTime
  /\ now' = now + 1
  /\ UNCHANGED <<status, registered, used, event, tx, granted, denied>>

Next ==
  \/ \E c \in Callers, r \in Requests : Consume(c, r) \/ Deny(c, r) \/ Replay(c, r)
  \/ \E c \in Callers : Commit(c) \/ Rollback(c)
  \/ \E s \in Subs : Transition(s)
  \/ \E F \in SUBSET Features : PublishFeatures(F)
  \/ Tick

Spec == Init /\ [][Next]_vars

-----------------------------------------------------------------------------
(* Properties.                                                             *)

\* Every variable has its type.
TypeOK ==
  /\ now \in Times
  /\ status \in [Subs -> {"active", "suspended", "cancelled"}]
  /\ registered \in SUBSET Features
  /\ used \in [Counters -> Nat]
  /\ event \in [Keys -> Events \union {NoEvent}]
  /\ tx \in [Callers -> Transactions \union {NoTx}]
  /\ granted \in SUBSET Requests
  /\ denied \in SUBSET Denials

\* No counter ever passes the limit of the grant it meters, however many requests
\* were in flight (service.py:692-709).
WithinLimit ==
  \A c \in Counters :
    Snapshot[c[1]][c[2]].kind = "limited" => used[c] <= Snapshot[c[1]][c[2]].limit

\* What a subscription used of a feature in the period an instant lies in, counted from
\* the events alone.
UsedInPeriod(s, f, t) ==
  MapThenSumSet(LAMBDA k : event[k].delta,
    {k \in Keys : /\ event[k] # NoEvent
                  /\ event[k].counter[1] = s /\ event[k].counter[2] = f
                  /\ \/ Snapshot[s][f].reset = "total"
                     \/ Window[event[k].at] = Window[t]})

\* Nobody is refused who had quota left: a counter never carries over into the next
\* period, and nothing is counted that was not consumed.
DenialsAreDeserved ==
  \A d \in denied :
    LET snap == Snapshot[d.req.sub][d.req.feature]
    IN  /\ snap.kind = "limited"
        /\ UsedInPeriod(d.req.sub, d.req.feature, d.at) + d.req.amount > snap.limit

\* A counter is the sum of the events charged to it: no update is lost, none is
\* counted twice, none without an event.
CountersMatchEvents ==
  \A c \in Counters :
    used[c] = MapThenSumSet(LAMBDA k : event[k].delta,
                            {k \in Keys : event[k] # NoEvent /\ event[k].counter = c})

\* Counters count what was consumed, and refuse for nothing else.
CountsAreTrue == CountersMatchEvents /\ DenialsAreDeserved

\* Whoever was told "consumed" is in the ledger with that subscription, feature,
\* amount and operation: a key answers two different requests in the same way never.
GrantsAreRecorded ==
  \A r \in granted :
    /\ event[r.key] # NoEvent
    /\ event[r.key].counter[1] = r.sub
    /\ event[r.key].counter[2] = r.feature
    /\ event[r.key].delta = r.amount
    /\ event[r.key].op = r.op

\* Usage is charged to the period it happened in, within the term, and only to what
\* the term grants.
ChargedToItsPeriod ==
  \A k \in Keys : event[k] # NoEvent =>
    LET s == event[k].counter[1]
        f == event[k].counter[2]
    IN  /\ event[k].counter[3] =
             IF Snapshot[s][f].reset = "total" THEN StartsAt[s] ELSE Window[event[k].at]
        /\ StartsAt[s] <= event[k].at
        /\ event[k].at < EndsAt[s]
        /\ Entitled(Snapshot[s][f])

\* A counter moves only while its subscription is active, together with exactly one
\* new event, and a stored event is never rewritten: suspension and cancellation wait for a
\* request in flight or come before it.
OneEventOneIncrement ==
  [][ /\ \A k \in Keys : event[k] # NoEvent => event'[k] = event[k]
      /\ \A c \in Counters : used'[c] # used[c] =>
           /\ status[c[1]] = "active"
           /\ \E k \in Keys : /\ event[k] = NoEvent
                              /\ event'[k] # NoEvent
                              /\ event'[k].counter = c
                              /\ used'[c] = used[c] + event'[k].delta ]_vars

=============================================================================
