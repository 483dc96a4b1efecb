---------------------------- MODULE UsageProofs ----------------------------
(***************************************************************************)
(* Proofs about Usage: limits, idempotency keys, the row lock, and that    *)
(* the counters are the sums of their events.                              *)
(***************************************************************************)
EXTENDS Usage, Sums, TLAPS

\* What an open transaction may rely on while it holds its subscription: the counter
\* is the one it read, the grant still allows the amount, the term is still active,
\* and nobody else has the subscription.
Holds(c) ==
  LET x == tx[c]
      s == x.req.sub
      f == x.req.feature
  IN  /\ x.counter = CounterAt(s, f, x.at)
      /\ x.read = used[x.counter]
      /\ Allowed(Snapshot[s][f], x.read, x.req.amount)
      /\ StartsAt[s] <= x.at
      /\ x.at < EndsAt[s]
      /\ status[s] = "active"
      /\ \A d \in Callers : tx[d] # NoTx /\ tx[d].req.sub = s => d = c

OpenTransactions == \A c \in Callers : tx[c] # NoTx => Holds(c)

UsageInv ==
  TypeOK /\ OpenTransactions /\ WithinLimit /\ GrantsAreRecorded /\ ChargedToItsPeriod

-----------------------------------------------------------------------------
\* The counter of an instant exists and belongs to its subscription and feature.
LEMMA CounterAtType ==
  ASSUME NEW s \in Subs, NEW f \in Features, NEW t \in Times
  PROVE  /\ CounterAt(s, f, t) \in Counters
         /\ CounterAt(s, f, t)[1] = s
         /\ CounterAt(s, f, t)[2] = f
         /\ CounterAt(s, f, t)[3] =
              IF Snapshot[s][f].reset = "total" THEN StartsAt[s] ELSE Window[t]
BY UsageAssumption DEF ConstantsAssumption, CounterAt, Counters

\* What the evaluator allows stays within the limit.
LEMMA AllowedIsWithinLimit ==
  ASSUME NEW snap \in Snapshots, NEW u \in Nat, NEW amount \in Nat,
         snap.kind = "limited" => u <= snap.limit,
         Allowed(snap, u, amount)
  PROVE  snap.kind = "limited" => u + amount <= snap.limit
BY DEF Allowed, Remaining, Snapshots

\* The empty application satisfies the invariant.
LEMMA InitUsage == Init => UsageInv
BY UsageAssumption
DEF Init, UsageInv, TypeOK, OpenTransactions, WithinLimit, GrantsAreRecorded,
    ChargedToItsPeriod, Counters, Times, Snapshots, ConstantsAssumption

\* Consume opens a transaction on an unlocked subscription and writes nothing.
LEMMA ConsumeKeeps ==
  ASSUME UsageInv, NEW c \in Callers, NEW r \in Requests, Consume(c, r)
  PROVE  UsageInv'
<1>. DEFINE counter == CounterAt(r.sub, r.feature, now)
            x == [req |-> r, counter |-> counter, at |-> now, read |-> used[counter]]
<1>. USE DEF UsageInv
<1>1. /\ r.sub \in Subs /\ r.feature \in Features /\ r.amount \in Amounts
      /\ now \in Times /\ counter \in Counters
  BY CounterAtType DEF Requests, TypeOK
<1>2. used[counter] \in Nat
  BY <1>1 DEF TypeOK
<1>3. x \in Transactions
  BY <1>1, <1>2 DEF Transactions
<1>4. tx' = [tx EXCEPT ![c] = x] /\ tx \in [Callers -> Transactions \union {NoTx}]
  BY DEF Consume, TypeOK
<1>5. /\ tx' \in [Callers -> Transactions \union {NoTx}]
      /\ tx'[c] = x
      /\ \A d \in Callers : d # c => tx'[d] = tx[d]
  BY <1>3, <1>4
<1>6. UNCHANGED <<now, status, registered, used, event, granted, denied>>
  BY DEF Consume
<1>7. TypeOK'
  BY <1>5, <1>6 DEF TypeOK
<1>8. OpenTransactions'
  <2>1. /\ Allowed(Snapshot[r.sub][r.feature], used[counter], r.amount)
        /\ Unlocked(r.sub)
        /\ status[r.sub] = "active" /\ StartsAt[r.sub] <= now /\ now < EndsAt[r.sub]
    BY DEF Consume, Admitted, InForce
  <2>. SUFFICES ASSUME NEW d \in Callers, tx'[d] # NoTx
                PROVE  Holds(d)'
    BY DEF OpenTransactions
  <2>2. CASE d = c
    BY <2>1, <2>2, <1>5, <1>6 DEF OpenTransactions, Holds, Unlocked, CounterAt
  <2>3. CASE d # c
    BY <2>1, <2>3, <1>5, <1>6 DEF OpenTransactions, Holds, Unlocked, CounterAt
  <2>. QED BY <2>2, <2>3
<1>. QED
  BY <1>6, <1>7, <1>8 DEF WithinLimit, GrantsAreRecorded, ChargedToItsPeriod

\* Commit raises the counter it read by the amount allowed, and fills an unused key.
LEMMA CommitKeeps ==
  ASSUME UsageInv, NEW c \in Callers, Commit(c)
  PROVE  UsageInv'
<1>. DEFINE x == tx[c]
            k == x.req.key
            e == [counter |-> x.counter, delta |-> x.req.amount, op |-> x.req.op, at |-> x.at]
<1>. USE DEF UsageInv
<1>1. x \in Transactions /\ x # NoTx /\ Holds(c)
  BY DEF Commit, TypeOK, OpenTransactions
<1>2. /\ x.req \in Requests /\ x.counter \in Counters /\ x.at \in Times /\ x.read \in Nat
      /\ x.req.sub \in Subs /\ x.req.feature \in Features /\ k \in Keys
      /\ x.req.amount \in Amounts /\ x.req.amount \in Nat /\ x.req.op \in Ops
  BY <1>1, UsageAssumption DEF Transactions, Requests, ConstantsAssumption
<1>3. e \in Events /\ e # NoEvent
  BY <1>2, UsageAssumption DEF Events
<1>4. /\ used' = [used EXCEPT ![x.counter] = x.read + x.req.amount]
      /\ event' = [event EXCEPT ![k] = e]
      /\ tx' = [tx EXCEPT ![c] = NoTx]
      /\ event[k] = NoEvent
      /\ granted' \in {granted, granted \union {x.req}}
      /\ UNCHANGED <<now, status, registered, denied>>
  BY DEF Commit, Charge
<1>5. /\ used' \in [Counters -> Nat]
      /\ used'[x.counter] = x.read + x.req.amount
      /\ \A d \in Counters : d # x.counter => used'[d] = used[d]
  BY <1>2, <1>4 DEF TypeOK
<1>6. /\ event' \in [Keys -> Events \union {NoEvent}]
      /\ event'[k] = e
      /\ \A j \in Keys : j # k => event'[j] = event[j]
  BY <1>2, <1>3, <1>4 DEF TypeOK
<1>7. /\ tx' \in [Callers -> Transactions \union {NoTx}]
      /\ tx'[c] = NoTx
      /\ \A d \in Callers : d # c => tx'[d] = tx[d]
  BY <1>4 DEF TypeOK
<1>8. /\ x.counter = CounterAt(x.req.sub, x.req.feature, x.at)
      /\ x.counter[1] = x.req.sub /\ x.counter[2] = x.req.feature
      /\ x.counter[3] = IF Snapshot[x.req.sub][x.req.feature].reset = "total"
                        THEN StartsAt[x.req.sub] ELSE Window[x.at]
  BY <1>1, <1>2, CounterAtType DEF Holds
<1>9. TypeOK'
  <2>1. granted' \in SUBSET Requests
    BY <1>2, <1>4 DEF TypeOK
  <2>. QED BY <1>4, <1>5, <1>6, <1>7, <2>1 DEF TypeOK
<1>10. OpenTransactions'
  <2>. SUFFICES ASSUME NEW d \in Callers, tx'[d] # NoTx
                PROVE  Holds(d)'
    BY DEF OpenTransactions
  <2>1. d # c /\ tx'[d] = tx[d] /\ Holds(d) /\ tx[d] \in Transactions
    BY <1>7 DEF OpenTransactions, TypeOK
  <2>2. tx[d].req.sub # x.req.sub /\ tx[d].req.sub \in Subs /\ tx[d].req.feature \in Features
    BY <1>1, <2>1 DEF Holds, Transactions, Requests
  <2>3. tx[d].counter \in Counters /\ tx[d].counter[1] = tx[d].req.sub
    BY <2>1, <2>2, CounterAtType DEF Holds, Transactions
  <2>4. used'[tx[d].counter] = used[tx[d].counter]
    BY <1>5, <1>8, <2>2, <2>3
  <2>. QED BY <1>4, <1>7, <2>1, <2>4 DEF Holds, CounterAt
<1>11. WithinLimit'
  <2>1. Snapshot[x.req.sub][x.req.feature] \in Snapshots
    BY <1>2, UsageAssumption DEF ConstantsAssumption
  <2>2. /\ Allowed(Snapshot[x.req.sub][x.req.feature], x.read, x.req.amount)
        /\ x.read = used[x.counter]
    BY <1>1 DEF Holds
  <2>3. Snapshot[x.req.sub][x.req.feature].kind = "limited"
          => x.read <= Snapshot[x.req.sub][x.req.feature].limit
    BY <1>2, <1>8, <2>2 DEF WithinLimit
  <2>4. Snapshot[x.req.sub][x.req.feature].kind = "limited"
          => x.read + x.req.amount <= Snapshot[x.req.sub][x.req.feature].limit
    BY <1>2, <2>1, <2>2, <2>3, AllowedIsWithinLimit
  <2>. QED BY <1>5, <1>8, <2>4 DEF WithinLimit
<1>12. GrantsAreRecorded'
  <2>. SUFFICES ASSUME NEW r \in granted'
                PROVE  /\ event'[r.key] # NoEvent
                       /\ event'[r.key].counter[1] = r.sub
                       /\ event'[r.key].counter[2] = r.feature
                       /\ event'[r.key].delta = r.amount
                       /\ event'[r.key].op = r.op
    BY DEF GrantsAreRecorded
  <2>1. CASE r \in granted
    <3>1. r.key \in Keys /\ event[r.key] # NoEvent
      BY <2>1 DEF GrantsAreRecorded, TypeOK, Requests
    <3>2. event'[r.key] = event[r.key]
      BY <1>4, <1>6, <3>1
    <3>. QED BY <2>1, <3>1, <3>2 DEF GrantsAreRecorded
  <2>2. CASE r = x.req
    BY <1>3, <1>6, <1>8, <2>2
  <2>. QED BY <1>4, <2>1, <2>2
<1>13. ChargedToItsPeriod'
  <2>1. /\ StartsAt[x.req.sub] <= x.at /\ x.at < EndsAt[x.req.sub]
        /\ Entitled(Snapshot[x.req.sub][x.req.feature])
    BY <1>1 DEF Holds, Allowed
  <2>. QED BY <1>6, <1>8, <2>1 DEF ChargedToItsPeriod
<1>. QED BY <1>9, <1>10, <1>11, <1>12, <1>13

\* Everything else writes neither counters nor events.
LEMMA OtherStepsKeep ==
  ASSUME UsageInv,
         \/ \E c \in Callers, r \in Requests : Replay(c, r)
         \/ \E c \in Callers, r \in Requests : Deny(c, r)
         \/ \E c \in Callers : Rollback(c)
         \/ \E s \in Subs : Transition(s)
         \/ \E F \in SUBSET Features : PublishFeatures(F)
         \/ Tick
         \/ UNCHANGED vars
  PROVE  UsageInv'
<1>. USE DEF UsageInv
<1>1. ASSUME NEW c \in Callers, NEW r \in Requests, Replay(c, r)
      PROVE  UsageInv'
  <2>1. UNCHANGED <<now, status, registered, used, event, tx, denied>> /\ granted' = granted \union {r}
    BY <1>1 DEF Replay
  <2>2. TypeOK' /\ WithinLimit' /\ ChargedToItsPeriod' /\ OpenTransactions'
    BY <2>1 DEF TypeOK, WithinLimit, ChargedToItsPeriod, OpenTransactions, Holds, CounterAt
  <2>3. /\ r.sub \in Subs /\ r.feature \in Features /\ now \in Times
        /\ event[r.key] # NoEvent
        /\ SameUsage(event[r.key], r, CounterAt(r.sub, r.feature, now))
    BY <1>1 DEF Replay, Requests, TypeOK
  <2>4. /\ event[r.key].counter[1] = r.sub /\ event[r.key].counter[2] = r.feature
        /\ event[r.key].delta = r.amount /\ event[r.key].op = r.op
    BY <2>3, CounterAtType DEF SameUsage
  <2>. QED BY <2>1, <2>2, <2>3, <2>4 DEF GrantsAreRecorded
<1>2. ASSUME NEW c \in Callers, Rollback(c)
      PROVE  UsageInv'
  BY <1>2 DEF Rollback, TypeOK, OpenTransactions, Holds, CounterAt, WithinLimit,
              GrantsAreRecorded, ChargedToItsPeriod
<1>3. ASSUME NEW s \in Subs, Transition(s)
      PROVE  UsageInv'
  <2>1. /\ Unlocked(s)
        /\ UNCHANGED <<now, registered, used, event, tx, granted, denied>>
        /\ status' \in [Subs -> {"active", "suspended", "cancelled"}]
        /\ \A u \in Subs : u # s => status'[u] = status[u]
    BY <1>3 DEF Transition, TypeOK
  <2>2. OpenTransactions'
    <3>. SUFFICES ASSUME NEW c \in Callers, tx[c] # NoTx
                  PROVE  Holds(c)'
      BY <2>1 DEF OpenTransactions
    <3>1. tx[c].req.sub # s /\ tx[c].req.sub \in Subs /\ Holds(c)
      BY <2>1 DEF Unlocked, OpenTransactions, TypeOK, Transactions, Requests
    <3>. QED BY <2>1, <3>1 DEF Holds, CounterAt
  <2>. QED BY <2>1, <2>2 DEF TypeOK, WithinLimit, GrantsAreRecorded, ChargedToItsPeriod
<1>4. ASSUME NEW F \in SUBSET Features, PublishFeatures(F)
      PROVE  UsageInv'
  BY <1>4 DEF PublishFeatures, TypeOK, OpenTransactions, Holds, CounterAt, WithinLimit,
              GrantsAreRecorded, ChargedToItsPeriod
<1>5. CASE Tick
  BY <1>5, UsageAssumption DEF Tick, Times, ConstantsAssumption, TypeOK, OpenTransactions, Holds,
     CounterAt, WithinLimit, GrantsAreRecorded, ChargedToItsPeriod
<1>6. CASE UNCHANGED vars
  BY <1>6 DEF vars, TypeOK, OpenTransactions, Holds, CounterAt, WithinLimit,
              GrantsAreRecorded, ChargedToItsPeriod
<1>7. ASSUME NEW c \in Callers, NEW r \in Requests, Deny(c, r)
      PROVE  UsageInv'
  <2>1. /\ UNCHANGED <<now, status, registered, used, event, tx, granted>>
        /\ denied' = denied \union {[req |-> r, at |-> now]}
    BY <1>7 DEF Deny
  <2>2. TypeOK'
    BY <2>1 DEF TypeOK, Denials
  <2>. QED BY <2>1, <2>2 DEF OpenTransactions, Holds, CounterAt, WithinLimit,
                            GrantsAreRecorded, ChargedToItsPeriod
<1>. QED BY <1>1, <1>2, <1>3, <1>4, <1>5, <1>6, <1>7

\* The invariant is inductive.
THEOREM UsageInvariant == Spec => []UsageInv
<1>1. UsageInv /\ [Next]_vars => UsageInv'
  BY ConsumeKeeps, CommitKeeps, OtherStepsKeep DEF Next
<1>. QED BY InitUsage, <1>1, PTL DEF Spec

\* Every reachable state is well typed, the counters natural numbers.
THEOREM TypesHold == Spec => []TypeOK
<1>1. UsageInv => TypeOK
  BY DEF UsageInv
<1>. QED BY UsageInvariant, <1>1, PTL

\* No interleaving of requests passes a limit (service.py:692-709).
THEOREM LimitsHold == Spec => []WithinLimit
<1>1. UsageInv => WithinLimit
  BY DEF UsageInv
<1>. QED BY UsageInvariant, <1>1, PTL

\* Whoever was told "consumed" has their own request in the ledger
\* (service.py:672-690).
THEOREM GrantsHold == Spec => []GrantsAreRecorded
<1>1. UsageInv => GrantsAreRecorded
  BY DEF UsageInv
<1>. QED BY UsageInvariant, <1>1, PTL

\* Usage is charged to the period it happened in (service.py:49-71).
THEOREM PeriodsHold == Spec => []ChargedToItsPeriod
<1>1. UsageInv => ChargedToItsPeriod
  BY DEF UsageInv
<1>. QED BY UsageInvariant, <1>1, PTL

\* A counter moves only with one new event, while the term is active, and events are
\* never rewritten (service.py:615-727).
THEOREM EventsAndCountersMoveTogether == Spec => OneEventOneIncrement
<1>. DEFINE Lawful ==
       /\ \A k \in Keys : event[k] # NoEvent => event'[k] = event[k]
       /\ \A c \in Counters : used'[c] # used[c] =>
            /\ status[c[1]] = "active"
            /\ \E k \in Keys : /\ event[k] = NoEvent
                               /\ event'[k] # NoEvent
                               /\ event'[k].counter = c
                               /\ used'[c] = used[c] + event'[k].delta
<1>1. ASSUME UsageInv, NEW c \in Callers, Commit(c)
      PROVE  Lawful
  <2>. DEFINE x == tx[c]
              k == x.req.key
  <2>1. /\ x \in Transactions /\ Holds(c) /\ k \in Keys
        /\ x.req.sub \in Subs /\ x.req.feature \in Features /\ x.at \in Times
        /\ x.req.amount \in Amounts /\ x.req.op \in Ops /\ x.counter \in Counters
    BY <1>1 DEF UsageInv, Commit, TypeOK, OpenTransactions, Transactions, Requests
  <2>2. /\ event[k] = NoEvent
        /\ event' = [event EXCEPT ![k] = [counter |-> x.counter, delta |-> x.req.amount,
                                          op |-> x.req.op, at |-> x.at]]
        /\ used' = [used EXCEPT ![x.counter] = x.read + x.req.amount]
        /\ event \in [Keys -> Events \union {NoEvent}] /\ used \in [Counters -> Nat]
    BY <1>1 DEF UsageInv, Commit, Charge, TypeOK
  <2>3. /\ event'[k].counter = x.counter /\ event'[k].delta = x.req.amount
        /\ event'[k] \in Events
    BY <2>1, <2>2 DEF Events
  <2>4. event'[k] # NoEvent
    BY <2>3, UsageAssumption
  <2>5. x.counter[1] = x.req.sub /\ x.read = used[x.counter] /\ status[x.req.sub] = "active"
    BY <2>1, CounterAtType DEF Holds
  <2>. QED BY <2>1, <2>2, <2>3, <2>4, <2>5
<1>2. UsageInv /\ [Next]_vars => Lawful \/ UNCHANGED vars
  BY <1>1 DEF Next, Consume, Deny, Replay, Rollback, Transition, PublishFeatures, Tick
<1>3. UsageInv /\ [Next]_vars => [Lawful]_vars
  BY <1>2
<1>. QED BY UsageInvariant, <1>3, PTL DEF Spec, OneEventOneIncrement

-----------------------------------------------------------------------------
(* The counters are the sums of their events.                              *)

\* The events of a counter, and of a period.
ChargedTo(ev, c) == {k \in Keys : ev[k] # NoEvent /\ ev[k].counter = c}

InPeriod(ev, s, f, t) ==
  {k \in Keys : /\ ev[k] # NoEvent
                /\ ev[k].counter[1] = s /\ ev[k].counter[2] = f
                /\ Snapshot[s][f].reset = "total" \/ Window[ev[k].at] = Window[t]}

Recorded(ev) == {k \in Keys : ev[k] # NoEvent}

\* Only so many events are ever recorded, however many keys there are.
CountInv == IsFiniteSet(Recorded(event)) /\ CountsAreTrue

LEMMA SumsAreTotals ==
  /\ CountersMatchEvents <=> \A c \in Counters : used[c] = Total(event, ChargedTo(event, c))
  /\ \A s, f, t : UsedInPeriod(s, f, t) = Total(event, InPeriod(event, s, f, t))
  /\ CountersMatchEvents'
       <=> \A c \in Counters : used'[c] = Total(event', ChargedTo(event', c))
  /\ \A s, f, t : UsedInPeriod(s, f, t)' = Total(event', InPeriod(event', s, f, t))
<1>1. CountersMatchEvents <=> \A c \in Counters : used[c] = Total(event, ChargedTo(event, c))
  BY DEF CountersMatchEvents, Total, ChargedTo
<1>2. \A s, f, t : UsedInPeriod(s, f, t) = Total(event, InPeriod(event, s, f, t))
  BY DEF UsedInPeriod, Total, InPeriod
<1>3. CountersMatchEvents'
        <=> \A c \in Counters : used'[c] = Total(event', ChargedTo(event', c))
  BY DEF CountersMatchEvents, Total, ChargedTo, MapThenSumSet, MapThenFoldSet
<1>4. \A s, f, t : UsedInPeriod(s, f, t)' = Total(event', InPeriod(event', s, f, t))
  BY DEF UsedInPeriod, Total, InPeriod, MapThenSumSet, MapThenFoldSet
<1>. QED
  BY <1>1, <1>2, <1>3, <1>4

\* What is recorded has an amount, and any part of it is finite.
LEMMA RecordedAmounts ==
  ASSUME TypeOK, IsFiniteSet(Recorded(event)), NEW S \in SUBSET Recorded(event)
  PROVE  IsFiniteSet(S) /\ \A k \in S : event[k].delta \in Nat
<1>1. Amounts \subseteq Nat
  BY UsageAssumption DEF ConstantsAssumption
<1>. QED
  BY <1>1, FS_Subset DEF TypeOK, Events, Recorded

LEMMA InitCounts == Init => CountInv
<1>. SUFFICES ASSUME Init PROVE CountInv
  OBVIOUS
<1>1. Recorded(event) = {} /\ \A c : ChargedTo(event, c) = {}
  BY DEF Init, Recorded, ChargedTo
<1>2. Total(event, {}) = 0
  BY FS_EmptySet, TotalUnfolds
<1>3. \A c \in Counters : used[c] = Total(event, ChargedTo(event, c))
  BY <1>1, <1>2 DEF Init
<1>4. DenialsAreDeserved
  BY DEF Init, DenialsAreDeserved
<1>. QED
  BY <1>1, <1>3, <1>4, SumsAreTotals, FS_EmptySet DEF CountInv, CountsAreTrue

\* A commit adds its event to its own counter, and to no period less than before.
LEMMA CommitCounts ==
  ASSUME UsageInv, CountInv, NEW c \in Callers, Commit(c)
  PROVE  CountInv'
<1>. DEFINE x == tx[c]
            k == x.req.key
<1>1. /\ x \in Transactions /\ Holds(c)
      /\ k \in Keys /\ x.counter \in Counters /\ x.read \in Nat /\ x.req.amount \in Nat
  BY UsageAssumption
  DEF UsageInv, Commit, TypeOK, OpenTransactions, Transactions, Requests, ConstantsAssumption
<1>2. PICK e \in Events : /\ e.counter = x.counter /\ e.delta = x.req.amount
                          /\ event' = [event EXCEPT ![k] = e]
  <2>. DEFINE e == [counter |-> x.counter, delta |-> x.req.amount, op |-> x.req.op, at |-> x.at]
  <2>1. e \in Events
    BY <1>1 DEF Events, Transactions, Requests
  <2>2. event' = [event EXCEPT ![k] = e]
    BY DEF Commit
  <2>. QED
    BY <2>1, <2>2
<1>3. /\ event[k] = NoEvent /\ e # NoEvent
      /\ used' = [used EXCEPT ![x.counter] = x.read + x.req.amount]
      /\ denied' = denied
      /\ x.read = used[x.counter]
      /\ event \in [Keys -> Events \union {NoEvent}] /\ used \in [Counters -> Nat]
  BY <1>1, UsageAssumption DEF Commit, Charge, Holds, UsageInv, TypeOK
<1>4. /\ event'[k] = e /\ \A j \in Keys : j # k => event'[j] = event[j]
      /\ used'[x.counter] = used[x.counter] + e.delta
      /\ \A d \in Counters : d # x.counter => used'[d] = used[d]
  BY <1>1, <1>2, <1>3
<1>. HIDE DEF k, x
<1>5. /\ IsFiniteSet(Recorded(event))
      /\ Recorded(event') = Recorded(event) \union {k}
  BY <1>1, <1>3, <1>4 DEF CountInv, Recorded
<1>6. IsFiniteSet(Recorded(event'))
  BY <1>5, FS_AddElement
<1>7. \A j \in Recorded(event) : event'[j] = event[j] /\ j # k
  BY <1>3, <1>4 DEF Recorded
<1>8. ASSUME NEW S \in SUBSET Recorded(event)
      PROVE  IsFiniteSet(S) /\ Total(event', S) = Total(event, S)
  BY <1>5, <1>7, RecordedAmounts, TotalOfSameAmounts DEF UsageInv
<1>9. \A j \in Recorded(event') : event'[j].delta \in Nat
  BY <1>1, <1>2, <1>4, <1>5, <1>7, RecordedAmounts DEF UsageInv
<1>10. ASSUME NEW d \in Counters
       PROVE  used'[d] = Total(event', ChargedTo(event', d))
  <2>1. ChargedTo(event, d) \in SUBSET Recorded(event) /\ k \notin ChargedTo(event, d)
    BY <1>3 DEF ChargedTo, Recorded
  <2>2. used[d] = Total(event, ChargedTo(event, d))
    BY SumsAreTotals DEF CountInv, CountsAreTrue
  <2>3. CASE d = x.counter
    <3>1. ChargedTo(event', d) = ChargedTo(event, d) \union {k}
      BY <1>1, <1>2, <1>3, <1>4, <2>3 DEF ChargedTo
    <3>2. /\ IsFiniteSet(ChargedTo(event', d))
          /\ \A j \in ChargedTo(event', d) : event'[j].delta \in Nat
      BY <1>6, <1>9, FS_Subset DEF ChargedTo, Recorded
    <3>3. Total(event', ChargedTo(event', d))
            = event'[k].delta + Total(event', ChargedTo(event', d) \ {k})
      BY <3>1, <3>2, TotalTakesOut
    <3>4. ChargedTo(event', d) \ {k} = ChargedTo(event, d)
      BY <2>1, <3>1
    <3>5. Total(event', ChargedTo(event', d)) = e.delta + used[d]
      BY <1>4, <1>8, <2>1, <2>2, <3>3, <3>4
    <3>. QED
      BY <1>1, <1>2, <1>3, <1>4, <2>3, <3>5
  <2>4. CASE d # x.counter
    <3>1. ChargedTo(event', d) = ChargedTo(event, d)
      BY <1>2, <1>3, <1>4, <2>4 DEF ChargedTo
    <3>. QED
      BY <1>4, <1>8, <2>1, <2>2, <2>4, <3>1
  <2>. QED
    BY <2>3, <2>4
<1>11. ASSUME NEW d \in denied
       PROVE  LET snap == Snapshot[d.req.sub][d.req.feature]
              IN  /\ snap.kind = "limited"
                  /\ UsedInPeriod(d.req.sub, d.req.feature, d.at)' + d.req.amount > snap.limit
  <2>. DEFINE s == d.req.sub
              f == d.req.feature
              S == InPeriod(event, s, f, d.at)
              T == InPeriod(event', s, f, d.at)
  <2>1. /\ Snapshot[s][f].kind = "limited"
        /\ Total(event, S) + d.req.amount > Snapshot[s][f].limit
    BY SumsAreTotals DEF CountInv, CountsAreTrue, DenialsAreDeserved
  <2>2. S \in SUBSET Recorded(event) /\ T \in SUBSET Recorded(event') /\ S \in SUBSET T
    BY <1>7 DEF InPeriod, Recorded
  <2>3. d.req.amount \in Nat /\ Snapshot[s][f].limit \in Nat
    <3>1. d.req.amount \in Amounts /\ s \in Subs /\ f \in Features
      BY DEF UsageInv, TypeOK, Denials, Requests
    <3>2. Snapshot[s][f] \in Snapshots /\ Amounts \subseteq Nat
      BY <3>1, UsageAssumption DEF ConstantsAssumption
    <3>. QED
      BY <3>1, <3>2 DEF Snapshots
  <2>4. UsedInPeriod(s, f, d.at)' = Total(event', T)
    BY SumsAreTotals
  <2>. HIDE DEF s, f, S, T
  <2>5. IsFiniteSet(T) /\ \A j \in T : event'[j].delta \in Nat
    BY <1>6, <1>9, <2>2, FS_Subset
  <2>6. Total(event', S) <= Total(event', T)
    BY <2>2, <2>5, TotalGrows
  <2>7. Total(event', S) \in Nat /\ Total(event', T) \in Nat
    BY <2>2, <2>5, TotalIsNat, FS_Subset
  <2>8. Total(event, S) = Total(event', S)
    BY <1>8, <2>2
  <2>9. Total(event', T) + d.req.amount > Snapshot[s][f].limit
    BY <2>1, <2>3, <2>6, <2>7, <2>8
  <2>. QED
    BY <2>1, <2>4, <2>9 DEF s, f
<1>12. CountersMatchEvents'
  BY <1>10, SumsAreTotals
<1>13. DenialsAreDeserved'
  BY <1>3, <1>11 DEF DenialsAreDeserved
<1>. QED
  BY <1>6, <1>12, <1>13 DEF CountInv, CountsAreTrue

\* A refusal finds its counter, and so the events of the period, at the limit.
LEMMA DenyCounts ==
  ASSUME UsageInv, CountInv, NEW c \in Callers, NEW r \in Requests, Deny(c, r)
  PROVE  CountInv'
<1>. DEFINE counter == CounterAt(r.sub, r.feature, now)
            snap == Snapshot[r.sub][r.feature]
            S == ChargedTo(event, counter)
            T == InPeriod(event, r.sub, r.feature, now)
<1>1. /\ r.sub \in Subs /\ r.feature \in Features /\ r.amount \in Nat /\ now \in Times
      /\ snap \in Snapshots
  <2>1. r.sub \in Subs /\ r.feature \in Features /\ r.amount \in Amounts /\ now \in Times
    BY DEF Requests, UsageInv, TypeOK
  <2>. QED
    BY <2>1, UsageAssumption DEF ConstantsAssumption
<1>2. /\ counter \in Counters /\ counter[1] = r.sub /\ counter[2] = r.feature
      /\ counter[3] = IF snap.reset = "total" THEN StartsAt[r.sub] ELSE Window[now]
  BY <1>1, CounterAtType
<1>3. /\ used[counter] \in Nat /\ used[counter] = Total(event, S)
      /\ IsFiniteSet(Recorded(event))
  BY <1>2, SumsAreTotals DEF UsageInv, TypeOK, CountInv, CountsAreTrue
<1>4. snap.kind = "limited" /\ used[counter] + r.amount > snap.limit
  BY <1>1, <1>3 DEF Deny, Admitted, Allowed, Remaining, Entitled, Snapshots
<1>5. S \in SUBSET T /\ T \in SUBSET Recorded(event)
  BY <1>2 DEF ChargedTo, InPeriod, Recorded, UsageInv, ChargedToItsPeriod
<1>6. IsFiniteSet(T) /\ \A k \in T : event[k].delta \in Nat
  BY <1>3, <1>5, RecordedAmounts DEF UsageInv
<1>7. Total(event, S) <= Total(event, T) /\ Total(event, T) \in Nat
  BY <1>5, <1>6, TotalGrows, TotalIsNat
<1>8. UsedInPeriod(r.sub, r.feature, now) + r.amount > snap.limit
  <2>1. UsedInPeriod(r.sub, r.feature, now) = Total(event, T)
    BY SumsAreTotals
  <2>2. snap.limit \in Nat
    BY <1>1 DEF Snapshots
  <2>. HIDE DEF counter, snap, S, T
  <2>. QED
    BY <1>1, <1>3, <1>4, <1>7, <2>1, <2>2
<1>9. event' = event /\ used' = used /\ denied' = denied \union {[req |-> r, at |-> now]}
  BY DEF Deny
<1>10. /\ \A s, f, t : UsedInPeriod(s, f, t)' = UsedInPeriod(s, f, t)
       /\ CountersMatchEvents'
  BY <1>9, SumsAreTotals DEF CountInv, CountsAreTrue
<1>11. DenialsAreDeserved'
  BY <1>4, <1>8, <1>9, <1>10 DEF DenialsAreDeserved, CountInv, CountsAreTrue
<1>. QED
  BY <1>3, <1>9, <1>10, <1>11 DEF CountInv, CountsAreTrue, Recorded

\* Counters count what was consumed and nothing else, and nobody is refused who had quota
\* left (service.py:49-71, 692-727): no update is lost or counted twice, none carried over.
THEOREM CountsHold == Spec => []CountsAreTrue
<1>1. UsageInv /\ CountInv /\ [Next]_vars => CountInv'
  <2>. SUFFICES ASSUME UsageInv, CountInv, [Next]_vars
                PROVE  CountInv'
    OBVIOUS
  <2>1. CASE UNCHANGED <<event, used, denied>>
    BY <2>1, SumsAreTotals DEF CountInv, CountsAreTrue, DenialsAreDeserved, Recorded
  <2>. QED
    BY <2>1, CommitCounts, DenyCounts
    DEF Next, vars, Consume, Replay, Rollback, Transition, PublishFeatures, Tick
<1>2. CountInv => CountsAreTrue
  BY DEF CountInv
<1>. QED
  BY InitCounts, UsageInvariant, <1>1, <1>2, PTL DEF Spec
=============================================================================
