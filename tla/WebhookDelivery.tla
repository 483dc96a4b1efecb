-------------------------- MODULE WebhookDelivery --------------------------
(***************************************************************************)
(* Delivery of webhooks by an application: `deliverWebhook` of the adapter *)
(* (apps/api/src/services/webhookDelivery.ts), run by several workers.     *)
(*                                                                         *)
(* Each database call and the HTTP call are steps of their own; a worker   *)
(* may crash between any two.  nextAttemptAt only delays when a sweep lists *)
(* a row, and a listed row may be delivered at any later time, so times    *)
(* are left out: a lease is valid until it runs out.                       *)
(***************************************************************************)
EXTENDS Integers, FiniteSets

CONSTANTS
  Deliveries,   \* rows of webhook_deliveries
  Workers,      \* jobs of the delivery queue and of the retry sweep, in any process
  MaxAttempts,  \* maxAttempts
  MaxCrashes,   \* bound: crashes of workers
  NoDelivery

VARIABLES
  row,       \* [Deliveries -> status, lease, attemptCount]
  worker,    \* [Workers -> what it is doing, with the attemptCount it read]
  taken,     \* [Deliveries -> how often the endpoint took it]: history
  posts,     \* [Deliveries -> how often it was sent]: history
  crashes

vars == <<row, worker, taken, posts, crashes>>

Statuses == {"none", "PENDING", "RETRYING", "DELIVERED", "FAILED"}
Leases == {"none", "valid", "expired"}
Steps == {"idle", "read", "posting", "accepted", "refused", "failing"}

Idle == [step |-> "idle", delivery |-> NoDelivery, seen |-> 0]

At(w, step) == worker[w].step = step

Goes(w, step) == worker' = [worker EXCEPT ![w].step = step]

\* Mutant: a lease is taken whoever holds it.
LeaseIgnored(r) == r.status \in {"PENDING", "RETRYING"}

\* Mutant: a row is taken in any status.
StatusIgnored(r) == r.lease # "valid"

\* The condition of the updateMany that takes the lease.
Takeable(r) == r.status \in {"PENDING", "RETRYING"} /\ r.lease # "valid"

\* Mutant: the attempt is counted twice.
ExhaustedEarly(seen) == seen + 2 >= MaxAttempts

\* attemptCount >= maxAttempts, with attemptCount as read before the lease, plus one.
Exhausted(seen) == seen + 1 >= MaxAttempts

\* Mutant: what is left is counted down.
CountedDown(n) == n - 1

\* attemptCount: { increment: 1 } when the lease is taken.
Counted(n) == n + 1

\* success ? 'DELIVERED' : 'FAILED'
AnswerStatus(success) == IF success THEN "DELIVERED" ELSE "FAILED"

-----------------------------------------------------------------------------
NoRow == [status |-> "none", lease |-> "none", attempts |-> 0]

Init ==
  /\ row = [d \in Deliveries |-> NoRow]
  /\ worker = [w \in Workers |-> Idle]
  /\ taken = [d \in Deliveries |-> 0]
  /\ posts = [d \in Deliveries |-> 0]
  /\ crashes = 0

\* The rows after createMany with skipDuplicates.
Inserted(D) ==
  [d \in Deliveries |->
     IF d \in D /\ row[d] = NoRow THEN [NoRow EXCEPT !.status = "PENDING"] ELSE row[d]]

\* findUnique, and the early return for a row already delivered.
ReadRow(w, d) ==
  /\ At(w, "idle")
  /\ row[d].status \notin {"none", "DELIVERED"}
  /\ worker' = [worker EXCEPT ![w] =
                  [step |-> "read", delivery |-> d, seen |-> row[d].attempts]]
  /\ UNCHANGED <<row, taken, posts, crashes>>

TakeLease(w) ==
  LET d == worker[w].delivery
  IN  /\ At(w, "read")
      /\ Takeable(row[d])
      /\ row' = [row EXCEPT ![d].lease = "valid", ![d].attempts = Counted(@)]
      /\ Goes(w, "posting")
      /\ UNCHANGED <<taken, posts, crashes>>

\* updated.count === 0: another worker has the lease, or the row needs no delivery.
LeaseDenied(w) ==
  /\ At(w, "read")
  /\ ~ Takeable(row[worker[w].delivery])
  /\ worker' = [worker EXCEPT ![w] = Idle]
  /\ UNCHANGED <<row, taken, posts, crashes>>

\* axios.post: taken, taken with the answer lost, refused, or not reached.
Post(w) ==
  LET d == worker[w].delivery
  IN  /\ At(w, "posting")
      /\ posts' = [posts EXCEPT ![d] = @ + 1]
      /\ \/ Goes(w, "accepted") /\ taken' = [taken EXCEPT ![d] = @ + 1]
         \/ Goes(w, "failing") /\ taken' \in {taken, [taken EXCEPT ![d] = @ + 1]}
         \/ Goes(w, "refused") /\ UNCHANGED taken
      /\ UNCHANGED <<row, crashes>>

\* The update after a 2xx answer, by row id only.
RecordSuccess(w) ==
  /\ At(w, "accepted")
  /\ row' = [row EXCEPT ![worker[w].delivery].status = AnswerStatus(TRUE),
                        ![worker[w].delivery].lease = "none"]
  /\ worker' = [worker EXCEPT ![w] = Idle]
  /\ UNCHANGED <<taken, posts, crashes>>

\* The update after any other answer, which writes FAILED and then throws.  On the first
\* attempt calculateNextAttempt(0) is an invalid date, and the update itself throws.
RecordRefusal(w) ==
  /\ At(w, "refused")
  /\ IF worker[w].seen = 0
     THEN UNCHANGED row
     ELSE row' = [row EXCEPT ![worker[w].delivery].status = AnswerStatus(FALSE),
                             ![worker[w].delivery].lease = "none"]
  /\ Goes(w, "failing")
  /\ UNCHANGED <<taken, posts, crashes>>

\* Either update may fail in the database and throw into the catch.
RecordFails(w) ==
  /\ worker[w].step \in {"accepted", "refused"}
  /\ Goes(w, "failing")
  /\ UNCHANGED <<row, taken, posts, crashes>>

\* The catch: RETRYING, or FAILED when the attempts are used up.
RecordFailure(w) ==
  /\ At(w, "failing")
  /\ row' = [row EXCEPT ![worker[w].delivery].status =
                          IF Exhausted(worker[w].seen) THEN "FAILED" ELSE "RETRYING",
                        ![worker[w].delivery].lease = "none"]
  /\ worker' = [worker EXCEPT ![w] = Idle]
  /\ UNCHANGED <<taken, posts, crashes>>

\* The worker dies, or the write of its catch fails too: either leaves the row as it is.
Crash(w) ==
  /\ ~ At(w, "idle")
  /\ crashes < MaxCrashes
  /\ crashes' = crashes + 1
  /\ worker' = [worker EXCEPT ![w] = Idle]
  /\ UNCHANGED <<row, taken, posts>>

AtWork(w, d) ==
  worker[w].delivery = d /\ worker[w].step \in {"posting", "accepted", "refused", "failing"}

\* Five minutes pass.  A worker that has not crashed is done by then: its request times
\* out after thirty seconds.  (The outcome is written by row id and not by lease token, so
\* nothing else keeps a worker that stalled for longer from writing.)
LeaseRunsOut(d) ==
  /\ row[d].lease = "valid"
  /\ \A w \in Workers : ~ AtWork(w, d)
  /\ row' = [row EXCEPT ![d].lease = "expired"]
  /\ UNCHANGED <<worker, taken, posts, crashes>>

WorkerStep(w) ==
  \/ \E d \in Deliveries : ReadRow(w, d)
  \/ TakeLease(w) \/ LeaseDenied(w) \/ Post(w)
  \/ RecordSuccess(w) \/ RecordRefusal(w) \/ RecordFails(w) \/ RecordFailure(w)
  \/ Crash(w)

Next ==
  \/ \E w \in Workers : WorkerStep(w)
  \/ \E d \in Deliveries : LeaseRunsOut(d)

-----------------------------------------------------------------------------
(* Properties.                                                             *)

\* Every variable has its type.
TypeOK ==
  /\ row \in [Deliveries -> [status : Statuses, lease : Leases, attempts : Nat]]
  /\ worker \in [Workers -> [step : Steps, delivery : Deliveries \union {NoDelivery},
                             seen : Nat]]
  /\ taken \in [Deliveries -> Nat]
  /\ posts \in [Deliveries -> Nat]
  /\ crashes \in 0..MaxCrashes

\* The lease keeps workers apart: never two of them between taking a row's lease and
\* writing its outcome.
OneWorkerPerDelivery ==
  \A d \in Deliveries : Cardinality({w \in Workers : AtWork(w, d)}) <= 1

\* Once delivered, delivered: no late outcome of another attempt reopens the row.
DeliveredIsFinal ==
  [][\A d \in Deliveries : row[d].status = "DELIVERED" => row'[d].status = "DELIVERED"]_vars

\* A row marked delivered was taken by the endpoint.
DeliveredWasReceived ==
  \A d \in Deliveries : row[d].status = "DELIVERED" => taken[d] > 0

\* Every request sent is counted as an attempt before it is sent.  A delivery is given up
\* after maxAttempts of them, and there are no more but for those whose count was stale when
\* decided on, or lost in a crash: at most one for each other worker and each crash.  (A
\* worker that dies between the two writes that follow a refusal leaves the row FAILED with
\* attempts to spare.)
AttemptsAreCounted ==
  \A d \in Deliveries :
    /\ posts[d] <= row[d].attempts
    /\ row[d].attempts <= MaxAttempts + Cardinality(Workers) - 1 + MaxCrashes
    /\ row[d].status = "FAILED" /\ crashes = 0 /\ (\A w \in Workers : ~ AtWork(w, d))
         => row[d].attempts >= MaxAttempts
=============================================================================
