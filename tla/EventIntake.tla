----------------------------- MODULE EventIntake -----------------------------
(***************************************************************************)
(* Events of the Control Centre arriving at an application's adapter: the  *)
(* route POST /webhook-events (apps/api/src/routes/control.ts) and the     *)
(* poll worker (apps/api/src/queues/webhookWorker.ts), which run the same  *)
(* four statements, each a transaction of its own.                         *)
(***************************************************************************)
EXTENDS Integers, Sequences, FiniteSets, SequencesExt

CONSTANTS
  Events,      \* idempotency keys
  Endpoints,   \* enabled webhook endpoints subscribed to them
  Pushes,      \* concurrent requests to the route
  Poller,      \* the poll worker, concurrency 1
  MaxCrashes,  \* bound: crashes of the process
  MaxFailures, \* bound: statements that fail in a running process
  NoEvent

VARIABLES
  received,    \* [Events -> controlCentreEvent.status, or "none"]
  local,       \* events with a webhookEvent row
  deliveries,  \* rows of webhook_deliveries there are: {<<event, endpoint>>}
  task,        \* [Pushes \union {Poller} -> the event at hand and the next statement]
  batch,       \* what the poll worker has still to do of its response
  answered,    \* events whose sender was told 201
  crashes,
  failures,
  stranded     \* events created whose carrier was lost before it marked them: history

vars == <<received, local, deliveries, task, batch, answered, crashes, failures, stranded>>

faults == <<crashes, failures, stranded>>

Actors == Pushes \union {Poller}

Idle == [event |-> NoEvent, step |-> "idle"]

At(a, step) == task[a].step = step

Then(a, step) == task' = [task EXCEPT ![a].step = step]

\* Mutants: the event is marked before its deliveries exist, or stored once more.
MarkFirst == "mark"
StoreAgain == "store"

\* The statement after the local event is created.
AfterCreate == "deliver"

\* createWebhookDeliveriesForEvent: every endpoint that subscribes.
Subscribed == Endpoints

\* Mutant: an event being processed is created again.
CreateAgain(e) == TRUE

\* webhook_events.idempotency_key is unique.
Creatable(e) == e \notin local

-----------------------------------------------------------------------------
Init ==
  /\ received = [e \in Events |-> "none"]
  /\ local = {}
  /\ deliveries = {}
  /\ task = [a \in Actors |-> Idle]
  /\ batch = <<>>
  /\ answered = {}
  /\ crashes = 0 /\ failures = 0 /\ stranded = {}

\* The Control Centre sends an event, and sends it again until it is told 201.
Push(a, e) ==
  /\ At(a, "idle")
  /\ e \notin answered
  /\ task' = [task EXCEPT ![a] = [event |-> e, step |-> "store"]]
  /\ UNCHANGED <<received, local, deliveries, batch, answered, faults>>

Batches == SetToSeqs(Events)

\* The poll worker is given some events, in some order.
Poll(s) ==
  /\ At(Poller, "idle")
  /\ batch = <<>>
  /\ batch' = s
  /\ UNCHANGED <<received, local, deliveries, task, answered, faults>>

NextOfBatch ==
  /\ At(Poller, "idle")
  /\ batch # <<>>
  /\ task' = [task EXCEPT ![Poller] = [event |-> Head(batch), step |-> "store"]]
  /\ batch' = Tail(batch)
  /\ UNCHANGED <<received, local, deliveries, answered, faults>>

\* upsert with an empty update
Store(a) ==
  /\ At(a, "store")
  /\ received' = [received EXCEPT ![task[a].event] = IF @ = "none" THEN "pending" ELSE @]
  /\ Then(a, "create")
  /\ UNCHANGED <<local, deliveries, batch, answered, faults>>

Create(a) ==
  /\ At(a, "create")
  /\ Creatable(task[a].event)
  /\ local' = local \union {task[a].event}
  /\ Then(a, AfterCreate)
  /\ UNCHANGED <<received, deliveries, batch, answered, faults>>

\* The unique key is taken: the route answers 500, the poll drops the rest of its batch.
CreateFails(a) ==
  /\ At(a, "create")
  /\ ~ Creatable(task[a].event)
  /\ task' = [task EXCEPT ![a] = Idle]
  /\ batch' = IF a = Poller THEN <<>> ELSE batch
  /\ UNCHANGED <<received, local, deliveries, answered, faults>>

\* createMany with skipDuplicates
Deliver(a) ==
  /\ At(a, "deliver")
  /\ deliveries' = deliveries \union {<<task[a].event, p>> : p \in Subscribed}
  /\ Then(a, "mark")
  /\ UNCHANGED <<received, local, batch, answered, faults>>

Mark(a) ==
  /\ At(a, "mark")
  /\ received' = [received EXCEPT ![task[a].event] = "processed"]
  /\ task' = [task EXCEPT ![a] = Idle]
  /\ answered' = IF a = Poller THEN answered ELSE answered \union {task[a].event}
  /\ UNCHANGED <<local, deliveries, batch, faults>>

\* An actor between the creation of its event's row and the end.
Past(a) == task[a].step \in {"deliver", "mark"}

\* What actors carry that the unique key keeps anyone from carrying on.
Unfinished(A) == {task[a].event : a \in {b \in A : Past(b)}}

\* A statement fails while the process lives and writes nothing: the route answers 500, the
\* poll drops the rest of its batch.
StatementFails(a) ==
  /\ failures < MaxFailures
  /\ ~ At(a, "idle")
  /\ failures' = failures + 1
  /\ stranded' = stranded \union Unfinished({a})
  /\ task' = [task EXCEPT ![a] = Idle]
  /\ batch' = IF a = Poller THEN <<>> ELSE batch
  /\ UNCHANGED <<received, local, deliveries, answered, crashes>>

\* The process dies and with it every request and the poll.
Crash ==
  /\ crashes < MaxCrashes
  /\ crashes' = crashes + 1
  /\ stranded' = stranded \union Unfinished(Actors)
  /\ task' = [a \in Actors |-> Idle]
  /\ batch' = <<>>
  /\ UNCHANGED <<received, local, deliveries, answered, failures>>

Step(a) == Store(a) \/ Create(a) \/ CreateFails(a) \/ Deliver(a) \/ Mark(a)

Next ==
  \/ \E a \in Pushes, e \in Events : Push(a, e)
  \/ \E s \in Batches : Poll(s)
  \/ NextOfBatch
  \/ \E a \in Actors : Step(a) \/ StatementFails(a)
  \/ Crash

-----------------------------------------------------------------------------
(* Properties.                                                             *)

\* Every variable has its type.
TypeOK ==
  /\ received \in [Events -> {"none", "pending", "processed"}]
  /\ local \in SUBSET Events
  /\ deliveries \in SUBSET (Events \X Endpoints)
  /\ task \in [Actors -> [event : Events \union {NoEvent},
                          step : {"idle", "store", "create", "deliver", "mark"}]]
  /\ batch \in Seq(Events)
  /\ answered \in SUBSET Events
  /\ crashes \in 0..MaxCrashes /\ failures \in 0..MaxFailures
  /\ stranded \in SUBSET Events

\* An event marked processed, or answered 201, has a delivery for every endpoint: the
\* Control Centre may forget it.
ProcessedIsRelayed ==
  \A e \in Events :
    /\ received[e] = "processed" => \A p \in Endpoints : <<e, p>> \in deliveries
    /\ e \in answered => received[e] = "processed"

\* One actor at most is past the creation of an event, however many requests and polls
\* carry it: its deliveries are not made twice.
CreatedOnce ==
  \A e \in Events :
    Cardinality({a \in Actors : task[a].event = e /\ Past(a)}) <= 1

\* An event that arrived is processed in the end.
ReceivedIsProcessed ==
  \A e \in Events : received[e] = "pending" ~> received[e] = "processed"

\* So it is unless its carrier is lost, in a crash or by a statement that fails, between the
\* creation of its row and its mark.  Every other carrier may fail, on the unique key or before
\* it, and leave the event to the next.
ReceivedIsProcessedUnlessStranded ==
  \A e \in Events : received[e] = "pending" ~> received[e] = "processed" \/ e \in stranded
=============================================================================
