------------------------------- MODULE Relay -------------------------------
(***************************************************************************)
(* The adapter as a relay: events come in from the Control Centre          *)
(* (EventIntake), and the deliveries they make go out to the application's *)
(* endpoints (WebhookDelivery).  The two meet in webhook_deliveries: a row  *)
(* here is a delivery there once createMany has inserted it.  They live    *)
(* in one process (apps/api/src/index.ts) and die together.                *)
(***************************************************************************)
EXTENDS Integers, Sequences, FiniteSets

CONSTANTS Events, Endpoints, Pushes, Poller, Workers, MaxAttempts, MaxCrashes, MaxFailures,
          NoEvent, NoDelivery

ASSUME RelayAssumption ==
  /\ IsFiniteSet(Events)
  /\ IsFiniteSet(Workers)
  /\ Poller \notin Pushes
  /\ MaxAttempts \in Nat \ {0}
  /\ MaxCrashes \in Nat
  /\ MaxFailures \in Nat

VARIABLES received, local, task, batch, answered, failures, stranded, row, worker, taken, posts,
  crashes

intakeVars == <<received, local, task, batch, answered, failures, stranded>>
deliveryVars == <<worker, taken, posts>>
vars == <<intakeVars, deliveryVars, row, crashes>>

Rows == Events \X Endpoints

Intake == INSTANCE EventIntake WITH deliveries <- {d \in Rows : row[d].status # "none"}

Delivery == INSTANCE WebhookDelivery WITH Deliveries <- Rows

Init == Delivery!Init /\ Intake!Init

\* The rows a step of the intake leaves: as they are, or with those of one event.
RowsAfterIntake ==
  {row} \union {Delivery!Inserted({e} \X Endpoints) : e \in Events}

\* An intake step writes webhook_deliveries and nothing else of the delivery's.
Alongside(step) == row' \in RowsAfterIntake /\ step /\ UNCHANGED deliveryVars

IntakeStep(a) == Alongside(Intake!Step(a))

NextOfBatch == Alongside(Intake!NextOfBatch)

StatementFails(a) == Alongside(Intake!StatementFails(a))

Push(e) == Alongside(\E a \in Pushes : Intake!Push(a, e))

\* The process dies with every request, the poll, and those workers it runs.
Crash ==
  /\ UNCHANGED <<row, taken, posts>>
  /\ Intake!Crash
  /\ \E W \in SUBSET Workers :
       worker' = [w \in Workers |-> IF w \in W THEN Delivery!Idle ELSE worker[w]]

Next ==
  \/ \E e \in Events : Push(e)
  \/ Alongside(\E s \in Intake!Batches : Intake!Poll(s))
  \/ NextOfBatch
  \/ \E a \in Intake!Actors : IntakeStep(a) \/ StatementFails(a)
  \/ Delivery!Next /\ UNCHANGED intakeVars
  \/ Crash

Spec == Init /\ [][Next]_vars

\* A running process finishes the requests it has begun or fails them, a bounded number of
\* times, and the Control Centre repeats an event until it is answered with success.  Nothing
\* makes the workers run: no job is ever added to their queues but by BullMQ's own repetition.
Fairness ==
  /\ \A a \in Intake!Actors : WF_vars(IntakeStep(a))
  /\ WF_vars(NextOfBatch)
  /\ \A e \in Events : WF_vars(Push(e))

FairSpec == Spec /\ Fairness

-----------------------------------------------------------------------------
(* Properties: those of the two parts, and of the whole.                   *)

\* Every variable has its type.
TypeOK == Intake!TypeOK /\ Delivery!TypeOK

\* See EventIntake: one actor makes an event's deliveries.
CreatedOnce == Intake!CreatedOnce

\* See EventIntake: events are processed in the end, and so they are unless their carrier is
\* lost half-way.
ReceivedIsProcessed == Intake!ReceivedIsProcessed
ReceivedIsProcessedUnlessStranded == Intake!ReceivedIsProcessedUnlessStranded

\* See WebhookDelivery: the lease keeps workers apart.
OneWorkerPerDelivery == Delivery!OneWorkerPerDelivery

\* See WebhookDelivery: no late outcome reopens a delivery.
DeliveredIsFinal == Delivery!DeliveredIsFinal

\* See WebhookDelivery: attempts are counted before they are made, and used up
\* before a delivery is given up.
AttemptsAreCounted == Delivery!AttemptsAreCounted

\* The actors keep apart: one makes an event's deliveries, one at a time attempts each, and
\* none is attempted uncounted.
ActorsKeepApart == CreatedOnce /\ OneWorkerPerDelivery /\ AttemptsAreCounted

\* From end to end: a processed event has a delivery for every endpoint; what a sender was
\* told is safe has reached the endpoint, or a row says that it has still to or that it was
\* given up; and nothing reaches an endpoint that was not stored first.
NothingLostNothingInvented ==
  /\ Intake!ProcessedIsRelayed
  /\ Delivery!DeliveredWasReceived
  /\ \A e \in Events, p \in Endpoints :
       /\ e \in answered => \/ taken[<<e, p>>] > 0
                            \/ row[<<e, p>>].status \in {"PENDING", "RETRYING", "FAILED"}
       /\ taken[<<e, p>>] > 0 => received[e] # "none" /\ e \in local
=============================================================================
