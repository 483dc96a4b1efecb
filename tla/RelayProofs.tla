----------------------------- MODULE RelayProofs -----------------------------
(***************************************************************************)
(* Proofs about Relay: no event is stored twice, no delivery attempted     *)
(* twice at a time or uncounted, none lost and none reopened, for any      *)
(* number of events, endpoints, requests, workers and crashes.             *)
(***************************************************************************)
EXTENDS Relay, FiniteSetTheorems, TLAPS

Actors == Intake!Actors

-----------------------------------------------------------------------------
(* The inductive invariant.                                                *)

\* An actor between the creation of its event's row and the end.
Past(a) == task[a].step \in {"deliver", "mark"}

\* What a request or the poll may rely on at each of its statements.
TaskHolds(a) ==
  LET e == task[a].event
  IN  /\ task[a].step # "idle" => e \in Events
      /\ task[a].step \in {"create", "deliver", "mark"} => received[e] # "none"
      /\ Past(a) => e \in local
      /\ task[a].step = "mark" => \A p \in Endpoints : row[<<e, p>>].status # "none"

IntakeInv ==
  /\ \A a \in Actors : TaskHolds(a)
  /\ \A a, b \in Actors : Past(a) /\ Past(b) /\ task[a].event = task[b].event => a = b
  /\ Intake!ProcessedIsRelayed
  /\ \A e \in Events, p \in Endpoints :
       row[<<e, p>>].status # "none" => received[e] # "none" /\ e \in local

Open(d) == row[d].status \in {"PENDING", "RETRYING"}

AtWork(w, d) == Delivery!AtWork(w, d)

\* What a worker may rely on at each of its steps.  A refusal leaves its row FAILED, which
\* nobody takes, until the catch has written it again.
WorkHolds(w) ==
  LET d == worker[w].delivery
  IN  /\ worker[w].step # "idle" => d \in Rows /\ row[d].status # "none"
      /\ worker[w].step = "read" => worker[w].seen <= row[d].attempts
      /\ AtWork(w, d) => /\ worker[w].seen < row[d].attempts
                         /\ \/ Open(d) /\ row[d].lease = "valid"
                            \/ row[d].status = "FAILED" /\ worker[w].step = "failing"
      /\ worker[w].step = "posting" => posts[d] < row[d].attempts
      /\ worker[w].step = "accepted" => taken[d] > 0

\* What a row tells whoever reads it.
RowHolds(d) ==
  /\ posts[d] <= row[d].attempts
  /\ row[d].status = "DELIVERED" => taken[d] > 0
  /\ taken[d] > 0 => row[d].status # "none"
  /\ row[d].status = "FAILED" /\ crashes = 0 /\ (\A w \in Workers : ~ AtWork(w, d))
       => row[d].attempts >= MaxAttempts

WorkInv ==
  /\ \A w \in Workers : WorkHolds(w)
  /\ \A d \in Rows : RowHolds(d)
  /\ \A v, w \in Workers, d \in Rows : AtWork(v, d) /\ AtWork(w, d) => v = w

\* Readers that believe a delivery has attempts left after the next.
Hopeful(d) ==
  {w \in Workers : /\ worker[w].step = "read" /\ worker[w].delivery = d
                   /\ ~ Delivery!Exhausted(worker[w].seen)}

\* No attempt follows the one at hand, unless it crashes.
Closing(d) ==
  IF \E w \in Workers : AtWork(w, d)
  THEN \E w \in Workers : AtWork(w, d) /\ Delivery!Exhausted(worker[w].seen)
  ELSE row[d].status \in {"DELIVERED", "FAILED"}

\* Once the next attempt ought to be the last, only a hopeful reader or a crash adds one more.
Budget(d) ==
  row[d].attempts > 0 /\ row[d].attempts >= MaxAttempts - 1
    => row[d].attempts + Cardinality(Hopeful(d))
         <= MaxAttempts - 1 + (Cardinality(Workers) - 1) + crashes
              + (IF Closing(d) THEN 1 ELSE 0)

BudgetInv == \A d \in Rows : Budget(d)

RelayInv == TypeOK /\ IntakeInv /\ WorkInv /\ BudgetInv

-----------------------------------------------------------------------------
(* Lemmas.                                                                 *)

\* A set whose elements are all equal has at most one.
LEMMA AtMostOne ==
  ASSUME NEW S, \A x, y \in S : x = y
  PROVE  Cardinality(S) <= 1
<1>1. CASE S = {}
  BY <1>1, FS_EmptySet
<1>2. CASE S # {}
  <2>1. PICK x \in S : TRUE
    BY <1>2
  <2>2. S = {x}
    BY <2>1
  <2>. QED
    BY <2>2, FS_Singleton
<1>. QED
  BY <1>1, <1>2

LEMMA InitRelay == Init => RelayInv
<1>. SUFFICES ASSUME Init PROVE RelayInv
  OBVIOUS
<1>. USE DEF Init, Delivery!Init, Intake!Init
<1>1. TypeOK
  BY RelayAssumption
  DEF TypeOK, Intake!TypeOK, Delivery!TypeOK, Delivery!NoRow, Delivery!Idle, Intake!Idle,
      Delivery!Statuses, Delivery!Leases, Delivery!Steps
<1>2. IntakeInv
  BY DEF IntakeInv, TaskHolds, Past, Intake!ProcessedIsRelayed, Intake!Idle, Actors,
         Delivery!NoRow, Rows
<1>3. WorkInv
  BY DEF WorkInv, WorkHolds, RowHolds, AtWork, Delivery!AtWork, Delivery!Idle, Delivery!NoRow
<1>4. BudgetInv
  BY DEF BudgetInv, Budget, Delivery!NoRow
<1>. QED
  BY <1>1, <1>2, <1>3, <1>4 DEF RelayInv

-----------------------------------------------------------------------------
(* Steps of the intake.                                                    *)

\* createMany inserts rows that were not there, and changes no other.
LEMMA RowsGrow ==
  ASSUME TypeOK, row' \in RowsAfterIntake
  PROVE  /\ row' \in [Rows -> [status : Delivery!Statuses, lease : Delivery!Leases,
                               attempts : Nat]]
         /\ \A d \in Rows :
              \/ row'[d] = row[d]
              \/ /\ row[d] = Delivery!NoRow
                 /\ row'[d].status = "PENDING" /\ row'[d].attempts = 0
<1>1. CASE row' = row
  BY <1>1 DEF TypeOK, Delivery!TypeOK
<1>2. ASSUME NEW e \in Events, row' = Delivery!Inserted({e} \X Endpoints)
      PROVE  /\ row' \in [Rows -> [status : Delivery!Statuses, lease : Delivery!Leases,
                                   attempts : Nat]]
             /\ \A d \in Rows :
                  \/ row'[d] = row[d]
                  \/ /\ row[d] = Delivery!NoRow
                     /\ row'[d].status = "PENDING" /\ row'[d].attempts = 0
  BY <1>2 DEF TypeOK, Delivery!TypeOK, Delivery!Inserted, Delivery!NoRow, Delivery!Statuses,
              Delivery!Leases
<1>. QED
  BY <1>1, <1>2 DEF RowsAfterIntake

\* New rows are nobody's yet: the workers notice nothing.
LEMMA IntakeSparesWork ==
  ASSUME TypeOK, WorkInv, BudgetInv, row' \in RowsAfterIntake,
         UNCHANGED <<worker, taken, posts, crashes>>
  PROVE  WorkInv' /\ BudgetInv'
<1>1. \A d \in Rows :
        \/ row'[d] = row[d]
        \/ /\ row[d].status = "none" /\ row[d].attempts = 0
           /\ row'[d].status = "PENDING" /\ row'[d].attempts = 0
  BY RowsGrow DEF Delivery!NoRow
<1>2. \A w \in Workers : \A d : AtWork(w, d)' <=> AtWork(w, d)
  BY DEF AtWork, Delivery!AtWork
<1>3. ASSUME NEW w \in Workers
      PROVE  WorkHolds(w)'
  <2>1. WorkHolds(w)
    BY DEF WorkInv
  <2>2. CASE worker[w].step = "idle"
    BY <2>2 DEF WorkHolds, AtWork, Delivery!AtWork
  <2>3. CASE worker[w].step # "idle"
    <3>1. row'[worker[w].delivery] = row[worker[w].delivery]
      BY <1>1, <2>1, <2>3 DEF WorkHolds
    <3>. QED
      BY <2>1, <3>1 DEF WorkHolds, AtWork, Delivery!AtWork, Open
  <2>. QED
    BY <2>2, <2>3
<1>4. ASSUME NEW d \in Rows
      PROVE  RowHolds(d)'
  <2>1. RowHolds(d)
    BY DEF WorkInv
  <2>. QED
    BY <1>1, <1>2, <2>1 DEF RowHolds
<1>5. ASSUME NEW d \in Rows
      PROVE  Budget(d)'
  <2>1. Budget(d)
    BY DEF BudgetInv
  <2>2. CASE row'[d] = row[d]
    <3>1. Hopeful(d)' = Hopeful(d) /\ (Closing(d)' <=> Closing(d))
      BY <2>2 DEF Hopeful, Closing, AtWork, Delivery!AtWork, Delivery!Exhausted
    <3>. QED
      BY <2>1, <2>2, <3>1 DEF Budget
  <2>3. CASE row'[d].attempts = 0
    BY <2>3 DEF Budget
  <2>. QED
    BY <1>1, <2>2, <2>3
<1>6. WorkInv'
  BY <1>2, <1>3, <1>4 DEF WorkInv
<1>. QED
  BY <1>5, <1>6 DEF BudgetInv

\* The rows there are: what the intake knows of webhook_deliveries.
Existing == {d \in Rows : row[d].status # "none"}

\* A step that starts a request or the next event of a batch stores nothing.
LEMMA StartsKeep ==
  ASSUME TypeOK, IntakeInv, NEW a \in Actors, NEW e \in Events, task[a].step = "idle",
         task' = [task EXCEPT ![a] = [event |-> e, step |-> "store"]],
         UNCHANGED <<received, local, answered>>, Existing' = Existing
  PROVE  IntakeInv'
<1>1. task \in [Actors -> [event : Events \union {NoEvent},
                          step : {"idle", "store", "create", "deliver", "mark"}]]
  BY DEF TypeOK, Intake!TypeOK, Actors
<1>2. /\ task'[a] = [event |-> e, step |-> "store"]
      /\ \A b \in Actors : b # a => task'[b] = task[b]
  BY <1>1
<1>3. \A d \in Rows : row'[d].status # "none" <=> row[d].status # "none"
  BY DEF Existing
<1>4. \A b \in Actors : TaskHolds(b)'
  BY <1>2, <1>3 DEF IntakeInv, TaskHolds, Past, Rows
<1>5. \A b \in Actors : Past(b)' => Past(b) /\ task'[b] = task[b]
  BY <1>2 DEF Past
<1>6. Intake!ProcessedIsRelayed'
  BY <1>3 DEF IntakeInv, Intake!ProcessedIsRelayed, Rows
<1>. QED
  BY <1>3, <1>4, <1>5, <1>6 DEF IntakeInv, Rows, Actors, Intake!Actors

\* A statement of an actor's own moves its task, and stores for its event alone.
LEMMA StepKeeps ==
  ASSUME TypeOK, IntakeInv, NEW a \in Actors, Intake!Step(a), row' \in RowsAfterIntake
  PROVE  IntakeInv'
<1>. DEFINE e == task[a].event
<1>1. task \in [Actors -> [event : Events \union {NoEvent},
                          step : {"idle", "store", "create", "deliver", "mark"}]]
      /\ received \in [Events -> {"none", "pending", "processed"}]
  BY DEF TypeOK, Intake!TypeOK, Actors
<1>2. TaskHolds(a)
  BY DEF IntakeInv
<1>3. task[a].step # "idle" /\ e \in Events
  BY <1>2 DEF Intake!Step, Intake!Store, Intake!Create, Intake!CreateFails, Intake!Deliver,
         Intake!Mark, Intake!At, TaskHolds
<1>4. /\ \A b \in Actors : b # a => task'[b] = task[b]
      /\ task'[a].event = e \/ task'[a].step = "idle"
  BY <1>1 DEF Intake!Step, Intake!Store, Intake!Create, Intake!CreateFails, Intake!Deliver,
         Intake!Mark, Intake!Then, Intake!Idle
<1>5. \A d \in Rows : row[d].status # "none" => row'[d].status # "none"
  BY RowsGrow DEF Delivery!NoRow
<1>6. \A f \in Events : /\ received[f] # "none" => received'[f] # "none"
                        /\ received[f] = "processed" => received'[f] = "processed"
                        /\ f \in local => f \in local'
  BY <1>1, <1>3 DEF Intake!Step, Intake!Store, Intake!Create, Intake!CreateFails,
         Intake!Deliver, Intake!Mark
<1>7. \A b \in Actors : b # a => TaskHolds(b)'
  <2>. SUFFICES ASSUME NEW b \in Actors, b # a
                PROVE  TaskHolds(b)'
    OBVIOUS
  <2>1. TaskHolds(b) /\ task'[b] = task[b]
    BY <1>4 DEF IntakeInv
  <2>. QED
    BY <1>5, <1>6, <2>1 DEF TaskHolds, Past, Rows
<1>8. CASE Intake!Store(a)
  <2>1. /\ task'[a] = [task[a] EXCEPT !.step = "create"]
        /\ received' = [received EXCEPT ![e] = IF @ = "none" THEN "pending" ELSE @]
        /\ task[a].step = "store" /\ local' = local /\ answered' = answered
        /\ Existing' = Existing
    BY <1>1, <1>8 DEF Intake!Store, Intake!Then, Intake!At, Existing, Rows
  <2>2. task'[a].step = "create" /\ task'[a].event = e /\ received'[e] # "none"
    BY <1>1, <1>3, <2>1
  <2>3. \A d \in Rows : row'[d].status # "none" <=> row[d].status # "none"
    BY <2>1 DEF Existing
  <2>4. TaskHolds(a)'
    BY <1>3, <2>2 DEF TaskHolds, Past
  <2>5. \A b \in Actors : Past(b)' => Past(b) /\ task'[b] = task[b]
    BY <1>4, <2>2 DEF Past
  <2>6. \A f \in Events : received'[f] = "processed" <=> received[f] = "processed"
    BY <1>1, <1>3, <2>1
  <2>7. Intake!ProcessedIsRelayed'
    BY <2>1, <2>3, <2>6 DEF IntakeInv, Intake!ProcessedIsRelayed, Rows
  <2>. QED
    BY <1>6, <1>7, <2>3, <2>4, <2>5, <2>7 DEF IntakeInv, Actors, Intake!Actors, Rows
<1>9. CASE Intake!Create(a)
  <2>1. /\ task'[a] = [task[a] EXCEPT !.step = "deliver"]
        /\ task[a].step = "create" /\ e \notin local /\ local' = local \union {e}
        /\ received' = received /\ answered' = answered /\ Existing' = Existing
    BY <1>1, <1>9 DEF Intake!Create, Intake!Then, Intake!At, Existing, Rows,
                      Intake!Creatable, Intake!AfterCreate
  <2>2. task'[a].step = "deliver" /\ task'[a].event = e
    BY <1>1, <2>1
  <2>3. \A d \in Rows : row'[d].status # "none" <=> row[d].status # "none"
    BY <2>1 DEF Existing
  <2>4. TaskHolds(a)'
    BY <1>2, <1>3, <2>1, <2>2 DEF TaskHolds, Past
  <2>5. \A b \in Actors : b # a /\ Past(b)' => task'[b].event # e
    BY <1>4, <2>1 DEF IntakeInv, TaskHolds, Past
  <2>6. \A b, c \in Actors :
          Past(b)' /\ Past(c)' /\ task'[b].event = task'[c].event => b = c
    BY <1>4, <2>2, <2>5 DEF IntakeInv, Past
  <2>7. Intake!ProcessedIsRelayed'
    BY <2>1, <2>3 DEF IntakeInv, Intake!ProcessedIsRelayed, Rows
  <2>. QED
    BY <1>6, <1>7, <2>3, <2>4, <2>6, <2>7 DEF IntakeInv, Actors, Intake!Actors, Rows
<1>10. CASE Intake!CreateFails(a)
  <2>1. /\ task'[a].step = "idle"
        /\ local' = local /\ received' = received /\ answered' = answered
        /\ Existing' = Existing
    BY <1>1, <1>10 DEF Intake!CreateFails, Intake!Idle, Existing, Rows
  <2>2. \A d \in Rows : row'[d].status # "none" <=> row[d].status # "none"
    BY <2>1 DEF Existing
  <2>3. TaskHolds(a)'
    BY <2>1 DEF TaskHolds, Past
  <2>4. \A b \in Actors : Past(b)' => Past(b) /\ task'[b] = task[b]
    BY <1>4, <2>1 DEF Past
  <2>5. Intake!ProcessedIsRelayed'
    BY <2>1, <2>2 DEF IntakeInv, Intake!ProcessedIsRelayed, Rows
  <2>. QED
    BY <1>6, <1>7, <2>2, <2>3, <2>4, <2>5 DEF IntakeInv, Actors, Intake!Actors, Rows
<1>11. CASE Intake!Deliver(a)
  <2>1. /\ task'[a] = [task[a] EXCEPT !.step = "mark"]
        /\ task[a].step = "deliver"
        /\ local' = local /\ received' = received /\ answered' = answered
        /\ Existing' = Existing \union {<<e, p>> : p \in Endpoints}
    BY <1>1, <1>11 DEF Intake!Deliver, Intake!Then, Intake!At, Intake!Subscribed, Existing,
                       Rows
  <2>2. task'[a].step = "mark" /\ task'[a].event = e /\ Past(a)
    BY <1>1, <2>1 DEF Past
  <2>3. /\ \A p \in Endpoints : row'[<<e, p>>].status # "none"
        /\ \A f \in Events, p \in Endpoints :
             row'[<<f, p>>].status # "none" => f = e \/ row[<<f, p>>].status # "none"
    <3>1. \A p \in Endpoints : <<e, p>> \in Existing'
      BY <2>1
    <3>2. \A f \in Events, p \in Endpoints :
            <<f, p>> \in Existing' => f = e \/ <<f, p>> \in Existing
      BY <2>1
    <3>. QED
      BY <3>1, <3>2 DEF Existing, Rows
  <2>4. TaskHolds(a)'
    BY <1>2, <1>3, <2>1, <2>2, <2>3 DEF TaskHolds, Past
  <2>5. \A b \in Actors : Past(b)' => Past(b) /\ task'[b].event = task[b].event
    BY <1>4, <2>2 DEF Past
  <2>6. Intake!ProcessedIsRelayed'
    BY <1>5, <2>1 DEF IntakeInv, Intake!ProcessedIsRelayed, Rows
  <2>7. received[e] # "none" /\ e \in local
    BY <1>2, <2>1 DEF TaskHolds, Past
  <2>. QED
    BY <1>7, <2>1, <2>3, <2>4, <2>5, <2>6, <2>7 DEF IntakeInv, Actors, Intake!Actors, Rows
<1>12. CASE Intake!Mark(a)
  <2>1. /\ task'[a].step = "idle" /\ task[a].step = "mark"
        /\ received' = [received EXCEPT ![e] = "processed"]
        /\ local' = local /\ answered' \in {answered, answered \union {e}}
        /\ Existing' = Existing
    BY <1>1, <1>12 DEF Intake!Mark, Intake!Idle, Intake!At, Existing, Rows
  <2>2. \A d \in Rows : row'[d].status # "none" <=> row[d].status # "none"
    BY <2>1 DEF Existing
  <2>3. TaskHolds(a)'
    BY <2>1 DEF TaskHolds, Past
  <2>4. \A b \in Actors : Past(b)' => Past(b) /\ task'[b] = task[b]
    BY <1>4, <2>1 DEF Past
  <2>5. \A p \in Endpoints : row[<<e, p>>].status # "none"
    BY <1>2, <2>1 DEF TaskHolds
  <2>6. received'[e] = "processed" /\ \A f \in Events : f # e => received'[f] = received[f]
    BY <1>1, <1>3, <2>1
  <2>7. Intake!ProcessedIsRelayed'
    BY <2>1, <2>2, <2>5, <2>6 DEF IntakeInv, Intake!ProcessedIsRelayed, Rows
  <2>. QED
    BY <1>6, <1>7, <2>2, <2>3, <2>4, <2>7 DEF IntakeInv, Actors, Intake!Actors, Rows
<1>. QED
  BY <1>8, <1>9, <1>10, <1>11, <1>12 DEF Intake!Step

\* A statement that fails ends its actor's task and stores nothing.
LEMMA FailureKeeps ==
  ASSUME TypeOK, IntakeInv, NEW a \in Actors, Intake!StatementFails(a), row' \in RowsAfterIntake
  PROVE  IntakeInv'
<1>1. /\ task' = [task EXCEPT ![a] = Intake!Idle]
      /\ UNCHANGED <<received, local, answered>> /\ Existing' = Existing
  BY DEF Intake!StatementFails, Existing
<1>2. /\ task'[a].step = "idle"
      /\ \A b \in Actors : b # a => task'[b] = task[b]
  BY <1>1 DEF TypeOK, Intake!TypeOK, Actors, Intake!Idle
<1>3. \A d \in Rows : row'[d].status # "none" <=> row[d].status # "none"
  BY <1>1 DEF Existing
<1>4. \A b \in Actors : TaskHolds(b)'
  BY <1>1, <1>2, <1>3 DEF IntakeInv, TaskHolds, Past, Rows
<1>5. \A b \in Actors : Past(b)' => Past(b) /\ task'[b] = task[b]
  BY <1>2 DEF Past
<1>6. Intake!ProcessedIsRelayed'
  BY <1>1, <1>3 DEF IntakeInv, Intake!ProcessedIsRelayed, Rows
<1>. QED
  BY <1>1, <1>3, <1>4, <1>5, <1>6 DEF IntakeInv, Rows, Actors, Intake!Actors

-----------------------------------------------------------------------------
(* Steps of the workers.                                                   *)

\* A worker that has taken up a delivery moves on, or is done with it.
Moves(w, d) ==
  /\ worker[w].delivery = d /\ worker[w].step # "idle"
  /\ worker'[w] = Delivery!Idle \/ /\ worker'[w].delivery = d
                                   /\ worker'[w].seen = worker[w].seen
                                   /\ worker'[w].step \notin {"idle", "read"}
  /\ \A v \in Workers : v # w => worker'[v] = worker[v]
  /\ \A x \in Rows : x # d => /\ row'[x] = row[x]
                              /\ posts'[x] = posts[x] /\ taken'[x] = taken[x]
  /\ crashes' = crashes

\* Rows that exist go on existing, and no others appear: the intake notices nothing.
LEMMA WorkSparesIntake ==
  ASSUME IntakeInv, UNCHANGED intakeVars,
         \A d \in Rows : row'[d].status # "none" <=> row[d].status # "none"
  PROVE  IntakeInv'
BY DEF IntakeInv, TaskHolds, Past, Intake!ProcessedIsRelayed, Actors, Intake!Actors, Rows,
       intakeVars

\* A row that may be taken is nobody's.
LEMMA TakeableIsFree ==
  ASSUME WorkInv, NEW d \in Rows, Delivery!Takeable(row[d])
  PROVE  \A w \in Workers : ~ AtWork(w, d)
<1>. SUFFICES ASSUME NEW w \in Workers, AtWork(w, d)
              PROVE  FALSE
  OBVIOUS
<1>1. WorkHolds(w) /\ worker[w].delivery = d
  BY DEF WorkInv, AtWork, Delivery!AtWork
<1>. QED
  BY <1>1 DEF WorkHolds, Delivery!Takeable, Open

\* A worker alone at a delivery disturbs no other, and no other row.
LEMMA OneWorkerMoves ==
  ASSUME TypeOK, WorkInv, NEW w \in Workers, NEW d \in Rows, Moves(w, d),
         \A v \in Workers : v # w => ~ AtWork(v, d),
         row'[d].status # "none",
         row'[d].attempts \in Nat, row[d].attempts <= row'[d].attempts,
         WorkHolds(w)', RowHolds(d)'
  PROVE  WorkInv'
<1>1. \A v \in Workers : \A x : v # w => (AtWork(v, x)' <=> AtWork(v, x))
  BY DEF Moves, AtWork, Delivery!AtWork
<1>2. \A x : AtWork(w, x) \/ AtWork(w, x)' => x = d
  BY DEF Moves, AtWork, Delivery!AtWork, Delivery!Idle
<1>3. ASSUME NEW v \in Workers, v # w
      PROVE  WorkHolds(v)'
  <2>1. WorkHolds(v) /\ worker'[v] = worker[v]
    BY <1>3 DEF WorkInv, Moves
  <2>2. CASE worker[v].step = "idle"
    BY <2>1, <2>2 DEF WorkHolds, AtWork, Delivery!AtWork
  <2>3. CASE worker[v].step # "idle" /\ worker[v].delivery # d
    <3>1. LET x == worker[v].delivery
          IN  row'[x] = row[x] /\ posts'[x] = posts[x] /\ taken'[x] = taken[x]
      BY <2>1, <2>3 DEF WorkHolds, Moves
    <3>. QED
      BY <2>1, <3>1 DEF WorkHolds, AtWork, Delivery!AtWork, Open
  <2>4. CASE worker[v].step # "idle" /\ worker[v].delivery = d
    <3>1. worker[v].step \notin {"posting", "accepted", "refused", "failing"}
      BY <1>3, <2>4 DEF AtWork, Delivery!AtWork
    <3>2. worker[v].seen \in Nat /\ row[d].attempts \in Nat
      BY DEF TypeOK, Delivery!TypeOK
    <3>3. worker[v].step = "read" => worker[v].seen <= row[d].attempts
      BY <2>1, <2>4 DEF WorkHolds
    <3>4. worker[v].step = "read" => worker[v].seen <= row'[d].attempts
      BY <3>2, <3>3
    <3>. QED
      BY <2>1, <2>4, <3>1, <3>4 DEF WorkHolds, AtWork, Delivery!AtWork
  <2>. QED
    BY <2>2, <2>3, <2>4
<1>4. ASSUME NEW x \in Rows, x # d
      PROVE  RowHolds(x)'
  <2>1. RowHolds(x)
    BY DEF WorkInv
  <2>2. \A v \in Workers : AtWork(v, x)' <=> AtWork(v, x)
    BY <1>1, <1>2, <1>4
  <2>. QED
    BY <1>4, <2>1, <2>2 DEF RowHolds, Moves
<1>5. \A u, v \in Workers, x \in Rows : AtWork(u, x)' /\ AtWork(v, x)' => u = v
  BY <1>1, <1>2 DEF WorkInv
<1>. QED
  BY <1>3, <1>4, <1>5 DEF WorkInv

\* Workers that stop leave everything as it is; one that was at work stops by a crash.
LEMMA WorkersStop ==
  ASSUME TypeOK, WorkInv, UNCHANGED <<row, taken, posts>>,
         \A v \in Workers : worker'[v] \in {worker[v], Delivery!Idle},
         \/ crashes' = crashes + 1
         \/ /\ crashes' = crashes
            /\ \A v \in Workers, x \in Rows : AtWork(v, x)' <=> AtWork(v, x)
  PROVE  WorkInv'
<1>1. \A v \in Workers : \A x : AtWork(v, x)' => AtWork(v, x) /\ worker'[v] = worker[v]
  BY DEF AtWork, Delivery!AtWork, Delivery!Idle
<1>2. ASSUME NEW v \in Workers
      PROVE  WorkHolds(v)'
  <2>1. WorkHolds(v)
    BY DEF WorkInv
  <2>2. CASE worker'[v] = worker[v]
    BY <2>1, <2>2 DEF WorkHolds, AtWork, Delivery!AtWork, Open
  <2>3. CASE worker'[v] = Delivery!Idle
    BY <2>3 DEF WorkHolds, AtWork, Delivery!AtWork, Delivery!Idle
  <2>. QED
    BY <2>2, <2>3
<1>3. ASSUME NEW x \in Rows
      PROVE  RowHolds(x)'
  <2>1. RowHolds(x) /\ crashes \in Nat
    BY DEF WorkInv, TypeOK, Intake!TypeOK
  <2>2. CASE crashes' = crashes + 1
    BY <2>1, <2>2 DEF RowHolds
  <2>3. CASE crashes' = crashes /\ \A v \in Workers : AtWork(v, x)' <=> AtWork(v, x)
    BY <2>1, <2>3 DEF RowHolds
  <2>. QED
    BY <2>2, <2>3
<1>. QED
  BY <1>1, <1>2, <1>3 DEF WorkInv

\* A worker that looks at a row learns how often it was attempted.
LEMMA ReadKeeps ==
  ASSUME TypeOK, WorkInv, NEW w \in Workers, NEW d \in Rows, Delivery!ReadRow(w, d)
  PROVE  WorkInv'
<1>1. /\ worker[w].step = "idle" /\ row[d].status # "none"
      /\ worker'[w] = [step |-> "read", delivery |-> d, seen |-> row[d].attempts]
      /\ \A v \in Workers : v # w => worker'[v] = worker[v]
      /\ UNCHANGED <<row, taken, posts, crashes>>
      /\ row[d].attempts \in Nat
  BY DEF Delivery!ReadRow, Delivery!At, TypeOK, Delivery!TypeOK
<1>2. \A v \in Workers : \A x : AtWork(v, x)' <=> AtWork(v, x)
  BY <1>1 DEF AtWork, Delivery!AtWork
<1>3. WorkHolds(w)'
  BY <1>1 DEF WorkHolds, AtWork, Delivery!AtWork
<1>4. ASSUME NEW v \in Workers, v # w
      PROVE  WorkHolds(v)'
  BY <1>1, <1>4 DEF WorkInv, WorkHolds, AtWork, Delivery!AtWork, Open
<1>5. \A x \in Rows : RowHolds(x)'
  BY <1>1, <1>2 DEF WorkInv, RowHolds
<1>. QED
  BY <1>2, <1>3, <1>4, <1>5 DEF WorkInv

\* A lease runs out under nobody's hands.
LEMMA LeaseKeeps ==
  ASSUME TypeOK, WorkInv, NEW d \in Rows, Delivery!LeaseRunsOut(d)
  PROVE  WorkInv'
<1>1. /\ \A v \in Workers : ~ AtWork(v, d)
      /\ UNCHANGED <<worker, taken, posts, crashes>>
      /\ \A x \in Rows : /\ row'[x].status = row[x].status
                         /\ row'[x].attempts = row[x].attempts
                         /\ x # d => row'[x] = row[x]
  BY DEF Delivery!LeaseRunsOut, AtWork, TypeOK, Delivery!TypeOK
<1>2. \A v, x : AtWork(v, x)' <=> AtWork(v, x)
  BY <1>1 DEF AtWork, Delivery!AtWork
<1>3. ASSUME NEW v \in Workers
      PROVE  WorkHolds(v)'
  <2>1. WorkHolds(v)
    BY DEF WorkInv
  <2>2. AtWork(v, worker[v].delivery) => worker[v].delivery # d
    BY <1>1
  <2>. QED
    BY <1>1, <1>2, <2>1, <2>2 DEF WorkHolds, Open, AtWork, Delivery!AtWork
<1>4. \A x \in Rows : RowHolds(x)'
  BY <1>1, <1>2 DEF WorkInv, RowHolds
<1>. QED
  BY <1>2, <1>3, <1>4 DEF WorkInv

\* What a step of a worker at a delivery leaves, told in one place.
Acts(w) ==
  \/ Delivery!TakeLease(w) \/ Delivery!Post(w) \/ Delivery!RecordSuccess(w)
  \/ Delivery!RecordRefusal(w) \/ Delivery!RecordFails(w) \/ Delivery!RecordFailure(w)

LEMMA ActsMove ==
  ASSUME TypeOK, WorkInv, NEW w \in Workers, Acts(w)
  PROVE  LET d == worker[w].delivery
         IN  /\ d \in Rows /\ row[d].status # "none" /\ Moves(w, d)
             /\ row'[d].status \in Delivery!Statuses \ {"none"}
             /\ row'[d].lease \in Delivery!Leases
             /\ row'[d].attempts =
                  row[d].attempts + (IF Delivery!TakeLease(w) THEN 1 ELSE 0)
             /\ \A v \in Workers : v # w => ~ AtWork(v, d)
             /\ AtWork(w, d) \/ (Delivery!TakeLease(w) /\ worker[w].step = "read")
<1>. DEFINE d == worker[w].delivery
<1>1. worker[w].step # "idle"
  BY DEF Acts, Delivery!TakeLease, Delivery!Post, Delivery!RecordSuccess, Delivery!At,
         Delivery!RecordRefusal, Delivery!RecordFails, Delivery!RecordFailure
<1>2. d \in Rows /\ row[d].status # "none"
  BY <1>1 DEF WorkInv, WorkHolds
<1>3. /\ row \in [Rows -> [status : Delivery!Statuses, lease : Delivery!Leases, attempts : Nat]]
      /\ taken \in [Rows -> Nat] /\ posts \in [Rows -> Nat]
      /\ worker \in [Workers -> [step : Delivery!Steps, delivery : Rows \union {NoDelivery},
                                 seen : Nat]]
  BY DEF TypeOK, Delivery!TypeOK
<1>4. CASE Delivery!TakeLease(w)
  <2>1. /\ row' = [row EXCEPT ![d].lease = "valid", ![d].attempts = @ + 1]
        /\ worker' = [worker EXCEPT ![w].step = "posting"]
        /\ worker[w].step = "read" /\ Delivery!Takeable(row[d])
        /\ UNCHANGED <<taken, posts, crashes>>
    BY <1>4 DEF Delivery!TakeLease, Delivery!Goes, Delivery!Counted, Delivery!At
  <2>2. Moves(w, d)
    BY <1>1, <1>3, <2>1 DEF Moves
  <2>3. row'[d] = [row[d] EXCEPT !.lease = "valid", !.attempts = @ + 1]
    BY <1>2, <1>3, <2>1
  <2>4. \A v \in Workers : ~ AtWork(v, d)
    BY <1>2, <2>1, TakeableIsFree
  <2>. QED
    BY <1>2, <1>3, <1>4, <2>1, <2>2, <2>3, <2>4 DEF Delivery!Statuses, Delivery!Leases
<1>5. CASE ~ Delivery!TakeLease(w)
  <2>1. AtWork(w, d)
    BY <1>5 DEF Acts, Delivery!Post, Delivery!RecordSuccess, Delivery!At, Delivery!AtWork,
           Delivery!RecordRefusal, Delivery!RecordFails, Delivery!RecordFailure, AtWork
  <2>2. \A v \in Workers : v # w => ~ AtWork(v, d)
    BY <1>2, <2>1 DEF WorkInv
  <2>3. CASE Delivery!Post(w) \/ Delivery!RecordFails(w)
    <3>1. /\ row' = row /\ crashes' = crashes
          /\ \E st \in {"accepted", "refused", "failing"} :
               worker' = [worker EXCEPT ![w].step = st]
          /\ posts' \in {posts, [posts EXCEPT ![d] = @ + 1]}
          /\ taken' \in {taken, [taken EXCEPT ![d] = @ + 1]}
      BY <2>3 DEF Delivery!Post, Delivery!RecordFails, Delivery!Goes
    <3>2. Moves(w, d)
      BY <1>1, <1>3, <3>1 DEF Moves
    <3>. QED
      BY <1>2, <1>3, <1>5, <2>1, <2>2, <3>1, <3>2
  <2>4. CASE Delivery!RecordSuccess(w) \/ Delivery!RecordFailure(w)
    <3>1. /\ crashes' = crashes /\ UNCHANGED <<taken, posts>>
          /\ worker' = [worker EXCEPT ![w] = Delivery!Idle]
          /\ \E st \in {"DELIVERED", "FAILED", "RETRYING"} :
               row' = [row EXCEPT ![d].status = st, ![d].lease = "none"]
      BY <2>4 DEF Delivery!RecordSuccess, Delivery!RecordFailure, Delivery!AnswerStatus
    <3>2. Moves(w, d)
      BY <1>1, <1>3, <3>1 DEF Moves
    <3>3. \E st \in {"DELIVERED", "FAILED", "RETRYING"} :
            row'[d] = [row[d] EXCEPT !.status = st, !.lease = "none"]
      BY <1>2, <1>3, <3>1
    <3>. QED
      BY <1>2, <1>3, <1>5, <2>1, <2>2, <3>2, <3>3 DEF Delivery!Statuses, Delivery!Leases
  <2>5. CASE Delivery!RecordRefusal(w)
    <3>1. /\ crashes' = crashes /\ UNCHANGED <<taken, posts>>
          /\ worker' = [worker EXCEPT ![w].step = "failing"]
          /\ row' \in {row, [row EXCEPT ![d].status = "FAILED", ![d].lease = "none"]}
      BY <2>5 DEF Delivery!RecordRefusal, Delivery!AnswerStatus, Delivery!Goes
    <3>2. Moves(w, d)
      BY <1>1, <1>3, <3>1 DEF Moves
    <3>3. \/ row'[d] = row[d]
          \/ row'[d] = [row[d] EXCEPT !.status = "FAILED", !.lease = "none"]
      BY <1>2, <1>3, <3>1
    <3>4. row[d] \in [status : Delivery!Statuses, lease : Delivery!Leases, attempts : Nat]
      BY <1>2, <1>3
    <3>5. row'[d].attempts = row[d].attempts /\ row[d].attempts \in Nat
      BY <3>3, <3>4
    <3>6. row'[d].status \in Delivery!Statuses \ {"none"} /\ row'[d].lease \in Delivery!Leases
      BY <1>2, <3>3, <3>4 DEF Delivery!Statuses, Delivery!Leases
    <3>. QED
      BY <1>2, <1>5, <2>1, <2>2, <3>2, <3>5, <3>6
  <2>. QED
    BY <1>5, <2>3, <2>4, <2>5 DEF Acts
<1>. QED
  BY <1>4, <1>5

LEMMA ActsKeep ==
  ASSUME TypeOK, WorkInv, NEW w \in Workers, Acts(w)
  PROVE  WorkInv'
<1>0. PICK d \in Rows : d = worker[w].delivery
  BY ActsMove
<1>1. /\ d \in Rows /\ worker[w].delivery = d /\ row[d].status # "none" /\ Moves(w, d)
      /\ row'[d].status \in Delivery!Statuses \ {"none"}
      /\ row'[d].attempts = row[d].attempts + (IF Delivery!TakeLease(w) THEN 1 ELSE 0)
      /\ \A v \in Workers : v # w => ~ AtWork(v, d)
  BY <1>0, ActsMove
<1>2. /\ row \in [Rows -> [status : Delivery!Statuses, lease : Delivery!Leases, attempts : Nat]]
      /\ taken \in [Rows -> Nat] /\ posts \in [Rows -> Nat]
      /\ worker \in [Workers -> [step : Delivery!Steps, delivery : Rows \union {NoDelivery},
                                 seen : Nat]]
      /\ MaxAttempts \in Nat \ {0}
  BY RelayAssumption DEF TypeOK, Delivery!TypeOK
<1>3. /\ row[d].attempts \in Nat /\ posts[d] \in Nat /\ taken[d] \in Nat
      /\ worker[w].seen \in Nat
      /\ row'[d].attempts \in Nat /\ row[d].attempts <= row'[d].attempts
  BY <1>1, <1>2
<1>4. WorkHolds(w) /\ RowHolds(d)
  BY <1>1 DEF WorkInv
<1>5. ASSUME WorkHolds(w)', RowHolds(d)'
      PROVE  WorkInv'
  BY <1>1, <1>3, <1>5, OneWorkerMoves
<1>. SUFFICES WorkHolds(w)' /\ RowHolds(d)'
  BY <1>5
<1>6. CASE Delivery!TakeLease(w)
  <2>1. /\ worker[w].step = "read" /\ Delivery!Takeable(row[d])
        /\ worker' = [worker EXCEPT ![w].step = "posting"]
        /\ row' = [row EXCEPT ![d].lease = "valid", ![d].attempts = @ + 1]
        /\ UNCHANGED <<taken, posts, crashes>>
    BY <1>1, <1>6 DEF Delivery!TakeLease, Delivery!Goes, Delivery!Counted, Delivery!At
  <2>2. /\ row'[d] = [row[d] EXCEPT !.lease = "valid", !.attempts = @ + 1]
        /\ worker'[w] = [worker[w] EXCEPT !.step = "posting"]
    BY <1>1, <1>2, <2>1
  <2>3. row'[d].attempts = row[d].attempts + 1 /\ Open(d)' /\ row'[d].lease = "valid"
    BY <1>1, <1>2, <2>1, <2>2 DEF Open, Delivery!Takeable
  <2>4. WorkHolds(w)'
    BY <1>1, <1>2, <1>3, <1>4, <2>1, <2>2, <2>3 DEF WorkHolds, RowHolds, AtWork, Delivery!AtWork
  <2>5. RowHolds(d)'
    BY <1>1, <1>2, <1>3, <1>4, <2>1, <2>3 DEF RowHolds, Open, Delivery!Takeable
  <2>. QED
    BY <2>4, <2>5
<1>7. CASE Delivery!Post(w)
  <2>1. /\ worker[w].step = "posting" /\ row' = row /\ crashes' = crashes
        /\ posts' = [posts EXCEPT ![d] = @ + 1]
        /\ \/ /\ worker' = [worker EXCEPT ![w].step = "accepted"]
              /\ taken' = [taken EXCEPT ![d] = @ + 1]
           \/ /\ worker' = [worker EXCEPT ![w].step = "failing"]
              /\ taken' \in {taken, [taken EXCEPT ![d] = @ + 1]}
           \/ /\ worker' = [worker EXCEPT ![w].step = "refused"] /\ taken' = taken
    BY <1>1, <1>7 DEF Delivery!Post, Delivery!Goes, Delivery!At
  <2>2. /\ posts'[d] = posts[d] + 1 /\ taken'[d] \in {taken[d], taken[d] + 1}
        /\ worker'[w].seen = worker[w].seen /\ worker'[w].delivery = d
        /\ worker'[w].step \in {"accepted", "failing", "refused"}
        /\ worker'[w].step = "accepted" => taken'[d] > 0
    BY <1>1, <1>2, <1>3, <2>1
  <2>3. /\ worker[w].seen < row[d].attempts /\ posts[d] < row[d].attempts
        /\ Open(d) /\ row[d].lease = "valid"
    BY <1>1, <1>4, <2>1 DEF WorkHolds, AtWork, Delivery!AtWork
  <2>4. WorkHolds(w)'
    BY <1>1, <2>1, <2>2, <2>3 DEF WorkHolds, AtWork, Delivery!AtWork, Open
  <2>5. RowHolds(d)'
    BY <1>1, <1>3, <1>4, <2>1, <2>2, <2>3 DEF RowHolds, Open
  <2>. QED
    BY <2>4, <2>5
<1>8. CASE Delivery!RecordSuccess(w)
  <2>1. /\ worker[w].step = "accepted" /\ worker'[w] = Delivery!Idle
        /\ row' = [row EXCEPT ![d].status = "DELIVERED", ![d].lease = "none"]
        /\ UNCHANGED <<taken, posts, crashes>>
    BY <1>1, <1>2, <1>8 DEF Delivery!RecordSuccess, Delivery!At, Delivery!AnswerStatus
  <2>2. row'[d] = [row[d] EXCEPT !.status = "DELIVERED", !.lease = "none"]
    BY <1>1, <1>2, <2>1
  <2>3. row'[d].status = "DELIVERED" /\ row'[d].attempts = row[d].attempts /\ taken[d] > 0
    BY <1>1, <1>2, <1>4, <2>1, <2>2 DEF WorkHolds
  <2>. QED
    BY <1>1, <1>4, <2>1, <2>3 DEF WorkHolds, RowHolds, AtWork, Delivery!AtWork, Delivery!Idle
<1>9. CASE Delivery!RecordRefusal(w)
  <2>1. /\ worker[w].step = "refused"
        /\ worker' = [worker EXCEPT ![w].step = "failing"]
        /\ row' \in {row, [row EXCEPT ![d].status = "FAILED", ![d].lease = "none"]}
        /\ UNCHANGED <<taken, posts, crashes>>
    BY <1>1, <1>9 DEF Delivery!RecordRefusal, Delivery!At, Delivery!AnswerStatus, Delivery!Goes
  <2>2. /\ worker'[w].step = "failing" /\ worker'[w].seen = worker[w].seen
        /\ worker'[w].delivery = d
    BY <1>1, <1>2, <2>1
  <2>3. \/ row'[d] = row[d]
        \/ row'[d].status = "FAILED" /\ row'[d].attempts = row[d].attempts
    BY <1>1, <1>2, <2>1
  <2>4. worker[w].seen < row[d].attempts /\ Open(d) /\ row[d].lease = "valid"
    BY <1>1, <1>4, <2>1 DEF WorkHolds, AtWork, Delivery!AtWork
  <2>5. WorkHolds(w)'
    BY <1>1, <2>2, <2>3, <2>4 DEF WorkHolds, AtWork, Delivery!AtWork, Open
  <2>6. AtWork(w, d)'
    BY <2>2 DEF AtWork, Delivery!AtWork
  <2>7. RowHolds(d)'
    BY <1>1, <1>4, <2>1, <2>3, <2>4, <2>6 DEF RowHolds, Open
  <2>. QED
    BY <2>5, <2>7
<1>10. CASE Delivery!RecordFails(w)
  <2>1. /\ worker[w].step \in {"accepted", "refused"} /\ UNCHANGED <<row, taken, posts, crashes>>
        /\ worker'[w].step = "failing" /\ worker'[w].seen = worker[w].seen
        /\ worker'[w].delivery = d
    BY <1>1, <1>2, <1>10 DEF Delivery!RecordFails, Delivery!Goes
  <2>2. worker[w].seen < row[d].attempts /\ Open(d) /\ row[d].lease = "valid"
    BY <1>1, <1>4, <2>1 DEF WorkHolds, AtWork, Delivery!AtWork
  <2>3. WorkHolds(w)'
    BY <1>1, <2>1, <2>2 DEF WorkHolds, AtWork, Delivery!AtWork, Open
  <2>4. RowHolds(d)'
    BY <1>1, <1>4, <2>1, <2>2 DEF RowHolds, Open
  <2>. QED
    BY <2>3, <2>4
<1>11. CASE Delivery!RecordFailure(w)
  <2>1. /\ worker[w].step = "failing" /\ worker'[w] = Delivery!Idle
        /\ row' = [row EXCEPT ![d].status =
                      IF Delivery!Exhausted(worker[w].seen) THEN "FAILED" ELSE "RETRYING",
                    ![d].lease = "none"]
        /\ UNCHANGED <<taken, posts, crashes>>
    BY <1>1, <1>2, <1>11 DEF Delivery!RecordFailure, Delivery!At
  <2>2. /\ row'[d].attempts = row[d].attempts
        /\ row'[d].status = IF Delivery!Exhausted(worker[w].seen) THEN "FAILED" ELSE "RETRYING"
    BY <1>1, <1>2, <2>1
  <2>3. worker[w].seen < row[d].attempts
    BY <1>1, <1>4, <2>1 DEF WorkHolds, AtWork, Delivery!AtWork
  <2>4. row'[d].status = "FAILED" => row'[d].attempts >= MaxAttempts
    BY <1>2, <1>3, <2>2, <2>3 DEF Delivery!Exhausted
  <2>. QED
    BY <1>1, <1>4, <2>1, <2>2, <2>4
    DEF WorkHolds, RowHolds, AtWork, Delivery!AtWork, Delivery!Idle
<1>. QED
  BY <1>6, <1>7, <1>8, <1>9, <1>10, <1>11 DEF Acts

-----------------------------------------------------------------------------
(* The attempts there may still be.                                        *)

LEMMA HopefulAreWorkers ==
  ASSUME NEW d
  PROVE  /\ IsFiniteSet(Hopeful(d)) /\ Cardinality(Hopeful(d)) \in Nat
         /\ Cardinality(Workers) \in Nat
         /\ Cardinality(Hopeful(d)) <= Cardinality(Workers)
<1>1. Hopeful(d) \subseteq Workers /\ IsFiniteSet(Workers)
  BY RelayAssumption DEF Hopeful
<1>. QED
  BY <1>1, FS_Subset, FS_CardinalityType

\* As long as nobody takes a lease of it, a delivery keeps within its budget when no reader
\* becomes hopeful and what was the last attempt remains so, or crashes.
LEMMA BudgetStays ==
  ASSUME TypeOK, NEW d \in Rows, Budget(d), row'[d].attempts = row[d].attempts,
         Hopeful(d)' \subseteq Hopeful(d),
         \/ crashes' = crashes + 1
         \/ crashes' = crashes /\ (Closing(d) => Closing(d)')
  PROVE  Budget(d)'
<1>1. /\ IsFiniteSet(Hopeful(d)) /\ Cardinality(Hopeful(d)) \in Nat
      /\ Cardinality(Workers) \in Nat
  BY HopefulAreWorkers
<1>2. Cardinality(Hopeful(d)') <= Cardinality(Hopeful(d)) /\ Cardinality(Hopeful(d)') \in Nat
  BY <1>1, FS_Subset, FS_CardinalityType
<1>3. crashes \in Nat /\ row[d].attempts \in Nat /\ MaxAttempts \in Nat
  BY RelayAssumption DEF TypeOK, Intake!TypeOK, Delivery!TypeOK
<1>4. Cardinality(Hopeful(d))' = Cardinality(Hopeful(d)')
  OBVIOUS
<1>. DEFINE h == Cardinality(Hopeful(d))
            k == Cardinality(Hopeful(d)')
            n == Cardinality(Workers)
<1>5. h \in Nat /\ k \in Nat /\ n \in Nat /\ k <= h
  BY <1>1, <1>2
<1>6. row[d].attempts > 0 /\ row[d].attempts >= MaxAttempts - 1
        => row[d].attempts + h
             <= MaxAttempts - 1 + (n - 1) + crashes + (IF Closing(d) THEN 1 ELSE 0)
  BY DEF Budget
<1>. HIDE DEF h, k, n
<1>7. row[d].attempts > 0 /\ row[d].attempts >= MaxAttempts - 1
        => row[d].attempts + k
             <= MaxAttempts - 1 + (n - 1) + crashes' + (IF Closing(d)' THEN 1 ELSE 0)
  BY <1>3, <1>5, <1>6
<1>. QED
  BY <1>4, <1>7 DEF Budget, k, n

\* Taking a lease uses up one of the hopeful, or is the last attempt.
LEMMA TakeLeaseBudget ==
  ASSUME TypeOK, WorkInv, BudgetInv, NEW w \in Workers, NEW d \in Rows,
         d = worker[w].delivery, Delivery!TakeLease(w)
  PROVE  Budget(d)'
<1>1. /\ worker[w].step = "read" /\ Delivery!Takeable(row[d])
      /\ worker' = [worker EXCEPT ![w].step = "posting"]
      /\ row' = [row EXCEPT ![d].lease = "valid", ![d].attempts = @ + 1]
      /\ crashes' = crashes
  BY DEF Delivery!TakeLease, Delivery!Goes, Delivery!Counted, Delivery!At
<1>2. /\ worker'[w] = [worker[w] EXCEPT !.step = "posting"]
      /\ \A v \in Workers : v # w => worker'[v] = worker[v]
      /\ worker[w].seen \in Nat /\ worker'[w].seen = worker[w].seen
      /\ worker'[w].delivery = d /\ worker'[w].step = "posting"
      /\ row[d].attempts \in Nat /\ row'[d].attempts = row[d].attempts + 1
      /\ crashes \in Nat /\ MaxAttempts \in Nat \ {0}
  BY <1>1, RelayAssumption DEF TypeOK, Delivery!TypeOK, Intake!TypeOK
<1>3. \A v \in Workers : ~ AtWork(v, d)
  BY <1>1, TakeableIsFree
<1>4. ~ Closing(d)
  BY <1>1, <1>3 DEF Closing, Delivery!Takeable
<1>5. /\ AtWork(w, d)'
      /\ \A v \in Workers : v # w => ~ AtWork(v, d)'
  BY <1>2, <1>3 DEF AtWork, Delivery!AtWork
<1>6. Closing(d)' <=> worker[w].seen + 1 >= MaxAttempts
  BY <1>2, <1>5 DEF Closing, Delivery!Exhausted
<1>7. Hopeful(d)' = Hopeful(d) \ {w}
  <2>1. \A v : v \in Hopeful(d)' <=> v \in Hopeful(d) /\ v # w
    BY <1>2 DEF Hopeful, Delivery!Exhausted
  <2>. QED
    BY <2>1
<1>8. w \in Hopeful(d) <=> ~ (worker[w].seen + 1 >= MaxAttempts)
  BY <1>1 DEF Hopeful, Delivery!Exhausted
<1>9. worker[w].seen <= row[d].attempts
  BY <1>1 DEF WorkInv, WorkHolds
<1>10. MaxAttempts = 1 => Hopeful(d) = {}
  BY DEF Hopeful, Delivery!Exhausted, TypeOK, Delivery!TypeOK
<1>. DEFINE h == Cardinality(Hopeful(d))
            k == Cardinality(Hopeful(d)')
            n == Cardinality(Workers)
<1>11. h \in Nat /\ n \in Nat /\ IsFiniteSet(Hopeful(d)) /\ IsFiniteSet(Workers)
  BY HopefulAreWorkers, RelayAssumption
<1>12. k \in Nat /\ k = IF w \in Hopeful(d) THEN h - 1 ELSE h
  <2>1. CASE w \in Hopeful(d)
    BY <1>7, <1>11, <2>1, FS_RemoveElement, FS_CardinalityType
  <2>2. CASE w \notin Hopeful(d)
    <3>1. Hopeful(d)' = Hopeful(d)
      BY <1>7, <2>2
    <3>. QED
      BY <1>11, <2>2, <3>1
  <2>. QED
    BY <2>1, <2>2
<1>13. k <= n - 1
  <2>1. /\ IsFiniteSet(Workers \ {w}) /\ Cardinality(Workers \ {w}) = n - 1
    BY <1>11, FS_RemoveElement
  <2>2. Hopeful(d)' \subseteq Workers \ {w}
    BY <1>7 DEF Hopeful
  <2>. QED
    BY <2>1, <2>2, FS_Subset
<1>14. MaxAttempts = 1 => k = 0
  BY <1>7, <1>10, FS_EmptySet
<1>15. row[d].attempts > 0 /\ row[d].attempts >= MaxAttempts - 1
         => row[d].attempts + h <= MaxAttempts - 1 + (n - 1) + crashes + 0
  BY <1>4 DEF BudgetInv, Budget
<1>. HIDE DEF h, k, n
<1>16. row[d].attempts + 1 >= MaxAttempts - 1
         => row[d].attempts + 1 + k
              <= MaxAttempts - 1 + (n - 1) + crashes + (IF Closing(d)' THEN 1 ELSE 0)
  BY <1>2, <1>6, <1>8, <1>9, <1>11, <1>12, <1>13, <1>14, <1>15
<1>. QED
  BY <1>1, <1>2, <1>16 DEF Budget, k, n

LEMMA ActsBudget ==
  ASSUME TypeOK, WorkInv, BudgetInv, NEW w \in Workers, Acts(w)
  PROVE  BudgetInv'
<1>0. PICK d \in Rows : d = worker[w].delivery
  BY ActsMove
<1>1. /\ Moves(w, d)
      /\ row'[d].attempts = row[d].attempts + (IF Delivery!TakeLease(w) THEN 1 ELSE 0)
      /\ \A v \in Workers : v # w => ~ AtWork(v, d)
      /\ AtWork(w, d) \/ Delivery!TakeLease(w)
  BY <1>0, ActsMove
<1>2. \A x : Hopeful(x)' \subseteq Hopeful(x)
  BY <1>1 DEF Moves, Hopeful, Delivery!Exhausted, Delivery!Idle
<1>3. ASSUME NEW x \in Rows, x # d
      PROVE  Budget(x)'
  <2>1. \A v \in Workers : /\ AtWork(v, x)' <=> AtWork(v, x)
                           /\ AtWork(v, x) => v # w /\ worker'[v] = worker[v]
    BY <1>1, <1>3 DEF Moves, AtWork, Delivery!AtWork, Delivery!Idle
  <2>2. row'[x] = row[x] /\ crashes' = crashes
    BY <1>1, <1>3 DEF Moves
  <2>3. Closing(x) => Closing(x)'
    BY <2>1, <2>2 DEF Closing, Delivery!Exhausted
  <2>. QED
    BY <1>2, <2>2, <2>3, BudgetStays DEF BudgetInv
<1>4. CASE Delivery!TakeLease(w)
  BY <1>0, <1>3, <1>4, TakeLeaseBudget DEF BudgetInv
<1>5. CASE ~ Delivery!TakeLease(w)
  <2>1. /\ AtWork(w, d) /\ crashes' = crashes
        /\ row'[d].attempts = row[d].attempts + 0
        /\ \A v \in Workers : v # w => ~ AtWork(v, d)'
    BY <1>1, <1>5 DEF Moves, AtWork, Delivery!AtWork
  <2>2. row'[d].attempts = row[d].attempts
    BY <2>1 DEF TypeOK, Delivery!TypeOK
  <2>3. Closing(d) => Delivery!Exhausted(worker[w].seen)
    BY <1>1, <2>1 DEF Closing
  <2>4. CASE Delivery!RecordSuccess(w) \/ Delivery!RecordFailure(w)
    <3>1. worker'[w] = Delivery!Idle
      BY <2>4 DEF Delivery!RecordSuccess, Delivery!RecordFailure, TypeOK, Delivery!TypeOK
    <3>2. \A v \in Workers : ~ AtWork(v, d)'
      BY <2>1, <3>1 DEF AtWork, Delivery!AtWork, Delivery!Idle
    <3>3. Delivery!Exhausted(worker[w].seen) => row'[d].status \in {"DELIVERED", "FAILED"}
      BY <1>0, <2>4 DEF Delivery!RecordSuccess, Delivery!RecordFailure, Delivery!AnswerStatus,
                        TypeOK, Delivery!TypeOK
    <3>4. Closing(d) => Closing(d)'
      BY <2>3, <3>2, <3>3 DEF Closing
    <3>. QED
      BY <1>2, <1>3, <2>1, <2>2, <3>4, BudgetStays DEF BudgetInv
  <2>5. CASE Delivery!Post(w) \/ Delivery!RecordFails(w) \/ Delivery!RecordRefusal(w)
    <3>1. \E st \in {"accepted", "refused", "failing"} :
            worker' = [worker EXCEPT ![w].step = st]
      BY <2>5 DEF Delivery!Post, Delivery!RecordFails, Delivery!RecordRefusal, Delivery!Goes
    <3>2. /\ worker'[w].seen = worker[w].seen /\ worker'[w].delivery = worker[w].delivery
          /\ worker'[w].step \in {"accepted", "refused", "failing"}
      BY <3>1 DEF TypeOK, Delivery!TypeOK
    <3>3. AtWork(w, d)' /\ Delivery!Exhausted(worker'[w].seen) = Delivery!Exhausted(worker[w].seen)
      BY <1>0, <3>2 DEF AtWork, Delivery!AtWork
    <3>4. Closing(d) => Closing(d)'
      BY <2>3, <3>2, <3>3 DEF Closing, Delivery!Exhausted
    <3>. QED
      BY <1>2, <1>3, <2>1, <2>2, <3>4, BudgetStays DEF BudgetInv
  <2>. QED
    BY <1>5, <2>4, <2>5 DEF Acts
<1>. QED
  BY <1>4, <1>5

\* Workers that stop, by a crash or because the lease is denied.
LEMMA WorkersStopBudget ==
  ASSUME TypeOK, BudgetInv, row' = row,
         \A v \in Workers : worker'[v] \in {worker[v], Delivery!Idle},
         \/ crashes' = crashes + 1
         \/ /\ crashes' = crashes
            /\ \A v \in Workers, x \in Rows : AtWork(v, x)' <=> AtWork(v, x)
  PROVE  BudgetInv'
<1>. SUFFICES ASSUME NEW d \in Rows
              PROVE  Budget(d)'
  BY DEF BudgetInv
<1>1. Hopeful(d)' \subseteq Hopeful(d)
  BY DEF Hopeful, Delivery!Exhausted, Delivery!Idle
<1>2. ASSUME \A v \in Workers : AtWork(v, d)' <=> AtWork(v, d)
      PROVE  Closing(d) => Closing(d)'
  <2>1. \A v \in Workers : AtWork(v, d)' => worker'[v] = worker[v]
    BY DEF AtWork, Delivery!AtWork, Delivery!Idle
  <2>. QED
    BY <1>2, <2>1 DEF Closing, Delivery!Exhausted
<1>. QED
  BY <1>1, <1>2, BudgetStays DEF BudgetInv

\* A reader that finds the last attempt due is not hopeful.
LEMMA ReadBudget ==
  ASSUME TypeOK, BudgetInv, NEW w \in Workers, NEW d \in Rows, Delivery!ReadRow(w, d)
  PROVE  BudgetInv'
<1>. SUFFICES ASSUME NEW x \in Rows
              PROVE  Budget(x)'
  BY DEF BudgetInv
<1>1. /\ worker[w].step = "idle"
      /\ worker'[w] = [step |-> "read", delivery |-> d, seen |-> row[d].attempts]
      /\ \A v \in Workers : v # w => worker'[v] = worker[v]
      /\ row' = row /\ crashes' = crashes
      /\ row[x].attempts \in Nat
      /\ MaxAttempts \in Nat \ {0}
  BY RelayAssumption DEF Delivery!ReadRow, Delivery!At, TypeOK, Delivery!TypeOK
<1>2. \A v \in Workers : /\ AtWork(v, x)' <=> AtWork(v, x)
                         /\ AtWork(v, x) => worker'[v] = worker[v]
  BY <1>1 DEF AtWork, Delivery!AtWork
<1>3. Closing(x) => Closing(x)'
  BY <1>1, <1>2 DEF Closing, Delivery!Exhausted
<1>4. CASE row[x].attempts >= MaxAttempts - 1
  <2>1. w \in Hopeful(x)' => FALSE
    BY <1>1, <1>4 DEF Hopeful, Delivery!Exhausted
  <2>2. Hopeful(x)' \subseteq Hopeful(x)
    BY <1>1, <2>1 DEF Hopeful, Delivery!Exhausted
  <2>. QED
    BY <1>1, <1>3, <2>2, BudgetStays DEF BudgetInv
<1>5. CASE ~ (row[x].attempts >= MaxAttempts - 1)
  BY <1>1, <1>5 DEF Budget
<1>. QED
  BY <1>4, <1>5

LEMMA LeaseBudget ==
  ASSUME TypeOK, BudgetInv, NEW d \in Rows, Delivery!LeaseRunsOut(d)
  PROVE  BudgetInv'
<1>. SUFFICES ASSUME NEW x \in Rows
              PROVE  Budget(x)'
  BY DEF BudgetInv
<1>1. /\ worker' = worker /\ crashes' = crashes
      /\ row'[x].status = row[x].status /\ row'[x].attempts = row[x].attempts
  BY DEF Delivery!LeaseRunsOut, TypeOK, Delivery!TypeOK
<1>2. Hopeful(x)' \subseteq Hopeful(x)
  BY <1>1 DEF Hopeful, Delivery!Exhausted
<1>3. Closing(x) => Closing(x)'
  BY <1>1 DEF Closing, AtWork, Delivery!AtWork, Delivery!Exhausted
<1>. QED
  BY <1>1, <1>2, <1>3, BudgetStays DEF BudgetInv

-----------------------------------------------------------------------------
(* Every step.                                                             *)

\* The parts count as the whole does.
LEMMA PartsCountAlike ==
  ASSUME NEW S
  PROVE  Intake!Cardinality(S) = Cardinality(S) /\ Delivery!Cardinality(S) = Cardinality(S)
BY DEF Intake!Cardinality, Delivery!Cardinality, Cardinality

\* A response of the Control Centre is a sequence of events.
LEMMA BatchesAreSequences == Intake!Batches \subseteq Seq(Events)
<1>1. Cardinality(Events) \in Nat
  BY RelayAssumption, FS_CardinalityType
<1>. QED
  BY <1>1, PartsCountAlike DEF Intake!Batches, Intake!SetToSeqs

\* Who is past the creation of a row carries an event.
LEMMA StrandedAreEvents ==
  ASSUME IntakeInv
  PROVE  \A A \in SUBSET Actors : Intake!Unfinished(A) \subseteq Events
BY DEF IntakeInv, TaskHolds, Intake!Unfinished, Intake!Past

LEMMA IntakeTypes ==
  ASSUME TypeOK, IntakeInv, row' \in RowsAfterIntake, UNCHANGED deliveryVars,
         \/ \E a \in Pushes, e \in Events : Intake!Push(a, e)
         \/ \E s \in Intake!Batches : Intake!Poll(s)
         \/ Intake!NextOfBatch
         \/ \E a \in Actors : Intake!Step(a) \/ Intake!StatementFails(a)
  PROVE  TypeOK'
<1>. USE DEF Actors
<1>1. /\ received \in [Events -> {"none", "pending", "processed"}]
      /\ local \in SUBSET Events
      /\ task \in [Actors -> [event : Events \union {NoEvent},
                              step : {"idle", "store", "create", "deliver", "mark"}]]
      /\ batch \in Seq(Events)
      /\ answered \in SUBSET Events
      /\ crashes \in 0..MaxCrashes /\ failures \in 0..MaxFailures
      /\ stranded \in SUBSET Events
  BY DEF TypeOK, Intake!TypeOK
<1>2. {x \in Rows : row[x].status # "none"}' \in SUBSET (Events \X Endpoints)
  BY DEF Rows
<1>3. Delivery!TypeOK'
  <2>1. crashes' = crashes
    BY DEF Intake!Push, Intake!Poll, Intake!NextOfBatch, Intake!Step, Intake!Store,
           Intake!Create, Intake!CreateFails, Intake!Deliver, Intake!Mark, Intake!StatementFails,
           Intake!faults
  <2>. QED
    BY <2>1, RowsGrow DEF deliveryVars, TypeOK, Delivery!TypeOK
<1>4. ASSUME NEW a \in Pushes, NEW e \in Events, Intake!Push(a, e)
      PROVE  Intake!TypeOK'
  BY <1>1, <1>2, <1>4 DEF Intake!Push, Intake!TypeOK, Intake!Actors, Intake!faults
<1>5. ASSUME NEW s \in Intake!Batches, Intake!Poll(s)
      PROVE  Intake!TypeOK'
  BY <1>1, <1>2, <1>5, BatchesAreSequences DEF Intake!Poll, Intake!TypeOK,
    Intake!faults
<1>6. ASSUME Intake!NextOfBatch
      PROVE  Intake!TypeOK'
  <2>1. Head(batch) \in Events /\ Tail(batch) \in Seq(Events)
    BY <1>1, <1>6 DEF Intake!NextOfBatch
  <2>. QED
    BY <1>1, <1>2, <1>6, <2>1 DEF Intake!NextOfBatch, Intake!TypeOK, Intake!Actors,
      Intake!faults
<1>7. ASSUME NEW a \in Actors, Intake!Step(a)
      PROVE  Intake!TypeOK'
  <2>. USE DEF Intake!faults
  <2>1. task[a].step # "idle" => task[a].event \in Events
    BY DEF IntakeInv, TaskHolds
  <2>2. CASE Intake!Store(a)
    BY <1>1, <1>2, <2>1, <2>2
    DEF Intake!Store, Intake!TypeOK, Intake!Then, Intake!At
  <2>3. CASE Intake!Create(a)
    BY <1>1, <1>2, <2>1, <2>3
    DEF Intake!Create, Intake!TypeOK, Intake!Then, Intake!At, Intake!AfterCreate
  <2>4. CASE Intake!CreateFails(a)
    BY <1>1, <1>2, <2>4 DEF Intake!CreateFails, Intake!TypeOK, Intake!Idle
  <2>5. CASE Intake!Deliver(a)
    BY <1>1, <1>2, <2>5 DEF Intake!Deliver, Intake!TypeOK, Intake!Then
  <2>6. CASE Intake!Mark(a)
    BY <1>1, <1>2, <2>1, <2>6 DEF Intake!Mark, Intake!TypeOK, Intake!At, Intake!Idle
  <2>. QED
    BY <1>7, <2>2, <2>3, <2>4, <2>5, <2>6 DEF Intake!Step
<1>8. ASSUME NEW a \in Actors, Intake!StatementFails(a)
      PROVE  Intake!TypeOK'
  <2>1. stranded' \in SUBSET Events /\ failures' \in 0..MaxFailures
    BY <1>1, <1>8, RelayAssumption, StrandedAreEvents DEF Intake!StatementFails
  <2>2. /\ task' \in [Actors -> [event : Events \union {NoEvent},
                               step : {"idle", "store", "create", "deliver", "mark"}]]
        /\ batch' \in Seq(Events)
    BY <1>1, <1>8 DEF Intake!StatementFails, Intake!Idle
  <2>3. UNCHANGED <<received, local, answered, crashes>>
    BY <1>8 DEF Intake!StatementFails
  <2>. QED
    BY <1>1, <1>2, <2>1, <2>2, <2>3 DEF Intake!TypeOK
<1>. QED
  BY <1>3, <1>4, <1>5, <1>6, <1>7, <1>8 DEF TypeOK

\* No step of the intake undoes a row, or what a worker relies on.
LEMMA IntakeKeeps ==
  ASSUME RelayInv, row' \in RowsAfterIntake, UNCHANGED deliveryVars,
         \/ \E a \in Pushes, e \in Events : Intake!Push(a, e)
         \/ \E s \in Intake!Batches : Intake!Poll(s)
         \/ Intake!NextOfBatch
         \/ \E a \in Actors : Intake!Step(a) \/ Intake!StatementFails(a)
  PROVE  RelayInv'
<1>. USE DEF RelayInv
<1>1. TypeOK'
  BY IntakeTypes
<1>2. WorkInv' /\ BudgetInv'
  <2>1. UNCHANGED <<worker, taken, posts, crashes>>
    BY DEF Intake!Push, Intake!Poll, Intake!NextOfBatch, Intake!Step, Intake!Store,
           Intake!Create, Intake!CreateFails, Intake!Deliver, Intake!Mark, Intake!StatementFails, Intake!faults,
           deliveryVars
  <2>. QED
    BY <2>1, IntakeSparesWork
<1>3. ASSUME NEW a \in Pushes, NEW e \in Events, Intake!Push(a, e)
      PROVE  IntakeInv'
  BY <1>3, StartsKeep DEF Intake!Push, Intake!At, Existing, Actors, Intake!Actors, Rows
<1>4. ASSUME NEW s \in Intake!Batches, Intake!Poll(s)
      PROVE  IntakeInv'
  <2>1. UNCHANGED <<received, local, task, answered>> /\ Existing' = Existing
    BY <1>4 DEF Intake!Poll, Existing
  <2>2. \A d \in Rows : row'[d].status # "none" <=> row[d].status # "none"
    BY <2>1 DEF Existing
  <2>. QED
    BY <2>1, <2>2 DEF IntakeInv, TaskHolds, Past, Intake!ProcessedIsRelayed, Actors,
                      Intake!Actors, Rows
<1>5. ASSUME Intake!NextOfBatch
      PROVE  IntakeInv'
  <2>1. Head(batch) \in Events
    BY <1>5 DEF Intake!NextOfBatch, TypeOK, Intake!TypeOK
  <2>. QED
    BY <1>5, <2>1, StartsKeep DEF Intake!NextOfBatch, Intake!At, Existing, Actors,
                                  Intake!Actors, Rows
<1>6. ASSUME NEW a \in Actors, Intake!Step(a)
      PROVE  IntakeInv'
  BY <1>6, StepKeeps
<1>7. ASSUME NEW a \in Actors, Intake!StatementFails(a)
      PROVE  IntakeInv'
  BY <1>7, FailureKeeps
<1>. QED
  BY <1>1, <1>2, <1>3, <1>4, <1>5, <1>6, <1>7

LEMMA WorkerTypes ==
  ASSUME TypeOK, WorkInv, UNCHANGED intakeVars,
         \/ \E w \in Workers : Delivery!WorkerStep(w)
         \/ \E d \in Rows : Delivery!LeaseRunsOut(d)
  PROVE  TypeOK' /\ crashes' \in {crashes, crashes + 1}
<1>. USE DEF Delivery!At, Delivery!Goes, Delivery!Idle, Delivery!Steps, Delivery!Statuses,
             Delivery!Leases
<1>1. /\ row \in [Rows -> [status : Delivery!Statuses, lease : Delivery!Leases, attempts : Nat]]
      /\ worker \in [Workers -> [step : Delivery!Steps, delivery : Rows \union {NoDelivery},
                                 seen : Nat]]
      /\ taken \in [Rows -> Nat] /\ posts \in [Rows -> Nat]
      /\ crashes \in 0..MaxCrashes /\ MaxCrashes \in Nat
  BY RelayAssumption DEF TypeOK, Delivery!TypeOK
<1>2. ASSUME Delivery!TypeOK', crashes' \in {crashes, crashes + 1}
      PROVE  TypeOK' /\ crashes' \in {crashes, crashes + 1}
  BY <1>2 DEF TypeOK, Intake!TypeOK, Delivery!TypeOK, intakeVars, Rows, Intake!Actors
<1>. SUFFICES Delivery!TypeOK' /\ crashes' \in {crashes, crashes + 1}
  BY <1>2
<1>3. ASSUME NEW w \in Workers, NEW d \in Rows, Delivery!ReadRow(w, d)
      PROVE  Delivery!TypeOK' /\ crashes' = crashes
  BY <1>1, <1>3 DEF Delivery!ReadRow, Delivery!TypeOK
<1>4. ASSUME NEW w \in Workers, Acts(w)
      PROVE  Delivery!TypeOK' /\ crashes' = crashes
  <2>1. worker[w].delivery \in Rows
    BY <1>4, ActsMove
  <2>2. CASE Delivery!TakeLease(w)
    BY <1>1, <2>1, <2>2 DEF Delivery!TakeLease, Delivery!TypeOK, Delivery!Counted
  <2>3. CASE Delivery!Post(w)
    BY <1>1, <2>1, <2>3 DEF Delivery!Post, Delivery!TypeOK
  <2>4. CASE Delivery!RecordSuccess(w)
    BY <1>1, <2>1, <2>4 DEF Delivery!RecordSuccess, Delivery!TypeOK, Delivery!AnswerStatus
  <2>5. CASE Delivery!RecordRefusal(w)
    <3>1. /\ UNCHANGED <<taken, posts, crashes>>
          /\ worker' = [worker EXCEPT ![w].step = "failing"]
          /\ \/ row' = row
             \/ row' = [row EXCEPT ![worker[w].delivery].status = "FAILED",
                                   ![worker[w].delivery].lease = "none"]
      BY <2>5 DEF Delivery!RecordRefusal, Delivery!AnswerStatus
    <3>2. worker' \in [Workers -> [step : Delivery!Steps, delivery : Rows \union {NoDelivery},
                                  seen : Nat]]
      BY <1>1, <3>1
    <3>3. row' \in [Rows -> [status : Delivery!Statuses, lease : Delivery!Leases,
                            attempts : Nat]]
      <4>1. CASE row' = row
        BY <1>1, <4>1
      <4>2. CASE row' = [row EXCEPT ![worker[w].delivery].status = "FAILED",
                                    ![worker[w].delivery].lease = "none"]
        BY <1>1, <2>1, <4>2
      <4>. QED
        BY <3>1, <4>1, <4>2
    <3>. QED
      BY <1>1, <3>1, <3>2, <3>3 DEF Delivery!TypeOK
  <2>6. CASE Delivery!RecordFails(w)
    BY <1>1, <2>6 DEF Delivery!RecordFails, Delivery!TypeOK
  <2>7. CASE Delivery!RecordFailure(w)
    BY <1>1, <2>1, <2>7 DEF Delivery!RecordFailure, Delivery!TypeOK
  <2>. QED
    BY <1>4, <2>2, <2>3, <2>4, <2>5, <2>6, <2>7 DEF Acts
<1>5. ASSUME NEW w \in Workers, Delivery!LeaseDenied(w) \/ Delivery!Crash(w)
      PROVE  Delivery!TypeOK' /\ crashes' \in {crashes, crashes + 1}
  BY <1>1, <1>5 DEF Delivery!LeaseDenied, Delivery!Crash, Delivery!TypeOK
<1>6. ASSUME NEW d \in Rows, Delivery!LeaseRunsOut(d)
      PROVE  Delivery!TypeOK' /\ crashes' = crashes
  BY <1>1, <1>6 DEF Delivery!LeaseRunsOut, Delivery!TypeOK
<1>. QED
  BY <1>3, <1>4, <1>5, <1>6 DEF Delivery!WorkerStep, Acts

\* No step of a worker, and no lease that runs out, undoes the invariant.
LEMMA WorkKeeps ==
  ASSUME RelayInv, Delivery!Next, UNCHANGED intakeVars
  PROVE  RelayInv'
<1>. USE DEF RelayInv
<1>1. TypeOK'
  BY WorkerTypes DEF Delivery!Next
<1>2. ASSUME WorkInv', BudgetInv',
             \A d \in Rows : row'[d].status # "none" <=> row[d].status # "none"
      PROVE  RelayInv'
  BY <1>1, <1>2, WorkSparesIntake
<1>3. ASSUME NEW w \in Workers, NEW d \in Rows, Delivery!ReadRow(w, d)
      PROVE  RelayInv'
  <2>1. row' = row
    BY <1>3 DEF Delivery!ReadRow
  <2>. QED
    BY <1>2, <1>3, <2>1, ReadKeeps, ReadBudget
<1>4. ASSUME NEW w \in Workers, Acts(w)
      PROVE  RelayInv'
  <2>1. \A d \in Rows : row'[d].status # "none" <=> row[d].status # "none"
    BY <1>4, ActsMove DEF Moves
  <2>. QED
    BY <1>2, <1>4, <2>1, ActsKeep, ActsBudget
<1>5. ASSUME NEW w \in Workers, Delivery!LeaseDenied(w)
      PROVE  RelayInv'
  <2>1. /\ UNCHANGED <<row, taken, posts, crashes>>
        /\ worker[w].step = "read" /\ worker' = [worker EXCEPT ![w] = Delivery!Idle]
    BY <1>5 DEF Delivery!LeaseDenied, Delivery!At
  <2>2. \A v \in Workers : /\ worker'[v] \in {worker[v], Delivery!Idle}
                           /\ \A x \in Rows : AtWork(v, x)' <=> AtWork(v, x)
    BY <2>1 DEF AtWork, Delivery!AtWork, Delivery!Idle, TypeOK, Delivery!TypeOK
  <2>. QED
    BY <1>2, <2>1, <2>2, WorkersStop, WorkersStopBudget
<1>6. ASSUME NEW w \in Workers, Delivery!Crash(w)
      PROVE  RelayInv'
  <2>1. /\ UNCHANGED <<row, taken, posts>> /\ crashes' = crashes + 1
        /\ \A v \in Workers : worker'[v] \in {worker[v], Delivery!Idle}
    BY <1>6 DEF Delivery!Crash, TypeOK, Delivery!TypeOK
  <2>. QED
    BY <1>2, <2>1, WorkersStop, WorkersStopBudget
<1>7. ASSUME NEW d \in Rows, Delivery!LeaseRunsOut(d)
      PROVE  RelayInv'
  <2>1. \A x \in Rows : row'[x].status = row[x].status
    BY <1>7 DEF Delivery!LeaseRunsOut, TypeOK, Delivery!TypeOK
  <2>. QED
    BY <1>2, <1>7, <2>1, LeaseKeeps, LeaseBudget
<1>. QED
  BY <1>3, <1>4, <1>5, <1>6, <1>7 DEF Delivery!Next, Delivery!WorkerStep, Acts

\* The process dies: the requests and the poll are forgotten, and what workers it ran.
LEMMA CrashKeeps ==
  ASSUME RelayInv, Crash
  PROVE  RelayInv'
<1>. USE DEF RelayInv
<1>1. /\ UNCHANGED <<row, taken, posts, received, local, answered, failures>>
      /\ stranded' = stranded \union Intake!Unfinished(Actors)
      /\ crashes < MaxCrashes /\ crashes' = crashes + 1
      /\ task' = [a \in Actors |-> Intake!Idle] /\ batch' = <<>>
      /\ \E W \in SUBSET Workers :
           worker' = [w \in Workers |-> IF w \in W THEN Delivery!Idle ELSE worker[w]]
  BY DEF Crash, Intake!Crash, Actors
<1>2. \A v \in Workers : worker'[v] \in {worker[v], Delivery!Idle}
  BY <1>1
<1>3. WorkInv' /\ BudgetInv'
  BY <1>1, <1>2, WorkersStop, WorkersStopBudget
<1>4. IntakeInv'
  BY <1>1 DEF IntakeInv, TaskHolds, Past, Intake!Idle, Actors, Intake!Actors,
              Intake!ProcessedIsRelayed, Rows
<1>5. TypeOK'
  <2>1. crashes' \in 0..MaxCrashes
    BY <1>1, RelayAssumption DEF TypeOK, Delivery!TypeOK
  <2>2. Intake!TypeOK'
    BY <1>1, <2>1, StrandedAreEvents
    DEF TypeOK, Intake!TypeOK, Intake!Idle, Actors, Intake!Actors, Rows
  <2>3. Delivery!TypeOK'
    BY <1>1, <2>1 DEF TypeOK, Delivery!TypeOK, Delivery!Idle, Delivery!Steps
  <2>. QED
    BY <2>2, <2>3 DEF TypeOK
<1>. QED
  BY <1>3, <1>4, <1>5

\* What a step of Next is, for the two invariants and for the steps below.
LEMMA StepsOfRelay ==
  ASSUME Next
  PROVE  \/ /\ row' \in RowsAfterIntake /\ UNCHANGED deliveryVars
            /\ \/ \E a \in Pushes, e \in Events : Intake!Push(a, e)
               \/ \E s \in Intake!Batches : Intake!Poll(s)
               \/ Intake!NextOfBatch
               \/ \E a \in Actors : Intake!Step(a) \/ Intake!StatementFails(a)
         \/ Delivery!Next /\ UNCHANGED intakeVars
         \/ Crash
BY DEF Next, Push, NextOfBatch, IntakeStep, StatementFails, Alongside, Actors

LEMMA StepRelay == RelayInv /\ [Next]_vars => RelayInv'
<1>1. RelayInv /\ Next => RelayInv'
  BY StepsOfRelay, IntakeKeeps, WorkKeeps, CrashKeeps
<1>2. ASSUME RelayInv, UNCHANGED vars
      PROVE  RelayInv'
  <2>1. UNCHANGED <<received, local, task, batch, answered, failures, stranded, worker, taken, posts,
                 row, crashes>>
    BY <1>2 DEF vars, intakeVars, deliveryVars
  <2>2. TypeOK'
    BY <1>2, <2>1 DEF RelayInv, TypeOK, Intake!TypeOK, Delivery!TypeOK, Intake!Actors
  <2>3. row' = row /\ UNCHANGED intakeVars
    BY <2>1 DEF intakeVars
  <2>4. IntakeInv'
    BY <1>2, <2>3, WorkSparesIntake DEF RelayInv
  <2>5. \A v \in Workers : /\ worker'[v] \in {worker[v], Delivery!Idle}
                           /\ \A x \in Rows : AtWork(v, x)' <=> AtWork(v, x)
    BY <2>1 DEF AtWork, Delivery!AtWork
  <2>. QED
    BY <1>2, <2>1, <2>2, <2>4, <2>5, WorkersStop, WorkersStopBudget DEF RelayInv
<1>. QED
  BY <1>1, <1>2

-----------------------------------------------------------------------------
(* Theorems.                                                               *)

LEMMA RelayInvariant == Spec => []RelayInv
<1>1. Init => RelayInv
  BY InitRelay
<1>2. RelayInv /\ [Next]_vars => RelayInv'
  BY StepRelay
<1>. QED
  BY <1>1, <1>2, PTL DEF Spec

\* Every reachable state is well typed, the shared rows as either part sees them.
THEOREM RelayTypes == Spec => []TypeOK
<1>1. RelayInv => TypeOK
  BY DEF RelayInv
<1>. QED
  BY <1>1, RelayInvariant, PTL

\* One actor at a time makes an event's deliveries, one worker at a time attempts each, and
\* none is attempted uncounted or beyond its budget.
THEOREM ActorsStayApart == Spec => []ActorsKeepApart
<1>1. ASSUME RelayInv
      PROVE  ActorsKeepApart
  <2>. USE <1>1 DEF RelayInv
  <2>1. ASSUME NEW e \in Events
        PROVE  Intake!Cardinality({a \in Intake!Actors :
                    task[a].event = e /\ task[a].step \in {"deliver", "mark"}}) <= 1
    <3>. DEFINE S == {a \in Intake!Actors :
                        task[a].event = e /\ task[a].step \in {"deliver", "mark"}}
    <3>1. \A x, y \in S : x = y
      BY DEF IntakeInv, Past, Actors
    <3>. HIDE DEF S
    <3>2. Intake!Cardinality(S) <= 1
      BY <3>1, AtMostOne, PartsCountAlike
    <3>. QED
      BY <3>2 DEF S
  <2>2. ASSUME NEW d \in Rows
        PROVE  Delivery!Cardinality({w \in Workers : Delivery!AtWork(w, d)}) <= 1
    <3>. DEFINE S == {w \in Workers : Delivery!AtWork(w, d)}
    <3>1. \A x, y \in S : x = y
      BY DEF WorkInv, AtWork
    <3>. HIDE DEF S
    <3>2. Delivery!Cardinality(S) <= 1
      BY <3>1, AtMostOne, PartsCountAlike
    <3>. QED
      BY <3>2 DEF S
  <2>3. ASSUME NEW d \in Rows
        PROVE  row[d].attempts <= MaxAttempts + Cardinality(Workers) - 1 + MaxCrashes
    <3>. DEFINE h == Cardinality(Hopeful(d))
                n == Cardinality(Workers)
    <3>1. h \in Nat /\ n \in Nat
      BY HopefulAreWorkers
    <3>2. /\ row[d].attempts \in Nat /\ crashes \in Nat /\ crashes <= MaxCrashes
          /\ MaxAttempts \in Nat \ {0} /\ MaxCrashes \in Nat
      BY RelayAssumption DEF TypeOK, Intake!TypeOK, Delivery!TypeOK
    <3>3. row[d].attempts > 0 /\ row[d].attempts >= MaxAttempts - 1
            => row[d].attempts + h
                 <= MaxAttempts - 1 + (n - 1) + crashes + (IF Closing(d) THEN 1 ELSE 0)
      BY DEF BudgetInv, Budget
    <3>. HIDE DEF h, n
    <3>4. row[d].attempts <= MaxAttempts + n - 1 + MaxCrashes
      BY <3>1, <3>2, <3>3
    <3>. QED
      BY <3>4 DEF n
  <2>4. AttemptsAreCounted
    BY <2>3, PartsCountAlike
    DEF AttemptsAreCounted, Delivery!AttemptsAreCounted, WorkInv, RowHolds, AtWork
  <2>5. CreatedOnce
    BY <2>1 DEF CreatedOnce, Intake!CreatedOnce, Intake!Past, Past
  <2>6. OneWorkerPerDelivery
    BY <2>2 DEF OneWorkerPerDelivery, Delivery!OneWorkerPerDelivery
  <2>. QED
    BY <2>4, <2>5, <2>6 DEF ActorsKeepApart
<1>. QED
  BY <1>1, RelayInvariant, PTL

\* What a sender was told is safe is delivered, owed or given up, and nothing is delivered
\* that was not stored.
THEOREM RelayIsFaithful == Spec => []NothingLostNothingInvented
<1>1. ASSUME RelayInv
      PROVE  NothingLostNothingInvented
  <2>. USE <1>1 DEF RelayInv
  <2>1. Intake!ProcessedIsRelayed
    BY DEF IntakeInv
  <2>2. Delivery!DeliveredWasReceived
    BY DEF WorkInv, RowHolds, Delivery!DeliveredWasReceived
  <2>3. ASSUME NEW e \in Events, NEW p \in Endpoints
        PROVE  /\ row[<<e, p>>].status \in Delivery!Statuses
               /\ e \in answered => row[<<e, p>>].status # "none"
    BY <2>1 DEF Intake!ProcessedIsRelayed, TypeOK, Delivery!TypeOK, Rows
  <2>4. ASSUME NEW e \in Events, NEW p \in Endpoints
        PROVE  taken[<<e, p>>] > 0 => received[e] # "none" /\ e \in local
    BY DEF WorkInv, RowHolds, IntakeInv, Rows
  <2>5. ASSUME NEW e \in Events, NEW p \in Endpoints
        PROVE  e \in answered => \/ taken[<<e, p>>] > 0
                                 \/ row[<<e, p>>].status \in {"PENDING", "RETRYING", "FAILED"}
    BY <2>2, <2>3 DEF Delivery!DeliveredWasReceived, Delivery!Statuses, Rows
  <2>. QED
    BY <2>1, <2>2, <2>4, <2>5 DEF NothingLostNothingInvented
<1>. QED
  BY <1>1, RelayInvariant, PTL

\* No late outcome of another attempt, no crash and no repeated event reopens a delivery.
THEOREM DeliveryIsFinal == Spec => DeliveredIsFinal
<1>1. ASSUME RelayInv, [Next]_vars, NEW d \in Rows, row[d].status = "DELIVERED"
      PROVE  row'[d].status = "DELIVERED"
  <2>1. CASE row' \in RowsAfterIntake
    BY <1>1, <2>1, RowsGrow DEF RelayInv, Delivery!NoRow
  <2>2. CASE row' = row
    BY <1>1, <2>2
  <2>3. ASSUME NEW w \in Workers, Acts(w)
        PROVE  row'[d].status = "DELIVERED"
    <3>1. PICK x \in Rows : x = worker[w].delivery
      BY <1>1, <2>3, ActsMove DEF RelayInv
    <3>2. /\ Moves(w, x)
          /\ AtWork(w, x) \/ (Delivery!TakeLease(w) /\ worker[w].step = "read")
      BY <1>1, <2>3, <3>1, ActsMove DEF RelayInv
    <3>3. WorkHolds(w)
      BY <1>1 DEF RelayInv, WorkInv
    <3>4. row[x].status # "DELIVERED"
      BY <3>1, <3>2, <3>3 DEF WorkHolds, Open, Delivery!TakeLease, Delivery!Takeable
    <3>. QED
      BY <1>1, <3>2, <3>4 DEF Moves
  <2>4. ASSUME NEW x \in Rows, Delivery!LeaseRunsOut(x)
        PROVE  row'[d].status = "DELIVERED"
    BY <1>1, <2>4 DEF Delivery!LeaseRunsOut, RelayInv, TypeOK, Delivery!TypeOK
  <2>5. CASE Delivery!Next
    BY <2>2, <2>3, <2>4, <2>5
    DEF Delivery!Next, Delivery!WorkerStep, Acts, Delivery!ReadRow, Delivery!LeaseDenied,
        Delivery!Crash
  <2>6. CASE Crash \/ UNCHANGED vars
    BY <2>2, <2>6 DEF Crash, vars
  <2>. QED
    BY <1>1, <2>1, <2>5, <2>6, StepsOfRelay
<1>2. RelayInv /\ [Next]_vars
        => [\A d \in Rows : row[d].status = "DELIVERED" => row'[d].status = "DELIVERED"]_(Delivery!vars)
  BY <1>1
<1>3. DeliveredIsFinal
        <=> [][\A d \in Rows : row[d].status = "DELIVERED" => row'[d].status = "DELIVERED"]_(Delivery!vars)
  BY DEF DeliveredIsFinal, Delivery!DeliveredIsFinal
<1>. QED
  BY <1>2, <1>3, RelayInvariant, PTL DEF Spec
=============================================================================
