--------------------------- MODULE Notifications ---------------------------
(***************************************************************************)
(* Notifications of one application: drafts and schedules, their dispatch  *)
(* by an administrator or by the job process-notifications, cancellation   *)
(* (apps/control_api/app/domains/notifications/service.py).                *)
(*                                                                         *)
(* A dispatch locks the notification's row, then reads the recipients with *)
(* no lock, and commits: two steps, between which subscribers come and go. *)
(* The title, the text and the link are left out.                          *)
(***************************************************************************)
EXTENDS Integers, Sequences, FiniteSets, SequencesExt, FiniteSetsExt

CONSTANTS
  Notices,      \* notification ids
  Subscribers,
  ToAll,        \* notices for all subscribers: the others go to holders of some plans
  Clerks,       \* administrators' requests to dispatch
  Job,          \* the run of dispatch_due
  Limit,        \* of the job's list
  MaxTime,      \* bound: the clock
  MaxCrashes,   \* bound: transactions that fail
  NoNotice

Times == 0..MaxTime
Actors == Clerks \union {Job}

ConstantsAssumption ==
  /\ IsFiniteSet(Notices) /\ IsFiniteSet(Subscribers)
  /\ ToAll \subseteq Notices
  /\ Job \notin Clerks
  /\ NoNotice \notin Notices
  /\ Limit \in Nat \ {0}
  /\ MaxTime \in Nat /\ MaxCrashes \in Nat

VARIABLES
  now,
  notice,      \* [Notices -> status, scheduled_at]
  deliveries,  \* [Notices -> recipients with a delivery]
  announced,   \* outbox: {[notice, count]}
  active,      \* subscribers not restricted
  holders,     \* subscribers with a current term of an audience plan
  sending,     \* [Actors -> the notice it has locked, and the recipients it read]
  due,         \* what the job has left of its list
  crashes

vars == <<now, notice, deliveries, announced, active, holders, sending, due, crashes>>

Statuses == {"none", "draft", "scheduled", "processing", "sent", "cancelled"}
Counts == [notice : Notices, count : 0..Cardinality(Subscribers)]

Idle == [notice |-> NoNotice, to |-> {}]

Unlocked(n) == \A a \in Actors : sending[a].notice # n

\* Mutant: a second request dispatches what the first one has.
DispatchableAgain(n) == notice[n].status \in {"draft", "scheduled", "processing"}

\* The existing deliveries are looked for first; then the status is.
Dispatchable(n) == deliveries[n] = {} /\ notice[n].status \in {"draft", "scheduled"}

\* Mutant: the job lists whatever has a date that is past.
DueInAnyStatus(n) == notice[n].status \notin {"none", "draft"} /\ notice[n].at <= now

Due(n) == notice[n].status = "scheduled" /\ notice[n].at <= now

\* _recipient_ids
Recipients(n) == IF n \in ToAll THEN active ELSE active \intersect holders

\* The job's lists: what is due by time, then by id, as far as the limit.
DueLists ==
  LET ordered == {s \in SetToSeqs({n \in Notices : Due(n)}) :
                    \A i, j \in DOMAIN s : i < j => notice[s[i]].at <= notice[s[j]].at}
  IN  {SubSeq(s, 1, Min({Len(s), Limit})) : s \in ordered}

StatusAfter(to) == IF to = {} THEN "sent" ELSE "processing"

-----------------------------------------------------------------------------
Init ==
  /\ now = 0
  /\ notice = [n \in Notices |-> [status |-> "none", at |-> 0]]
  /\ deliveries = [n \in Notices |-> {}]
  /\ announced = {}
  /\ active = Subscribers
  /\ holders \in SUBSET Subscribers
  /\ sending = [a \in Actors |-> Idle]
  /\ due = <<>>
  /\ crashes = 0

\* A draft has no date; a schedule may name a past one.
Create(n) ==
  /\ notice[n].status = "none"
  /\ \/ notice' = [notice EXCEPT ![n].status = "draft"]
     \/ \E t \in Times : notice' = [notice EXCEPT ![n] = [status |-> "scheduled", at |-> t]]
  /\ UNCHANGED <<now, deliveries, announced, active, holders, sending, due, crashes>>

\* dispatch as far as the recipients, for a notice not sent before.
Begin(a, n) ==
  /\ sending[a] = Idle
  /\ Unlocked(n)
  /\ Dispatchable(n)
  /\ sending' = [sending EXCEPT ![a] = [notice |-> n, to |-> Recipients(n)]]
  /\ UNCHANGED <<now, notice, deliveries, announced, active, holders, crashes>>

\* A clerk's request for one that was is answered with the count of its deliveries, and for
\* one cancelled is refused: neither is a step.
Request(c, n) == Begin(c, n) /\ UNCHANGED due

\* dispatch_due: the list is read once, with no lock.
JobList ==
  /\ sending[Job] = Idle
  /\ due = <<>>
  /\ due' \in DueLists \ {<<>>}
  /\ UNCHANGED <<now, notice, deliveries, announced, active, holders, sending, crashes>>

JobBegin ==
  /\ due # <<>>
  /\ Begin(Job, Head(due))
  /\ due' = Tail(due)

\* A clerk has dispatched the next one since: the job counts its deliveries and goes on.
JobReplay ==
  /\ sending[Job] = Idle
  /\ due # <<>>
  /\ Unlocked(Head(due))
  /\ deliveries[Head(due)] # {}
  /\ due' = Tail(due)
  /\ UNCHANGED <<now, notice, deliveries, announced, active, holders, sending, crashes>>

\* The next one was cancelled, or sent to nobody, after the list was read: 409, which ends
\* the job and with it the rest of the list.
JobRefused ==
  /\ sending[Job] = Idle
  /\ due # <<>>
  /\ Unlocked(Head(due))
  /\ deliveries[Head(due)] = {}
  /\ ~ Dispatchable(Head(due))
  /\ due' = <<>>
  /\ UNCHANGED <<now, notice, deliveries, announced, active, holders, sending, crashes>>

Commit(a) ==
  LET n == sending[a].notice
      to == sending[a].to
  IN  /\ sending[a] # Idle
      /\ deliveries' = [deliveries EXCEPT ![n] = to]
      /\ notice' = [notice EXCEPT ![n].status = StatusAfter(to)]
      /\ announced' = announced \union {[notice |-> n, count |-> Cardinality(to)]}
      /\ sending' = [sending EXCEPT ![a] = Idle]
      /\ UNCHANGED <<now, active, holders, due, crashes>>

\* The transaction fails, and with it the job.
Fail(a) ==
  /\ sending[a] # Idle
  /\ crashes < MaxCrashes
  /\ crashes' = crashes + 1
  /\ sending' = [sending EXCEPT ![a] = Idle]
  /\ due' = IF a = Job THEN <<>> ELSE due
  /\ UNCHANGED <<now, notice, deliveries, announced, active, holders>>

Cancel(n) ==
  /\ Unlocked(n)
  /\ notice[n].status \in {"draft", "scheduled"}
  /\ notice' = [notice EXCEPT ![n].status = "cancelled"]
  /\ UNCHANGED <<now, deliveries, announced, active, holders, sending, due, crashes>>

\* Restriction and restoration, and terms that begin and end, lock none of these rows.
SubscribersChange ==
  /\ \/ \E S \in SUBSET Subscribers : active' = S /\ UNCHANGED holders
     \/ \E S \in SUBSET Subscribers : holders' = S /\ UNCHANGED active
  /\ UNCHANGED <<now, notice, deliveries, announced, sending, due, crashes>>

Tick ==
  /\ now < MaxTime
  /\ now' = now + 1
  /\ UNCHANGED <<notice, deliveries, announced, active, holders, sending, due, crashes>>

Next ==
  \/ \E n \in Notices : Create(n) \/ Cancel(n)
  \/ \E c \in Clerks, n \in Notices : Request(c, n)
  \/ JobList \/ JobBegin \/ JobReplay \/ JobRefused
  \/ \E a \in Actors : Commit(a) \/ Fail(a)
  \/ SubscribersChange
  \/ Tick

Spec == Init /\ [][Next]_vars

-----------------------------------------------------------------------------
(* Properties.                                                             *)

\* Every variable has its type.
TypeOK ==
  /\ now \in Times
  /\ notice \in [Notices -> [status : Statuses, at : Times]]
  /\ deliveries \in [Notices -> SUBSET Subscribers]
  /\ announced \in SUBSET Counts
  /\ active \in SUBSET Subscribers /\ holders \in SUBSET Subscribers
  /\ sending \in [Actors -> [notice : Notices \union {NoNotice}, to : SUBSET Subscribers]]
  /\ due \in Seq(Notices)
  /\ crashes \in 0..MaxCrashes

\* A notice is announced once, when it is sent, with the number of its deliveries, which is
\* what every later request is told: clerk and job do not both send it, to two audiences.
AnnouncedOnce ==
  /\ \A e \in announced : e.count = Cardinality(deliveries[e.notice])
  /\ \A n \in Notices :
       notice[n].status \in {"processing", "sent"} <=> \E e \in announced : e.notice = n

\* A cancelled notice has gone to nobody, and does not: no list that was read before the
\* cancellation, and no dispatch under way, sends it.
CancelledIsSilent ==
  \A n \in Notices : notice[n].status = "cancelled" =>
    /\ deliveries[n] = {}
    /\ \A e \in announced : e.notice # n
    /\ Unlocked(n)

\* What is due is sent or cancelled in the end, although one notice that is refused ends the
\* job for all the rest of its list.
DueIsDispatched ==
  \A n \in Notices :
    notice[n].status = "scheduled" /\ notice[n].at <= now ~> notice[n].status # "scheduled"
=============================================================================
