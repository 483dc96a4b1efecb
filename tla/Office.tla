------------------------------- MODULE Office -------------------------------
(***************************************************************************)
(* Notifications and Payouts, two small domains of the administrators, and *)
(* the row locks of all the others' transactions (LockOrder).  They share  *)
(* no variable: a behaviour moves one of them (`part`), and the others wait *)
(* in their initial state.                                                 *)
(***************************************************************************)
EXTENDS LockOrder

CONSTANTS
  Notices, ToAll, Audience, Clerks, Job, Limit, MaxTime, MaxCrashes, NoNotice,
  Affiliates, References, Payments, Callers, NoEntry, Redemptions, Currencies, PartnerOf,
  CurrencyOf, Commission, Corrections

VARIABLES
  part,
  now, notice, deliveries, announced, active, holders, sending, due, crashes,
  status, entries, writing, answers

noticeVars == <<now, notice, deliveries, announced, active, holders, sending, due, crashes>>
payoutVars == <<status, entries, writing, answers>>
vars == <<part, noticeVars, payoutVars, open>>

Notify == INSTANCE Notifications WITH Subscribers <- Audience

Pay == INSTANCE Payouts

ASSUME OfficeAssumption ==
  Notify!ConstantsAssumption /\ Pay!ConstantsAssumption /\ ConstantsAssumption

OfficeInit ==
  /\ part \in {"notifications", "payouts", "locks"}
  /\ Notify!Init
  /\ part # "notifications" => holders = {}
  /\ Pay!Init
  /\ Init

NotifyStep(step) == part = "notifications" /\ step /\ UNCHANGED <<part, payoutVars, open>>

OfficeNext ==
  \/ NotifyStep(Notify!Next)
  \/ part = "payouts" /\ Pay!Next /\ UNCHANGED <<part, noticeVars, open>>
  \/ part = "locks" /\ Next /\ UNCHANGED <<part, noticeVars, payoutVars>>

OfficeSpec == OfficeInit /\ [][OfficeNext]_vars

\* The job runs every five minutes (HOSTING_CHECKLIST.md:30), and a transaction once begun
\* ends.  Clerks, subscribers and the clock owe nothing.
Fairness ==
  /\ WF_vars(NotifyStep(Notify!JobList))
  /\ WF_vars(NotifyStep(Notify!JobBegin))
  /\ WF_vars(NotifyStep(Notify!JobReplay))
  /\ WF_vars(NotifyStep(Notify!JobRefused))
  /\ \A a \in Notify!Actors : WF_vars(NotifyStep(Notify!Commit(a) \/ Notify!Fail(a)))

FairSpec == OfficeSpec /\ Fairness

-----------------------------------------------------------------------------
(* Properties, see Notifications, Payouts and LockOrder.                   *)

\* Every variable has its type.
OfficeTypeOK == Notify!TypeOK /\ Pay!TypeOK /\ TypeOK

\* What was answered is what is recorded, whoever else was at work: a notice is sent once and
\* to as many as was said, a cancelled one to nobody, and an entry answered is in the ledger.
AnswersHold == Notify!AnnouncedOnce /\ Notify!CancelledIsSilent /\ Pay!AnsweredIsRecorded

\* No payout is written beyond the balance of its currency.
PayoutsAreCovered == Pay!PayoutsAreCovered

\* What is due is sent or cancelled in the end.
DueIsDispatched == Notify!DueIsDispatched
=============================================================================
