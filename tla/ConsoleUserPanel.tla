-------------------------- MODULE ConsoleUserPanel --------------------------
(***************************************************************************)
(* Restricting and restoring a user: UserPanel of                           *)
(* apps/web/src/pages/applications/Users.tsx against set_restriction of     *)
(* control_api/app/domains/users/service.py, with other administrators.     *)
(*                                                                         *)
(* Which of the two requests the form sends is computed from the cached     *)
(* detail when it is submitted; the reason was typed before.  The detail is *)
(* overwritten by the answer of a change and by any fetch under way.        *)
(***************************************************************************)
EXTENDS Integers, Sequences

CONSTANTS
  MaxAudit,  \* bound on the changes
  MaxFlights, \* bound on the requests of this console
  Unknown, Refused

ConstantsAssumption ==
  /\ MaxAudit \in Nat /\ MaxFlights \in Nat
  /\ Unknown \notin BOOLEAN /\ Refused \notin BOOLEAN /\ Unknown # Refused

VARIABLES
  restrictedAt, \* the row is restricted
  userAudit,    \* user.restricted and user.restored, with what the reason was typed for
  detail,       \* restricted_at of the cached detail, Unknown before it has come
  reading,      \* the detail on its way
  panel,        \* [open, confirming (Unknown, or what the detail said then)]
  changing,     \* requests of this console under way
  flights,      \* how many were sent
  disturbed     \* another administrator, a lost answer, a panel closed on its request,
                \* or two requests at once

vars == <<restrictedAt, userAudit, detail, reading, panel, changing, flights, disturbed>>

Entries == [restrict : BOOLEAN, meant : BOOLEAN]
Known == BOOLEAN \cup {Unknown}
Panels == [open : BOOLEAN, confirming : Known]

\* A request: `mine` while the panel that sent it is mounted; `answer` Unknown before the
\* server has it, then the state it answers, or Refused.
Changes == [restrict : BOOLEAN, meant : BOOLEAN, number : 1..MaxFlights, mine : BOOLEAN,
            answer : Known \cup {Refused}]

Closed == [open |-> FALSE, confirming |-> Unknown]

\* Mutant: the state is not compared.
AlwaysChanges(restrict) == TRUE

\* set_restriction: 409 when the user is already in that state.
Changeable(restrict) == restrict # restrictedAt

\* Mutant: the form stays after its change.
StillConfirming(p) == p

\* setConfirming(false), setReason('').
NotConfirming(p) == [p EXCEPT !.confirming = Unknown]

-----------------------------------------------------------------------------
Init ==
  /\ restrictedAt = FALSE /\ userAudit = <<>>
  /\ detail = Unknown /\ reading = Unknown
  /\ panel = Closed /\ changing = {} /\ flights = 0 /\ disturbed = FALSE

\* Exclusive: nothing else is under way that tells this console of the user.
Set(restrict, meant, exclusive) ==
  /\ Len(userAudit) < MaxAudit
  /\ restrictedAt' = restrict
  /\ userAudit' = Append(userAudit, [restrict |-> restrict, meant |-> meant])
  /\ disturbed' = (disturbed \/ ~exclusive)

\* Another administrator, who means what is done.
Elsewhere ==
  /\ Set(~restrictedAt, ~restrictedAt, FALSE)
  /\ UNCHANGED <<detail, reading, panel, changing, flights>>

\* setOpenId: the detail is fetched whenever the panel opens, or the window has the focus again.
Open ==
  /\ ~panel.open /\ panel' = [Closed EXCEPT !.open = TRUE]
  /\ reading' = restrictedAt
  /\ UNCHANGED <<restrictedAt, userAudit, detail, changing, flights, disturbed>>

Refetch ==
  /\ panel.open /\ reading' = restrictedAt
  /\ UNCHANGED <<restrictedAt, userAudit, detail, panel, changing, flights, disturbed>>

\* getUser
Read ==
  /\ reading # Unknown
  /\ detail' = reading /\ reading' = Unknown
  /\ UNCHANGED <<restrictedAt, userAudit, panel, changing, flights, disturbed>>

\* The button, with its name from the detail.
Confirm ==
  /\ panel.open /\ detail # Unknown /\ panel.confirming = Unknown
  /\ panel' = [panel EXCEPT !.confirming = detail]
  /\ UNCHANGED <<restrictedAt, userAudit, detail, reading, changing, flights, disturbed>>

Cancel ==
  /\ panel.confirming # Unknown
  /\ panel' = [panel EXCEPT !.confirming = Unknown]
  /\ UNCHANGED <<restrictedAt, userAudit, detail, reading, changing, flights, disturbed>>

\* onClose: a change under way is not called back.
Close ==
  /\ panel.open /\ panel' = Closed
  /\ changing' = {[c EXCEPT !.mine = FALSE] : c \in changing}
  /\ UNCHANGED <<restrictedAt, userAudit, detail, reading, flights, disturbed>>

\* submit, with the detail as it is now; disabled while a change of this panel is pending.
Submit ==
  /\ panel.confirming # Unknown /\ ~ \E c \in changing : c.mine
  /\ flights < MaxFlights /\ flights' = flights + 1
  /\ changing' = changing \cup {[restrict |-> ~detail, meant |-> ~panel.confirming,
                                 number |-> flights', mine |-> TRUE, answer |-> Unknown]}
  /\ UNCHANGED <<restrictedAt, userAudit, detail, reading, panel, disturbed>>

\* restrictUser and restoreUser at the server.
Serve(c) ==
  /\ c.answer = Unknown
  /\ IF Changeable(c.restrict)
     THEN /\ Set(c.restrict, c.meant, reading = Unknown /\ changing = {c})
          /\ changing' = (changing \ {c}) \cup {[c EXCEPT !.answer = c.restrict]}
     ELSE /\ changing' = (changing \ {c}) \cup {[c EXCEPT !.answer = Refused]}
          /\ UNCHANGED <<restrictedAt, userAudit, disturbed>>
  /\ UNCHANGED <<detail, reading, panel, flights>>

\* onSuccess: the cache takes the answer; the form closes if its panel is still there.
Deliver(c) ==
  /\ c.answer \in BOOLEAN
  /\ detail' = c.answer
  /\ panel' = IF c.mine THEN NotConfirming(panel) ELSE panel
  /\ changing' = changing \ {c}
  /\ disturbed' = (disturbed \/ ~c.mine)
  /\ UNCHANGED <<restrictedAt, userAudit, reading, flights>>

\* An error, the server's or the network's: the form stays.
Error(c) ==
  /\ c.answer # Unknown /\ changing' = changing \ {c}
  /\ disturbed' = (disturbed \/ c.answer # Refused)
  /\ UNCHANGED <<restrictedAt, userAudit, detail, reading, panel, flights>>

Next ==
  \/ Elsewhere \/ Open \/ Refetch \/ Read \/ Confirm \/ Cancel \/ Close \/ Submit
  \/ \E c \in changing : Serve(c) \/ Deliver(c) \/ Error(c)

Spec == Init /\ [][Next]_vars

-----------------------------------------------------------------------------
(* Properties.                                                             *)

\* Every variable has its type.
TypeOK ==
  /\ {restrictedAt, disturbed} \subseteq BOOLEAN
  /\ userAudit \in Seq(Entries) /\ Len(userAudit) <= MaxAudit
  /\ {detail, reading} \subseteq Known /\ panel \in Panels
  /\ changing \subseteq Changes /\ flights \in 0..MaxFlights

\* The audit log alternates and ends with the state of the user: of two administrators who
\* make the same change one is refused, and no change is undone by a repeated request.
AuditTellsTheState ==
  /\ \A i \in 1..Len(userAudit) : userAudit[i].restrict = (i % 2 = 1)
  /\ restrictedAt = (Len(userAudit) % 2 = 1)

\* As long as this administrator is alone, loses no answer, waits for it in the panel and
\* starts nothing meanwhile: every reason is filed under the change it was typed for, and once
\* nothing is under way the panel shows the user as the server has it (Users.tsx:245 decides
\* by the detail, :247 overwrites it).
AloneIsRight == ~disturbed =>
  /\ \A i \in 1..Len(userAudit) : userAudit[i].meant = userAudit[i].restrict
  /\ reading = Unknown /\ changing = {} => detail \in {Unknown, restrictedAt}

UserPanelHolds == AuditTellsTheState /\ AloneIsRight
=============================================================================
