---------------------------- MODULE ConsoleTerms ----------------------------
(***************************************************************************)
(* Manual access on the subscriptions page (apps/web/src/pages/             *)
(* applications/Subscriptions.tsx): assign a plan, renew or replace a term, *)
(* suspend, resume or cancel it, against the terms of one customer at the   *)
(* server (control_api/app/domains/subscriptions/service.py, which Billing  *)
(* models in full) and what customers and other owners do to them.          *)
(*                                                                         *)
(* The row acted on is found in the cache when the request is sent, and the *)
(* request carries its version.  The button of the assignment is never      *)
(* disabled.                                                                *)
(***************************************************************************)
EXTENDS Integers, FiniteSets

CONSTANTS
  Terms,      \* subscriptions of one customer
  MaxChange,  \* bound on the version of a term
  MaxGrants,  \* bound on the requests under way
  NoTerm

Current == {"active", "suspended"}
Actions == {"suspend", "resume", "cancel", "renew", "replace"}

\* Subscription; "unused" stands for a row not made yet, `over` for a period that has ended.
TermRows == [status : Current \cup {"unused", "cancelled", "expired"}, over : BOOLEAN,
             version : 0..MaxChange]
Unused == [status |-> "unused", over |-> FALSE, version |-> 0]
Fresh == [status |-> "active", over |-> FALSE, version |-> 1]

ConstantsAssumption == MaxChange \in Nat \ {0} /\ MaxGrants \in Nat /\ NoTerm \notin Terms

VARIABLES
  terms,       \* [Terms -> row]
  termsListed, \* the rows of the query cache
  termChosen,  \* of the renewal form, NoTerm for none
  assigning,   \* createSubscription requests under way
  changes      \* transitions and replacements under way, with the row they were sent for

vars == <<terms, termsListed, termChosen, assigning, changes>>

Changes == [term : Terms, action : Actions, seen : TermRows]

-----------------------------------------------------------------------------
(* The server.                                                             *)

\* Mutant: only active terms are looked for.
ActiveOnly(gone) == {t \in Terms \ gone : terms[t].status = "active"}

\* The terms that stand in the way of another, those in `gone` left out.
InTheWay(gone) == {t \in Terms \ gone : terms[t].status \in Current}

\* transition_target, and the conditions of replace_term.
Allowed(action, row) ==
  CASE action = "suspend" -> row.status = "active" /\ ~row.over
    [] action = "resume"  -> row.status = "suspended" /\ ~row.over
    [] action = "cancel"  -> row.status \in Current
    [] action = "renew"   -> row.over /\ row.status # "cancelled"
    [] action = "replace" -> row.status \in Current

Target(action) ==
  CASE action = "suspend" -> "suspended"
    [] action = "resume"  -> "active"
    [] action = "renew"   -> "expired"
    [] OTHER              -> "cancelled"

\* Mutant: the version is not compared.
AnySeen(t, seen) == terms[t].status # "unused"

\* expected_version
SeenAsIs(t, seen) == terms[t].status # "unused" /\ terms[t].version = seen.version

Closed(t, status) == [terms[t] EXCEPT !.status = status, !.version = @ + 1]

Apply(t, action) ==
  /\ Allowed(action, terms[t]) /\ terms[t].version < MaxChange
  /\ IF action \in {"renew", "replace"}
     THEN /\ InTheWay({t}) = {}
          /\ \E new \in Terms :
               /\ terms[new] = Unused
               /\ terms' = [terms EXCEPT ![t] = Closed(t, Target(action)), ![new] = Fresh]
     ELSE terms' = [terms EXCEPT ![t] = Closed(t, Target(action))]

\* create_subscription: 409 when a current term is there.
Assigned ==
  /\ InTheWay({}) = {}
  /\ \E new \in Terms : terms[new] = Unused /\ terms' = [terms EXCEPT ![new] = Fresh]

-----------------------------------------------------------------------------
Init ==
  /\ terms = [t \in Terms |-> Unused] /\ termsListed = terms
  /\ termChosen = NoTerm /\ assigning = 0 /\ changes = {}

\* Other owners, and customers who buy.
Elsewhere ==
  /\ Assigned \/ \E t \in Terms, a \in Actions : Apply(t, a)
  /\ UNCHANGED <<termsListed, termChosen, assigning, changes>>

\* The period ends; no row is written.
PeriodEnds(t) ==
  /\ terms[t].status \in Current /\ ~terms[t].over
  /\ terms' = [terms EXCEPT ![t].over = TRUE]
  /\ UNCHANGED <<termsListed, termChosen, assigning, changes>>

\* The query, fetched again after every change, answered or refused.
List ==
  /\ termsListed' = terms
  /\ UNCHANGED <<terms, termChosen, assigning, changes>>

\* The renewal form.
Choose(t) ==
  /\ termsListed[t].status \notin {"unused", "cancelled"} /\ termChosen # t
  /\ termChosen' = t
  /\ UNCHANGED <<terms, termsListed, assigning, changes>>

\* replacement.mutate(): the row as it is listed now, which may not be the one chosen.
SubmitTerm(action) ==
  /\ termChosen # NoTerm /\ ~ \E c \in changes : c.action \in {"renew", "replace"}
  /\ termsListed[termChosen].status # "unused"
  /\ changes' = changes \cup
       {[term |-> termChosen, action |-> action, seen |-> termsListed[termChosen]]}
  /\ UNCHANGED <<terms, termsListed, termChosen, assigning>>

\* changeStatus: the prompt for a reason holds the page until it is answered.
ChangeStatus(t, action) ==
  /\ termsListed[t].status \in Current
  /\ action \in {"cancel", IF termsListed[t].status = "active" THEN "suspend" ELSE "resume"}
  /\ ~ \E c \in changes : c.action \notin {"renew", "replace"}
  /\ changes' = changes \cup {[term |-> t, action |-> action, seen |-> termsListed[t]]}
  /\ UNCHANGED <<terms, termsListed, termChosen, assigning>>

\* "Assign subscription", as often as it is pressed.
Assign ==
  /\ assigning < MaxGrants /\ assigning' = assigning + 1
  /\ UNCHANGED <<terms, termsListed, termChosen, changes>>

ServeAssign ==
  /\ assigning > 0 /\ assigning' = assigning - 1
  /\ IF InTheWay({}) = {} THEN Assigned ELSE UNCHANGED terms
  /\ UNCHANGED <<termsListed, termChosen, changes>>

\* transitionSubscription and replaceSubscriptionTerm; a success clears the renewal form.
Serve(c) ==
  /\ changes' = changes \ {c}
  /\ \/ SeenAsIs(c.term, c.seen) /\ Apply(c.term, c.action)
        /\ termChosen' = IF c.action \in {"renew", "replace"} THEN NoTerm ELSE termChosen
     \/ UNCHANGED <<terms, termChosen>>
  /\ UNCHANGED <<termsListed, assigning>>

Next ==
  \/ Elsewhere \/ List \/ Assign \/ ServeAssign
  \/ \E t \in Terms : PeriodEnds(t) \/ Choose(t) \/ \E a \in Actions : ChangeStatus(t, a)
  \/ \E a \in {"renew", "replace"} : SubmitTerm(a)
  \/ \E c \in changes : Serve(c)

Spec == Init /\ [][Next]_vars

-----------------------------------------------------------------------------
(* Properties.                                                             *)

\* Every variable has its type.
TypeOK ==
  /\ {terms, termsListed} \subseteq [Terms -> TermRows]
  /\ termChosen \in Terms \cup {NoTerm}
  /\ assigning \in 0..MaxGrants /\ changes \subseteq Changes

\* However often a plan is assigned, renewed or replaced, and by whom, the customer has one
\* current term at most.
OneManualTerm == Cardinality({t \in Terms : terms[t].status \in Current}) <= 1

\* An action is done to the row the administrator saw: what was suspended when Resume was
\* pressed is suspended when it is resumed (Subscriptions.tsx:36 and :23, the version).
DoneAsSeen ==
  [][\A c \in changes \ changes' :
       terms' # terms => [terms[c.term] EXCEPT !.over = c.seen.over] = c.seen]_vars
=============================================================================
