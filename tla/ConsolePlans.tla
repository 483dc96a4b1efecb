---------------------------- MODULE ConsolePlans ----------------------------
(***************************************************************************)
(* The plan editor of the console (apps/web/src/pages/applications/         *)
(* PlansCatalog.tsx) against the catalog of the server                      *)
(* (control_api/app/domains/catalog/service.py), which other owners change  *)
(* at the same time, each of their requests in one step (`Elsewhere`).      *)
(*                                                                         *)
(* A save of an existing plan is two requests: updatePlan, which carries    *)
(* the version of the row the dialog was opened on, and then                *)
(* replacePlanEntitlements, which carries none.  The application publishes  *)
(* and retires features meanwhile.                                          *)
(***************************************************************************)
EXTENDS Integers

CONSTANTS
  Features,
  Contents,   \* values of the plan's own fields: name, price, period, draft or active
  MaxVersion, \* bound on the writes
  NoRow, NoDialog, NoSave

\* SubscriptionPlan with its enabled entitlements; draft and active plans are both "open" to
\* edits, and "deleted" stands for the row that is gone.
Rows == [content : Contents, status : {"open", "archived", "deleted"}, entitled : SUBSET Features,
         version : 1..MaxVersion]

VARIABLES
  features, \* AppFeature rows that are active
  ticks,    \* the features listed on the page, those the dialog offers
  plan,     \* the row, NoRow before it is created
  inUse,    \* a subscription, coupon or notification names it
  listed,   \* the row in the query cache, NoRow when it lists none
  dialog,   \* the plan dialog
  saving    \* planMutation

vars == <<features, ticks, plan, inUse, listed, dialog, saving>>

\* `editing` (NoRow for a new plan), planForm and entitlements.
Dialogs == [base : Rows \cup {NoRow}, content : Contents, entitled : SUBSET Features]

\* What mutate() captured, and the request that is next.
Saves == [form : Dialogs, next : {"create", "update", "replace"}]

ConstantsAssumption ==
  MaxVersion \in Nat \ {0} /\ NoRow \notin Rows /\ NoDialog \notin Dialogs /\ NoSave \notin Saves

\* Mutant: replacing the entitlements leaves the version.
SameVersion(row) == row.version

\* plan.version += 1
Bumped(row) == row.version + 1

\* Mutant: the version is not compared.
AnyVersion(base) == plan # NoRow /\ plan.status = "open"

\* update_plan: the version the dialog was opened on, and a plan not archived.
Matches(base) ==
  /\ plan # NoRow /\ plan.status = "open"
  /\ plan.version = base.version

\* Mutant: references are not counted.
AlwaysDeletable == TRUE

\* delete_plan: nothing refers to the plan.
Deletable == ~inUse

-----------------------------------------------------------------------------
(* The catalog.                                                            *)

\* update_plan, when it is not refused.
Updated(content) ==
  /\ plan.version < MaxVersion
  /\ plan' = [plan EXCEPT !.content = content, !.version = Bumped(plan)]

\* replace_entitlements: refused for an archived plan, and with a feature retired meanwhile.
Replaceable(entitled) == plan.status = "open" /\ entitled \subseteq features

Replaced(entitled) ==
  /\ plan.version < MaxVersion
  /\ plan' = [plan EXCEPT !.entitled = entitled, !.version = Bumped(plan)]

Archived ==
  /\ plan.version < MaxVersion
  /\ plan' = [plan EXCEPT !.status = "archived", !.version = Bumped(plan)]

Deleted == plan' = [plan EXCEPT !.status = "deleted"]

Init ==
  /\ features \in SUBSET Features /\ ticks = {}
  /\ plan = NoRow /\ inUse = FALSE
  /\ listed = NoRow /\ dialog = NoDialog /\ saving = NoSave

\* Another owner, from the row as it is.
Elsewhere ==
  /\ plan # NoRow
  /\ \/ plan.status = "open" /\ \E c \in Contents : Updated(c)
     \/ \E e \in SUBSET Features : Replaceable(e) /\ Replaced(e)
     \/ plan.status = "open" /\ Archived
     \/ Deletable /\ Deleted
  /\ UNCHANGED <<features, ticks, inUse, listed, dialog, saving>>

\* sync_manifest: features come, and leave the catalog but not the plans.
Publish(f) ==
  /\ features' \in {features \cup {f}, features \ {f}}
  /\ UNCHANGED <<ticks, plan, inUse, listed, dialog, saving>>

\* A customer, a coupon or a notification refers to the plan.
Refer ==
  /\ plan # NoRow /\ plan.status = "open" /\ inUse' = TRUE
  /\ UNCHANGED <<features, ticks, plan, listed, dialog, saving>>

-----------------------------------------------------------------------------
(* The page.                                                               *)

\* listPlans: archived plans are left out.
Offered == IF plan # NoRow /\ plan.status = "open" THEN plan ELSE NoRow

List ==
  /\ listed' = Offered
  /\ UNCHANGED <<features, ticks, plan, inUse, dialog, saving>>

ListFeatures ==
  /\ ticks' = features
  /\ UNCHANGED <<features, plan, inUse, listed, dialog, saving>>

\* createFeature, for a code typed in; a code that exists is refused.
FeatureAdded(f) == f \notin features /\ features' = features \cup {f}

\* featureMutation; its success closes the dialog that is open by then.
CreateFeature(f) ==
  /\ FeatureAdded(f)
  /\ dialog' \in {dialog, NoDialog}
  /\ UNCHANGED <<ticks, plan, inUse, listed, saving>>

\* emptyPlan, with the fields filled in.
EmptyForm(c) == [base |-> NoRow, content |-> c, entitled |-> {}]

\* The button is disabled until features are listed.
NewPlan ==
  /\ dialog = NoDialog /\ ticks # {}
  /\ \E c \in Contents : dialog' = EmptyForm(c)
  /\ UNCHANGED <<features, ticks, plan, inUse, listed, saving>>

\* startEdit: the form takes over the row as listed, retired features included.
StartEdit ==
  /\ dialog = NoDialog /\ listed # NoRow
  /\ dialog' = [base |-> listed, content |-> listed.content, entitled |-> listed.entitled]
  /\ UNCHANGED <<features, ticks, plan, inUse, listed, saving>>

\* The fields of the form.
Fill ==
  /\ dialog # NoDialog
  /\ \E c \in Contents : dialog' = [dialog EXCEPT !.content = c]
  /\ UNCHANGED <<features, ticks, plan, inUse, listed, saving>>

\* toggleFeature
Toggled(f, enabled) == IF enabled THEN dialog.entitled \cup {f} ELSE dialog.entitled \ {f}

\* A box of the form: a feature the page lists, which a feature retired since may not be.
Toggle(f) ==
  /\ dialog # NoDialog /\ f \in ticks
  /\ \E enabled \in BOOLEAN : dialog' = [dialog EXCEPT !.entitled = Toggled(f, enabled)]
  /\ UNCHANGED <<features, ticks, plan, inUse, listed, saving>>

\* setAll: what is not listed is dropped.
SetAll ==
  /\ dialog # NoDialog
  /\ \E e \in {ticks, {}} : dialog' = [dialog EXCEPT !.entitled = e]
  /\ UNCHANGED <<features, ticks, plan, inUse, listed, saving>>

\* The cross: nothing under way is called back.
Close ==
  /\ dialog # NoDialog /\ dialog' = NoDialog
  /\ UNCHANGED <<features, ticks, plan, inUse, listed, saving>>

\* The submit button, disabled while a save is pending.
Submit ==
  /\ dialog # NoDialog /\ saving = NoSave
  /\ saving' = [form |-> dialog, next |-> IF dialog.base = NoRow THEN "create" ELSE "update"]
  /\ UNCHANGED <<features, ticks, plan, inUse, listed, dialog>>

\* The save ends: onSuccess closes whichever plan dialog is open now; an error leaves it, and
\* so does a lost answer, whatever the server has done.
Ended(succeeded) ==
  /\ saving' = NoSave
  /\ dialog' = IF succeeded THEN NoDialog ELSE dialog

\* create_plan; the code is unique.  Once the plan is deleted its code makes another plan,
\* which is not followed.
Create ==
  /\ saving # NoSave /\ saving.next = "create"
  /\ IF plan = NoRow /\ saving.form.entitled \subseteq features
     THEN /\ plan' = [content |-> saving.form.content, status |-> "open",
                      entitled |-> saving.form.entitled, version |-> 1]
          /\ \E told \in BOOLEAN : Ended(told)
     ELSE UNCHANGED plan /\ \E made \in BOOLEAN :
            Ended(made) /\ (made => plan # NoRow /\ plan.status = "deleted")
  /\ UNCHANGED <<features, ticks, inUse, listed>>

\* The first half of a save.
Update ==
  /\ saving # NoSave /\ saving.next = "update"
  /\ IF Matches(saving.form.base)
     THEN /\ Updated(saving.form.content)
          /\ saving' = [saving EXCEPT !.next = "replace"] /\ UNCHANGED dialog
     ELSE Ended(FALSE) /\ UNCHANGED plan
  /\ UNCHANGED <<features, ticks, inUse, listed>>

\* The second half.
Replace ==
  /\ saving # NoSave /\ saving.next = "replace"
  /\ IF Replaceable(saving.form.entitled)
     THEN Replaced(saving.form.entitled) /\ \E told \in BOOLEAN : Ended(told)
     ELSE Ended(FALSE) /\ UNCHANGED plan
  /\ UNCHANGED <<features, ticks, inUse, listed>>

\* A request of the save does not reach the server, or the answer to its first half is lost.
GiveUp ==
  /\ saving # NoSave /\ Ended(FALSE)
  /\ UNCHANGED <<features, ticks, plan, inUse, listed>>

\* planAction, on the row as listed; a deletion carries no version.
Archive ==
  /\ listed # NoRow /\ Matches(listed) /\ Archived
  /\ UNCHANGED <<features, ticks, inUse, listed, dialog, saving>>

Delete ==
  /\ listed # NoRow /\ plan.status # "deleted" /\ Deletable /\ Deleted
  /\ UNCHANGED <<features, ticks, inUse, listed, dialog, saving>>

Next ==
  \/ Elsewhere \/ Refer
  \/ \E f \in Features : Publish(f) \/ CreateFeature(f) \/ Toggle(f)
  \/ List \/ ListFeatures \/ NewPlan \/ StartEdit \/ Fill \/ SetAll \/ Close
  \/ Submit \/ Create \/ Update \/ Replace \/ GiveUp
  \/ Archive \/ Delete

Spec == Init /\ [][Next]_vars

-----------------------------------------------------------------------------
(* Properties.                                                             *)

\* Every variable has its type.
TypeOK ==
  /\ features \subseteq Features /\ ticks \subseteq Features /\ inUse \in BOOLEAN
  /\ {plan, listed} \subseteq Rows \cup {NoRow}
  /\ dialog \in Dialogs \cup {NoDialog}
  /\ saving \in Saves \cup {NoSave}

\* A version says what the row was, entitlements included: a row on the screen whose version
\* still matches is the plan as it is (catalog/service.py:374; both halves of a save count).
VersionsIdentify == plan # NoRow /\ plan.status # "deleted" =>
  /\ listed # NoRow /\ listed.version = plan.version => listed = plan
  /\ dialog # NoDialog /\ dialog.base # NoRow /\ dialog.base.version = plan.version
       => dialog.base = plan

\* A save of the page writes only over the row its owner has seen (PlansCatalog.tsx:81); the
\* features that follow in a request of their own are written over whatever is there.
NothingSavedUnseen ==
  [][Update /\ plan' # plan => saving.form.base = plan]_vars

\* An archived plan stays as it is unless it is deleted, and a plan somebody refers to is
\* never deleted.
HistoryStays ==
  [][plan # NoRow /\ plan' # plan =>
       /\ plan'.status = "deleted" => ~inUse
       /\ plan.status # "open" => plan' = [plan EXCEPT !.status = "deleted"]]_vars
=============================================================================
