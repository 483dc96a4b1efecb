------------------------- MODULE ConsoleStorefront -------------------------
(***************************************************************************)
(* The design of the storefront on the settings page (apps/web/src/pages/   *)
(* applications/Settings.tsx): which plan is recommended, which are hidden. *)
(* It is edited in the query cache itself, where the next fetch overwrites  *)
(* it, and written whole, with no version: update_plan_ui of                *)
(* control_api/app/domains/settings/service.py counts the plans it is given *)
(* without a lock, and then takes the last writer.  Archiving or deleting a *)
(* plan (domains/catalog/service.py) takes it from the storefront, and      *)
(* gives the design no new version.                                         *)
(***************************************************************************)
EXTENDS Integers, FiniteSets

CONSTANTS
  Plans,
  MaxEdition,  \* bound on the versions
  MaxPublishes,\* bound on the requests under way
  NoDesign,    \* the design has not been loaded
  NoPlan       \* none is recommended

VARIABLES
  offer,       \* of each plan, its status: "none" before it is made
  design,      \* the row and its items: plan recommended, plans visible and hidden, version
  crossed,     \* plans archived between the count and the write of a request
  plansListed, \* the query ['plans'], empty before it is loaded
  designShown, \* the query ['plan-ui'], with what was chosen since
  publishing,  \* requests of storefrontMutation under way
  blind        \* the last design published replaced one that was not on the screen

vars == <<offer, design, crossed, plansListed, designShown, publishing, blind>>

\* PlanUiSettings; a request made before the load has the version -1.
Designs ==
  [recommended : Plans \cup {NoPlan}, visible : SUBSET Plans, hidden : SUBSET Plans,
   version : -1..MaxEdition]
Unloaded == [recommended |-> NoPlan, visible |-> {}, hidden |-> {}, version |-> -1]

\* `counted` once the server has counted the request's plans.
Publishes == [design : Designs, counted : BOOLEAN]

ConstantsAssumption == MaxEdition \in Nat /\ NoPlan \notin Plans /\ NoDesign \notin Designs

Offers == {p \in Plans : offer[p] = "open"}

Listed(d) == d.visible \cup d.hidden
Named(d) == Listed(d) \cup ({d.recommended} \ {NoPlan})

\* Mutant: the plans are not looked up.
AnyPlans(d) == TRUE

\* count == len(plan_ids), of plans that are not archived.
Countable(d) == Named(d) \subseteq Offers

\* Mutant: the recommendation stays.
OnlyItemsHidden(d, p) ==
  [d EXCEPT !.visible = @ \ {p}, !.hidden = @ \cup (d.visible \cap {p})]

\* _hide_from_storefront
Hidden(d, p) ==
  [d EXCEPT !.visible = @ \ {p}, !.hidden = @ \cup (d.visible \cap {p}),
            !.recommended = IF @ = p THEN NoPlan ELSE @]

Init ==
  /\ offer \in [Plans -> {"none", "open"}]
  /\ design = [recommended |-> NoPlan, visible |-> {}, hidden |-> {}, version |-> 0]
  /\ crossed = {} /\ plansListed = {}
  /\ designShown = NoDesign /\ publishing = {} /\ blind = FALSE

-----------------------------------------------------------------------------
(* The catalog, and other clients of the API.                              *)

CreatePlan(p) ==
  /\ offer[p] = "none" /\ offer' = [offer EXCEPT ![p] = "open"]
  /\ UNCHANGED <<design, crossed, plansListed, designShown, publishing, blind>>

\* update_plan to archived.
ArchivePlan(p) ==
  /\ offer[p] = "open" /\ offer' = [offer EXCEPT ![p] = "archived"]
  /\ design' = Hidden(design, p)
  /\ crossed' = IF \E r \in publishing : r.counted /\ p \in Named(r.design)
                THEN crossed \cup {p} ELSE crossed
  /\ UNCHANGED <<plansListed, designShown, publishing, blind>>

\* delete_plan, with the items of the plan.
DeletePlan(p) ==
  /\ offer[p] \in {"open", "archived"} /\ offer' = [offer EXCEPT ![p] = "deleted"]
  /\ design' = [Hidden(design, p) EXCEPT !.hidden = @ \ {p}]
  /\ UNCHANGED <<crossed, plansListed, designShown, publishing, blind>>

\* PlanUiSettings by another client of the API, the only one that hides a plan on offer.
DesignElsewhere ==
  /\ design.version < MaxEdition
  /\ \E h \in SUBSET Offers, p \in Offers \cup {NoPlan} :
       design' = [recommended |-> p, visible |-> Offers \ h, hidden |-> h,
                  version |-> design.version + 1]
  /\ UNCHANGED <<offer, crossed, plansListed, designShown, publishing, blind>>

-----------------------------------------------------------------------------
(* The page.                                                               *)

\* listPlans: archived plans are left out.
FetchPlans ==
  /\ plansListed' = Offers
  /\ UNCHANGED <<offer, design, crossed, designShown, publishing, blind>>

\* getPlanUiSettings: what was chosen and not published is gone.
FetchDesign ==
  /\ designShown' = design
  /\ UNCHANGED <<offer, design, crossed, plansListed, publishing, blind>>

\* The select, of the plans listed: setQueryData.  Before the design is loaded, what this makes
\* has no items, and Publish fails before anything is sent.
Recommend(p) ==
  /\ designShown # NoDesign /\ p \in plansListed \cup {NoPlan}
  /\ designShown' = [designShown EXCEPT !.recommended = p]
  /\ UNCHANGED <<offer, design, crossed, plansListed, publishing, blind>>

\* Mutant: every plan is published as visible.
NoneHidden(seen) == {}

\* visible: current?.visible ?? true, for the plans listed
StillHidden(seen) == seen.hidden \cap plansListed

\* storefrontMutation, whose button is never disabled: the plan recommended, and the plans
\* listed with their visibility.
Publish ==
  /\ Cardinality(publishing) < MaxPublishes
  /\ LET seen == IF designShown = NoDesign THEN Unloaded ELSE designShown
         hidden == StillHidden(seen)
     IN  publishing' = publishing \cup
           {[design |-> [seen EXCEPT !.hidden = hidden, !.visible = plansListed \ hidden],
             counted |-> FALSE]}
  /\ UNCHANGED <<offer, design, crossed, plansListed, designShown, blind>>

\* update_plan_ui, up to the count; a request may be lost.
CountPlans(r) ==
  /\ ~r.counted
  /\ \/ /\ Countable(r.design)
        /\ publishing' = (publishing \ {r}) \cup {[r EXCEPT !.counted = TRUE]}
     \/ publishing' = publishing \ {r}
  /\ UNCHANGED <<offer, design, crossed, plansListed, designShown, blind>>

\* The rest: the items are replaced, whoever wrote them.  Of a plan deleted since the foreign
\* keys refuse them; an archival that waited for this write finds its recommendation, but not
\* its items.
WriteDesign(r) ==
  /\ r.counted /\ publishing' = publishing \ {r}
  /\ IF \A p \in Named(r.design) : offer[p] # "deleted"
     THEN /\ design.version < MaxEdition
          /\ blind' = (r.design.version # design.version)
          /\ \E p \in {r.design.recommended} \cup
                  (IF r.design.recommended \in Offers THEN {} ELSE {NoPlan}) :
               design' = [r.design EXCEPT !.version = design.version + 1, !.recommended = p]
     ELSE UNCHANGED <<design, blind>>
  /\ UNCHANGED <<offer, crossed, plansListed, designShown>>

Next ==
  \/ \E p \in Plans : CreatePlan(p) \/ ArchivePlan(p) \/ DeletePlan(p)
  \/ DesignElsewhere \/ FetchPlans \/ FetchDesign \/ Publish
  \/ \E r \in publishing : CountPlans(r) \/ WriteDesign(r)
  \/ \E p \in Plans \cup {NoPlan} : Recommend(p)

Spec == Init /\ [][Next]_vars

-----------------------------------------------------------------------------
(* Properties.                                                             *)

\* Every variable has its type.
TypeOK ==
  /\ offer \in [Plans -> {"none", "open", "archived", "deleted"}]
  /\ design \in Designs /\ blind \in BOOLEAN
  /\ crossed \subseteq Plans /\ plansListed \subseteq Plans
  /\ designShown \in Designs \cup {NoDesign} /\ publishing \subseteq Publishes

\* A plan that was archived or deleted is neither on the storefront nor recommended there, but
\* for one archived between the count and the write of a request that names it.
RetiredPlansAreGone ==
  \A p \in Plans \ (Offers \cup crossed) : p \notin design.visible /\ design.recommended # p

\* Publish shows a hidden plan again only if it was pressed before the design was loaded, or
\* over a design that was not the one on the screen (Settings.tsx:28), or the plan was archived
\* under its eyes.
HiddenStaysHidden ==
  [][publishing \ publishing' # {} /\ design' # design /\ ~blind' =>
       design.hidden \cap design'.visible \subseteq crossed]_vars
=============================================================================
