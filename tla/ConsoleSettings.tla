-------------------------- MODULE ConsoleSettings --------------------------
(***************************************************************************)
(* The general form of the settings page (apps/web/src/pages/applications/  *)
(* Settings.tsx), filled from the product store when the page is mounted    *)
(* and never again, and written whole, with no version: the server          *)
(* (control_api/app/domains/settings/service.py) takes the last writer.     *)
(*                                                                         *)
(* A save updates the store but not the list of applications in the query   *)
(* cache, from which the store is filled again when the pages of an         *)
(* application are entered (App.tsx).                                       *)
(***************************************************************************)
EXTENDS Integers, FiniteSets

CONSTANTS
  Names, Urls,  \* values of two fields of the application
  MaxEdit,      \* bound on the versions
  MaxSaves,     \* bound on the requests under way
  NoPage,       \* the page is not mounted
  NoAnswer      \* the server has not answered

ConstantsAssumption == MaxEdit \in Nat

VARIABLES
  application, \* the row: name, url, logo, version
  appList,     \* the application as the query ['applications'] has it
  appStore,    \* and as the product store has it
  general,     \* the form, with the product it was filled from
  generalSaves \* requests of generalMutation, with the form they were sent with and the answer

vars == <<application, appList, appStore, general, generalSaves>>

\* ApplicationResponse
Rows == [name : Names, url : Urls, logo : BOOLEAN, version : 0..MaxEdit]

\* Mutant: the version stays.
SameVersion(row) == row.version

\* application.version += 1
NextVersion(row) == row.version + 1

\* update_application: every field is the request's.
Written(name, url, logo) ==
  [name |-> name, url |-> url, logo |-> logo, version |-> NextVersion(application)]

-----------------------------------------------------------------------------
Init ==
  /\ \E n \in Names, u \in Urls :
       application = [name |-> n, url |-> u, logo |-> TRUE, version |-> 0]
  /\ appList = application /\ appStore = application
  /\ general = NoPage /\ generalSaves = {}

\* Another owner saves, or another client of the API, which may keep the logo.
SaveElsewhere ==
  /\ application.version < MaxEdit
  /\ \E n \in Names, u \in Urls, l \in BOOLEAN : application' = Written(n, u, l)
  /\ UNCHANGED <<appList, appStore, general, generalSaves>>

\* The list is fetched again; the effect of ApplicationScope fills the store.
FetchApplications ==
  /\ appList' = application /\ appStore' = application
  /\ UNCHANGED <<application, general, generalSaves>>

\* The pages of the application are entered: the store is filled from the list as it is cached.
EnterApplication ==
  /\ appStore' = appList /\ general' = NoPage
  /\ UNCHANGED <<application, appList, generalSaves>>

\* The settings page is mounted.
OpenSettings ==
  /\ general = NoPage
  /\ general' = [name |-> appStore.name, url |-> appStore.url, from |-> appStore]
  /\ UNCHANGED <<application, appList, appStore, generalSaves>>

EditGeneral ==
  /\ general # NoPage
  /\ \/ \E n \in Names : general' = [general EXCEPT !.name = n]
     \/ \E u \in Urls : general' = [general EXCEPT !.url = u]
  /\ UNCHANGED <<application, appList, appStore, generalSaves>>

\* generalMutation, whose button is never disabled: the form as it is when it is sent.
SaveGeneral ==
  /\ general # NoPage /\ Cardinality(generalSaves) < MaxSaves
  /\ generalSaves' = generalSaves \cup {[form |-> general, answer |-> NoAnswer]}
  /\ UNCHANGED <<application, appList, appStore, general>>

\* updateApplicationSettings, which sends no logo.
ServeGeneral(s) ==
  /\ s.answer = NoAnswer /\ application.version < MaxEdit
  /\ application' = Written(s.form.name, s.form.url, FALSE)
  /\ generalSaves' = (generalSaves \ {s}) \cup {[s EXCEPT !.answer = application']}
  /\ UNCHANGED <<appList, appStore, general>>

\* onSuccess: setProducts with the row answered, the list of the cache as it was.
SavedGeneral(s) ==
  /\ s.answer # NoAnswer
  /\ appStore' = s.answer /\ generalSaves' = generalSaves \ {s}
  /\ UNCHANGED <<application, appList, general>>

SaveRefused(s) ==
  /\ s.answer = NoAnswer /\ generalSaves' = generalSaves \ {s}
  /\ UNCHANGED <<application, appList, appStore, general>>

Next ==
  \/ SaveElsewhere \/ FetchApplications \/ EnterApplication \/ OpenSettings
  \/ EditGeneral \/ SaveGeneral
  \/ \E s \in generalSaves : ServeGeneral(s) \/ SavedGeneral(s) \/ SaveRefused(s)

Spec == Init /\ [][Next]_vars

-----------------------------------------------------------------------------
(* Properties.                                                             *)

\* Every variable has its type.
TypeOK == {application, appList, appStore} \subseteq Rows

\* A save of the form undoes what another wrote, or the owner's own last save, only if the form
\* was filled from an older row (Settings.tsx:21, the store before the list is fetched again):
\* filled from the present one, it changes no field but those edited.
UndoneOnlyByOldForms ==
  [][\A s \in generalSaves \ generalSaves' :
       s.form.from.version = application.version /\ application' # application =>
         /\ s.form.name = s.form.from.name => application'.name = application.name
         /\ s.form.url = s.form.from.url => application'.url = application.url]_vars
=============================================================================
