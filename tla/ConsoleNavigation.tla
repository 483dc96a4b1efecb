------------------------- MODULE ConsoleNavigation -------------------------
(***************************************************************************)
(* Which application a page of the console works on: ApplicationScope and   *)
(* the routes of apps/web/src/App.tsx, the product store, the list of       *)
(* applications, the layout that switches between them, and the overview    *)
(* page an application opens with.                                          *)
(*                                                                         *)
(* The list is the server's answer at some moment, kept and fetched again   *)
(* by the query cache.  React runs the effects of a render before the next  *)
(* event, but after the render: what a render does not show is unmounted    *)
(* and loses its state (`draft`), even if the effects bring it back.        *)
(***************************************************************************)
EXTENDS Integers

CONSTANTS
  Apps,
  NoApp,   \* null; as the url, the page /apps
  NoList   \* the list has not arrived

ConstantsAssumption == NoApp \notin Apps /\ \A S \in SUBSET Apps : S # NoList

VARIABLES
  granted,  \* applications the server lists for this user
  fetched,  \* the list on its way, NoList for none
  cached,   \* data of the query ['applications']
  broken,   \* isError of the query
  url,      \* appId of /apps/:appId
  products, \* of the product store
  chosen,   \* id of selectedProduct
  draft,    \* application in which the form now open was opened, NoApp for none
  asked,    \* applications whose overview has been asked for and not come
  overview  \* [Apps -> the application whose counts the query of this key holds, or NoApp]

overviewVars == <<asked, overview>>
vars == <<granted, fetched, cached, broken, url, products, chosen, draft, overviewVars>>

Lists == {NoList} \cup SUBSET Apps

\* selectProduct, and setProducts for a product selected before.
Found(list, a) == IF list # NoList /\ a \in list THEN a ELSE NoApp

\* Mutant: the product is selected among the products before they are set.
SelectThenSet(list, a) == Found(list, Found(products, a))

\* The effect: setProducts(list), then selectProduct(a).
SetThenSelect(list, a) == Found(list, a)

\* Mutant: the product selected is not compared with the url.
AnySelected(u, list, error) == u # NoApp /\ ~error /\ list # NoList /\ u \in list

\* ApplicationScope shows the page of u, and neither leaves nor loads.
Shown(u, list, error) ==
  /\ u # NoApp /\ ~error
  /\ list # NoList /\ u \in list
  /\ chosen = u

\* <Navigate to="/apps">
Left(u, list, error) == error \/ (list # NoList /\ u \notin list)

\* Mutant: one query for the overview of whichever application is selected.
OneKey(a) == CHOOSE b \in Apps : TRUE

\* queryKey ['application-overview', id]
OverviewKey(a) == a

\* What ApplicationOverview shows: the counts in the query of the application selected.
OverviewShown == IF Shown(url, cached, broken) THEN overview[OverviewKey(chosen)] ELSE NoApp

\* A render for the url u and the query's state, and its effects.
Render(u, list, error) ==
  /\ cached' = list /\ broken' = error
  /\ url' = IF u # NoApp /\ Left(u, list, error) THEN NoApp ELSE u
  /\ draft' = IF Shown(u, list, error) THEN draft ELSE NoApp
  /\ IF u # NoApp /\ list # NoList
     THEN products' = list /\ chosen' = SetThenSelect(list, u)
     ELSE UNCHANGED <<products, chosen>>

-----------------------------------------------------------------------------
Init ==
  /\ granted \in SUBSET Apps
  /\ fetched = NoList /\ cached = NoList /\ broken = FALSE
  /\ url \in Apps \cup {NoApp}
  /\ products = {} /\ chosen = NoApp /\ draft = NoApp
  /\ asked = {} /\ overview = [a \in Apps |-> NoApp]

\* Another administrator grants or withdraws access, or archives.
Regrant(a) ==
  /\ granted' \in {granted \cup {a}, granted \ {a}}
  /\ UNCHANGED <<fetched, cached, broken, url, products, chosen, draft, overviewVars>>

\* The query fetches when it is stale or invalidated; a new fetch replaces the one under way.
Fetch ==
  /\ fetched' = granted
  /\ UNCHANGED <<granted, cached, broken, url, products, chosen, draft, overviewVars>>

FetchDone ==
  /\ fetched # NoList /\ fetched' = NoList
  /\ Render(url, fetched, FALSE)
  /\ UNCHANGED <<granted, overviewVars>>

\* The second attempt has failed too: the data stay, and so does the error.
FetchFailed ==
  /\ fetched # NoList /\ fetched' = NoList
  /\ Render(url, cached, TRUE)
  /\ UNCHANGED <<granted, overviewVars>>

\* An owner registers an application on /apps; the list is fetched again if the answer comes.
Register(a) ==
  /\ url = NoApp /\ a \notin granted
  /\ granted' = granted \cup {a}
  /\ fetched' \in {fetched, granted'}
  /\ UNCHANGED <<cached, broken, url, products, chosen, draft, overviewVars>>

\* A card of /apps.
Open(a) ==
  /\ url = NoApp /\ cached # NoList /\ a \in cached
  /\ Render(a, cached, broken)
  /\ UNCHANGED <<granted, fetched, overviewVars>>

\* The layout: its select offers the store's products, its buttons lead to /apps, and the
\* browser's history to any page visited.
Switch(a) ==
  /\ Shown(url, cached, broken)
  /\ a \in products \cup {NoApp} /\ a # url
  /\ Render(a, cached, broken)
  /\ UNCHANGED <<granted, fetched, overviewVars>>

GoBack(a) ==
  /\ a # url
  /\ Render(a, cached, broken)
  /\ UNCHANGED <<granted, fetched, overviewVars>>

\* A page opens a form or a dialog; it sends what is in it to the application of the url.
OpenForm ==
  /\ Shown(url, cached, broken)
  /\ draft' = url
  /\ UNCHANGED <<granted, fetched, cached, broken, url, products, chosen, overviewVars>>

\* getApplicationOverview, of the application selected; its answer comes when another may be.
AskOverview ==
  /\ Shown(url, cached, broken) /\ asked' = asked \cup {chosen}
  /\ UNCHANGED <<granted, fetched, cached, broken, url, products, chosen, draft, overview>>

OverviewComes(a) ==
  /\ a \in asked /\ asked' = asked \ {a}
  /\ overview' \in {overview, [overview EXCEPT ![OverviewKey(a)] = a]}
  /\ UNCHANGED <<granted, fetched, cached, broken, url, products, chosen, draft>>

Next ==
  \/ Fetch \/ FetchDone \/ FetchFailed \/ OpenForm \/ AskOverview
  \/ \E a \in Apps : Regrant(a) \/ Register(a) \/ Open(a) \/ OverviewComes(a)
  \/ \E a \in Apps \cup {NoApp} : Switch(a) \/ GoBack(a)

Spec == Init /\ [][Next]_vars

-----------------------------------------------------------------------------
(* Properties.                                                             *)

\* Every variable has its type.
TypeOK ==
  /\ granted \in SUBSET Apps /\ products \in SUBSET Apps
  /\ fetched \in Lists /\ cached \in Lists
  /\ broken \in BOOLEAN
  /\ {url, chosen, draft} \subseteq Apps \cup {NoApp}
  /\ asked \subseteq Apps /\ overview \in [Apps -> Apps \cup {NoApp}]

\* What was typed into a form while one application was open is never sent to another
\* (App.tsx:52, the pages send to selectedProduct).
FormsStayInTheirApplication == draft # NoApp => draft = url /\ chosen = url

\* "Loading application" ends with the list: then the application of the url is the one
\* selected, and it is one of the list.
LoadingEnds == url # NoApp /\ cached # NoList => chosen = url /\ url \in cached

\* "No fallback or cross-application data was used" (ApplicationOverview.tsx:34): counts that
\* come late are not shown for the application opened meanwhile.
CountsAreTheirs == OverviewShown \in {NoApp, url}

NavigationHolds == FormsStayInTheirApplication /\ LoadingEnds /\ CountsAreTheirs
=============================================================================
