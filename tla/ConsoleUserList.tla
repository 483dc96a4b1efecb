-------------------------- MODULE ConsoleUserList --------------------------
(***************************************************************************)
(* The list of users (apps/web/src/pages/applications/Users.tsx, Users):    *)
(* a search that takes effect when typing pauses, filters that take effect  *)
(* at once, pages, and an answer of the server for each combination.  The   *)
(* query cache keeps each answer under its own key and, until the answer of *)
(* the present key has come, shows the one it showed before.                *)
(*                                                                         *)
(* The server counts anew for each request (list_users), and users sign up  *)
(* and are restricted meanwhile, from this page too: any answer may carry   *)
(* any total.                                                              *)
(***************************************************************************)
EXTENDS Integers, FiniteSets

CONSTANTS
  Searches, Filters,
  Totals,     \* totals the server may count, in pages of 50 users
  MaxAsked,   \* bound on the answers awaited at once
  MaxKept,    \* bound on the answers in the cache
  NoKey

MaxPage == 1

\* UserFilters
ListKeys == [q : Searches, filter : Filters, page : 0..MaxPage]

ConstantsAssumption == Totals \subseteq 0..(MaxPage + 1) /\ NoKey \notin ListKeys

VARIABLES
  typed,   \* what the search box holds
  key,     \* the filters of this render: the debounced search, the select boxes, the page
  asked,   \* keys whose answer is awaited
  counted, \* the cache: [ListKeys -> the total its last answer told, -1 without one]
  shown,   \* the key whose answer is, or was last, on the screen
  failed,  \* isError, without an answer from before
  relied   \* the total Next was last pressed on since the search or a filter changed: history

vars == <<typed, key, asked, counted, shown, failed, relied>>

Answered == {k \in ListKeys : counted[k] >= 0}

\* users.data.total, in pages.
TotalPages == IF failed \/ shown = NoKey THEN 0 ELSE counted[shown]

\* Mutant: what was shown before counts as the answer of the new filters.
ShowAnything(k) == k

\* placeholderData: the previous answer until that of k is there.
ShowPrevious(k) == IF k \in Answered THEN k ELSE shown

\* A render with the filters k.  Those never answered are asked for, and those answered a
\* minute ago, or before a restriction invalidated them, are asked for again.
Observe(k) ==
  /\ key' = k
  /\ IF k = key THEN UNCHANGED asked
     ELSE asked' = asked \cup {k} \/ (k \in Answered /\ UNCHANGED asked)
  /\ Cardinality(asked') <= MaxAsked
  /\ shown' = ShowPrevious(k)
  /\ failed' = (failed /\ k = key)

-----------------------------------------------------------------------------
Init ==
  \E s \in Searches, f \in Filters :
    /\ typed = s
    /\ key = [q |-> s, filter |-> f, page |-> 0]
    /\ asked = {key} /\ counted = [k \in ListKeys |-> -1] /\ shown = NoKey
    /\ failed = FALSE /\ relied = 0

\* Mutant: a new search keeps the page.
KeepPage(k) == k

\* setPage(0), with every change of the search or of a filter.
FirstPage(k) == [k EXCEPT !.page = 0]

Type(s) ==
  /\ s # typed /\ typed' = s
  /\ Observe(FirstPage(key))
  /\ relied' = 0
  /\ UNCHANGED counted

\* useDebounced: typing has paused for 300 ms.
Debounce ==
  /\ key.q # typed
  /\ Observe([key EXCEPT !.q = typed])
  /\ UNCHANGED <<typed, counted, relied>>

SelectFilter(f) ==
  /\ f # key.filter
  /\ Observe(FirstPage([key EXCEPT !.filter = f]))
  /\ relied' = 0
  /\ UNCHANGED <<typed, counted>>

\* Mutant: Next stays enabled on the last page.
OneTooFar(page, pages) == page < pages

\* (page + 1) * PAGE_SIZE < total
HasNext(page, pages) == page + 1 < pages

\* The buttons are shown when there is more than a page, by the total on the screen.
NextPage ==
  /\ TotalPages > 1 /\ HasNext(key.page, TotalPages)
  /\ Observe([key EXCEPT !.page = @ + 1])
  /\ relied' = TotalPages
  /\ UNCHANGED <<typed, counted>>

PreviousPage ==
  /\ TotalPages > 1 /\ key.page > 0
  /\ Observe([key EXCEPT !.page = @ - 1])
  /\ UNCHANGED <<typed, counted, relied>>

\* listUsers answers, in any order: the cache has it, the screen only if it is for its key.
Answer(k, n) ==
  /\ asked' = asked \ {k} /\ counted' = [counted EXCEPT ![k] = n]
  /\ Cardinality(Answered') <= MaxKept
  /\ shown' = IF k = key THEN k ELSE shown
  /\ failed' = (failed /\ k # key)
  /\ UNCHANGED <<typed, key, relied>>

Error(k) ==
  /\ asked' = asked \ {k}
  /\ failed' = (failed \/ (k = key /\ k \notin Answered))
  /\ UNCHANGED <<typed, key, counted, shown, relied>>

\* The query is tried again: on focus, when the page is entered again, or because the panel
\* of a user restricted or restored one.
Refetch ==
  /\ key \notin asked /\ asked' = asked \cup {key}
  /\ failed' = FALSE
  /\ UNCHANGED <<typed, key, counted, shown, relied>>

\* The cache drops what nobody has observed for five minutes.
Forget(k) ==
  /\ k \in Answered \ {key, shown}
  /\ counted' = [counted EXCEPT ![k] = -1]
  /\ UNCHANGED <<typed, key, asked, shown, failed, relied>>

Next ==
  \/ \E s \in Searches : Type(s)
  \/ \E f \in Filters : SelectFilter(f)
  \/ Debounce \/ NextPage \/ PreviousPage \/ Refetch
  \/ \E k \in asked : Error(k) \/ \E n \in Totals : Answer(k, n)
  \/ \E k \in ListKeys : Forget(k)

Spec == Init /\ [][Next]_vars

-----------------------------------------------------------------------------
(* Properties.                                                             *)

\* Every variable has its type.
TypeOK ==
  /\ typed \in Searches /\ key \in ListKeys
  /\ asked \subseteq ListKeys /\ counted \in [ListKeys -> Totals \cup {-1}]
  /\ shown \in ListKeys \cup {NoKey} /\ relied \in Totals \cup {0}
  /\ failed \in BOOLEAN

\* The rows are those of an answer that has come, and once nothing is awaited for the filters
\* of the screen, they are theirs: an older answer that comes later is not taken for theirs.
RowsMatchFilters ==
  /\ shown # NoKey => shown \in Answered
  /\ key \notin asked /\ ~failed => shown = key

\* The screen is on a page without rows only if Next was pressed on a larger total than the
\* answer tells: the total of other filters, while theirs was awaited or the search was settling
\* (Users.tsx:62 and :196), or one counted before a user was restricted.
EmptyPageWasPromised ==
  shown = key /\ key.page > 0 /\ key.page >= counted[key] => counted[key] < relied

UserListHolds == RowsMatchFilters /\ EmptyPageWasPromised
=============================================================================
