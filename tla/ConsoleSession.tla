--------------------------- MODULE ConsoleSession ---------------------------
(***************************************************************************)
(* How the tabs of one browser keep their session: the interceptors and     *)
(* restoreSession of apps/web/src/services/controlApi.ts, the auth store,   *)
(* the login page and ProtectedRoute, against login and refresh of the      *)
(* server (control_api/app/api/v1/auth.py).                                 *)
(*                                                                         *)
(* The refresh cookie and the csrf cookie are set together and are shared   *)
(* by the tabs; the csrf token a tab sends in the header is its own.  Each  *)
(* answer that signs in is numbered, and the number stands for the access   *)
(* token, the refresh token and the csrf token it carries.                  *)
(***************************************************************************)
EXTENDS Integers, FiniteSets

CONSTANTS
  Tabs,
  Calls,     \* the requests a page has under way
  MaxIssued, \* bound on the sessions and rotations issued
  MaxLost    \* bound on lost answers and reloads

\* The restore at mount is nobody's request.
ConstantsAssumption == MaxIssued \in Nat /\ MaxLost \in Nat /\ "mount" \notin Calls

NoNumber == 0
Numbers == 1..MaxIssued
Pending == -1
Denied == -2

VARIABLES
  issued,  \* numbers used so far
  current, \* refresh tokens whose hash a session row holds
  cookie,  \* what the browser's two cookies carry
  store,   \* [Tabs -> auth store]
  waiting, \* [Tabs -> calls that await the promise `restoring`], {} when it is null
  posts,   \* requests to /auth/login and /auth/refresh under way
  call,    \* [Tabs -> [Calls -> request]]
  lost

vars == <<issued, current, cookie, store, waiting, posts, call, lost>>

Stores == [token : Numbers \cup {NoNumber}, csrf : Numbers \cup {NoNumber}, initialized : BOOLEAN]

SetAuth(n) == [token |-> n, csrf |-> n, initialized |-> TRUE]
Logout == [token |-> NoNumber, csrf |-> NoNumber, initialized |-> TRUE]
MarkInitialized(s) == [s EXCEPT !.initialized = TRUE]

\* A request; `refused` is the token answered with 401, NoNumber before that (`_retried`).
Requests == [state : {"idle", "sent", "waiting"}, with : Numbers \cup {NoNumber},
             refused : Numbers \cup {NoNumber}]
Idle == [state |-> "idle", with |-> NoNumber, refused |-> NoNumber]

\* `page` is false once the page that sent it is gone.
Posts == [kind : {"login", "refresh"}, tab : Tabs, by : Calls \cup {"mount", "form"},
          cookie : Numbers \cup {NoNumber}, header : Numbers \cup {NoNumber},
          answer : Numbers \cup {Pending, Denied}, page : BOOLEAN]

Post(t, kind, by) == [kind |-> kind, tab |-> t, by |-> by, cookie |-> cookie,
                      header |-> store[t].csrf, answer |-> Pending, page |-> TRUE]

\* Mutant: every caller sends a request of its own.
NeverShared(t) == FALSE

\* `restoring ??=`: a restore under way is shared.
Shared(t) == waiting[t] # {}

\* Mutant: the retry goes out with the header it had.
SameHeader(r, n) == [r EXCEPT !.state = "sent"]

\* The retry passes the request interceptor again, and carries what the store has now.
Retry(r, n) == [r EXCEPT !.state = "sent", !.with = n]

-----------------------------------------------------------------------------
\* The tabs are open, nobody has signed in yet.
Init ==
  /\ issued = 0 /\ current = {} /\ cookie = NoNumber /\ lost = 0
  /\ store = [t \in Tabs |-> Logout]
  /\ waiting = [t \in Tabs |-> {}]
  /\ posts = {}
  /\ call = [t \in Tabs |-> [c \in Calls |-> Idle]]

\* restoreSession: joins the restore under way or sends one.
Restore(t, by) ==
  /\ waiting' = [waiting EXCEPT ![t] = @ \cup {by}]
  /\ posts' = IF Shared(t) THEN posts ELSE posts \cup {Post(t, "refresh", by)}

\* Load or reload: the memory of the page goes, the csrf token is in sessionStorage, and App
\* restores at mount.  Without a csrf token there is nothing to restore.
Load(t) ==
  LET gone == {[p EXCEPT !.page = FALSE] : p \in {x \in posts : x.tab = t}}
      others == {p \in posts : p.tab # t} IN
  /\ lost < MaxLost /\ lost' = lost + 1
  /\ call' = [call EXCEPT ![t] = [c \in Calls |-> Idle]]
  /\ IF store[t].csrf = NoNumber
     THEN /\ store' = [store EXCEPT ![t] = MarkInitialized([@ EXCEPT !.token = NoNumber])]
          /\ waiting' = [waiting EXCEPT ![t] = {}]
          /\ posts' = others \cup gone
     ELSE /\ store' = [store EXCEPT ![t].token = NoNumber, ![t].initialized = FALSE]
          /\ waiting' = [waiting EXCEPT ![t] = {"mount"}]
          /\ posts' = others \cup gone \cup {Post(t, "refresh", "mount")}
  /\ UNCHANGED <<issued, current, cookie>>

\* The form of /login, which waits for nothing but its own answer.
Login(t) ==
  /\ store[t].token = NoNumber
  /\ ~ \E p \in posts : p.tab = t /\ p.kind = "login" /\ p.page
  /\ posts' = posts \cup {Post(t, "login", "form")}
  /\ UNCHANGED <<issued, current, cookie, store, waiting, call, lost>>

\* ProtectedRoute shows the pages that send requests.
Shown(t) == store[t].initialized /\ store[t].token # NoNumber

Send(t, c) ==
  /\ Shown(t) /\ call[t][c] = Idle
  /\ call' = [call EXCEPT ![t][c] = [Idle EXCEPT !.state = "sent", !.with = store[t].token]]
  /\ UNCHANGED <<issued, current, cookie, store, waiting, posts, lost>>

\* An answer other than 401, or a second 401: the caller has it.
Settled(t, c) ==
  /\ call[t][c].state = "sent"
  /\ call' = [call EXCEPT ![t][c] = Idle]
  /\ UNCHANGED <<issued, current, cookie, store, waiting, posts, lost>>

\* The first 401 of a request: an access token may expire at any time.
Unauthorized(t, c) ==
  LET r == call[t][c] IN
  /\ r.state = "sent" /\ r.refused = NoNumber
  /\ IF store[t].csrf = NoNumber /\ ~Shared(t)
     THEN /\ call' = [call EXCEPT ![t][c] = Idle]
          /\ store' = [store EXCEPT ![t] = MarkInitialized(@)]
          /\ UNCHANGED <<waiting, posts>>
     ELSE /\ call' = [call EXCEPT ![t][c] = [r EXCEPT !.state = "waiting", !.refused = r.with]]
          /\ Restore(t, c)
          /\ UNCHANGED store
  /\ UNCHANGED <<issued, current, cookie, lost>>

-----------------------------------------------------------------------------
(* The server.                                                             *)

Answer(p, n) == posts' = (posts \ {p}) \cup {[p EXCEPT !.answer = n]}

\* The row holds one hash: the token presented is replaced.
Spent(p) == {p.cookie}

\* _validate_csrf, then the row of the refresh token.
Valid(p) == p.cookie # NoNumber /\ p.header = p.cookie /\ p.cookie \in current

Issue(p, gone) ==
  /\ issued < MaxIssued
  /\ issued' = issued + 1
  /\ current' = (current \ gone) \cup {issued'}
  /\ Answer(p, issued')

ServeLogin(p) ==
  /\ p.kind = "login" /\ p.answer = Pending
  /\ \/ Issue(p, {})
     \/ Answer(p, Denied) /\ UNCHANGED <<issued, current>>
  /\ UNCHANGED <<cookie, store, waiting, call, lost>>

ServeRefresh(p) ==
  /\ p.kind = "refresh" /\ p.answer = Pending
  /\ IF Valid(p) THEN Issue(p, Spent(p))
     ELSE Answer(p, Denied) /\ UNCHANGED <<issued, current>>
  /\ UNCHANGED <<cookie, store, waiting, call, lost>>

-----------------------------------------------------------------------------
(* The answer at the browser.                                              *)

\* Mutant: `restoring` is not set back to null.
WakeButKeep(t, n) ==
  /\ UNCHANGED waiting
  /\ call' = [call EXCEPT ![t] = [c \in Calls |->
       IF c \notin waiting[t] THEN @[c] ELSE IF n = NoNumber THEN Idle ELSE Retry(@[c], n)]]

\* The promise settles: it is null again, and whoever awaited it goes on.
Wake(t, n) ==
  /\ waiting' = [waiting EXCEPT ![t] = {}]
  /\ call' = [call EXCEPT ![t] = [c \in Calls |->
       IF c \notin waiting[t] THEN @[c] ELSE IF n = NoNumber THEN Idle ELSE Retry(@[c], n)]]

\* The page that sent p learns n, NoNumber for an error.
Learn(p, n) ==
  LET t == p.tab IN
  IF ~p.page THEN UNCHANGED <<store, waiting, call>>
  ELSE /\ store' = [store EXCEPT ![t] =
            IF n # NoNumber THEN SetAuth(n) ELSE IF p.kind = "login" THEN @ ELSE Logout]
       /\ IF p.kind = "login" THEN UNCHANGED <<waiting, call>> ELSE Wake(t, n)

\* The cookies of an answer are the browser's, whether or not the page is still there.
Deliver(p) ==
  /\ p.answer # Pending
  /\ cookie' = IF p.answer = Denied THEN cookie ELSE p.answer
  /\ Learn(p, IF p.answer = Denied THEN NoNumber ELSE p.answer)
  /\ posts' = posts \ {p}
  /\ UNCHANGED <<issued, current, lost>>

\* A timeout or a network error, before or after the server has done its part.
Lose(p) ==
  /\ lost < MaxLost /\ lost' = lost + 1
  /\ Learn(p, NoNumber)
  /\ posts' = posts \ {p}
  /\ UNCHANGED <<issued, current, cookie>>

Next ==
  \/ \E t \in Tabs : Load(t) \/ Login(t)
  \/ \E t \in Tabs, c \in Calls : Send(t, c) \/ Settled(t, c) \/ Unauthorized(t, c)
  \/ \E p \in posts : ServeLogin(p) \/ ServeRefresh(p) \/ Deliver(p) \/ Lose(p)

Spec == Init /\ [][Next]_vars

-----------------------------------------------------------------------------
(* Properties.                                                             *)

\* Every variable has its type.
TypeOK ==
  /\ issued \in 0..MaxIssued /\ lost \in 0..MaxLost
  /\ current \subseteq Numbers
  /\ cookie \in Numbers \cup {NoNumber}
  /\ store \in [Tabs -> Stores]
  /\ waiting \in [Tabs -> SUBSET (Calls \cup {"mount"})]
  /\ posts \subseteq Posts
  /\ call \in [Tabs -> [Calls -> Requests]]

\* A request that waits for a restore has one that will answer it, and none is under way
\* for nobody (restoring, controlApi.ts:95-100).
NobodyWaitsInVain == \A t \in Tabs :
  /\ (waiting[t] # {}) <=> \E p \in posts : p.tab = t /\ p.kind = "refresh" /\ p.page
  /\ {c \in Calls : call[t][c].state = "waiting"} = waiting[t] \ {"mount"}

\* A refresh that presents the csrf token of the browser's cookie is refused only when an
\* answer or a page was lost before: concurrent restores of a tab never present a spent token
\* (controlApi.ts:93-94), and neither does the other tab.
SpentOnlyAfterLoss == \A p \in posts :
  p.kind = "refresh" /\ p.answer = Denied /\ p.header = p.cookie => lost > 0

\* As long as nothing is lost the browser holds a session it can renew, or an answer that
\* renews it is on its way.
CookieIsCurrent ==
  lost = 0 /\ cookie # NoNumber =>
    cookie \in current \/ \E p \in posts : p.cookie = cookie /\ p.answer \in current

\* A request is sent a second time only with another token than the one refused, and a second
\* refusal is final (the interceptor, controlApi.ts:26-34).
RetriesAreRenewed == \A t \in Tabs, c \in Calls :
  call[t][c].state = "sent" => call[t][c].with # call[t][c].refused

SessionHolds ==
  NobodyWaitsInVain /\ SpentOnlyAfterLoss /\ CookieIsCurrent /\ RetriesAreRenewed
=============================================================================
