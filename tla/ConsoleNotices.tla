--------------------------- MODULE ConsoleNotices ---------------------------
(***************************************************************************)
(* The notifications page (apps/web/src/pages/applications/                 *)
(* Notifications.tsx): notices composed, sent and cancelled by requests     *)
(* whose answers come later, against the rows of the server                 *)
(* (control_api/app/domains/notifications/service.py, which Notifications   *)
(* models in full).                                                         *)
(*                                                                         *)
(* No button waits for the request it made, and the buttons of a row follow *)
(* the status listed: every one may be pressed again, at any time.  A       *)
(* refusal is not shown, and the banner of an earlier dispatch stays.       *)
(***************************************************************************)
EXTENDS Integers

CONSTANTS
  Notices,
  Clicks,       \* requests there may be under way
  MaxAudience,  \* bound on the subscribers
  NoBanner

VARIABLES
  notices,       \* [Notices -> status and number of deliveries]
  audience,      \* subscribers a dispatch would find now
  noticesListed, \* [Notices -> status listed]
  noticeForm,    \* the composition: shown or not, and what it holds
  noticeCall,    \* [Clicks -> request and its answer]
  banner         \* dispatchResult

vars == <<notices, audience, noticesListed, noticeForm, noticeCall, banner>>

\* Notification; "none" stands for a row not made yet, "sent" for processing too.
Statuses == {"none", "draft", "scheduled", "sent", "cancelled"}
Open == {"draft", "scheduled"}
Unmade == [status |-> "none", deliveries |-> 0]

\* CreateNotificationPayload, "empty" for the form as it is after a success.
Kinds == Open \cup {"empty"}

ConstantsAssumption ==
  MaxAudience \in Nat /\ NoBanner \notin [notice : Notices, count : 0..MaxAudience]

Idle == [action |-> "none", kind |-> "empty", notice |-> 0, answer |-> "none", count |-> 0]

Asked(c, action, kind, n) ==
  /\ noticeCall[c] = Idle
  /\ noticeCall' = [noticeCall EXCEPT ![c] =
       [action |-> action, kind |-> kind, notice |-> n, answer |-> "awaited", count |-> 0]]

Answered(c, answer, count) ==
  noticeCall' = [noticeCall EXCEPT ![c].answer = answer, ![c].count = count]

-----------------------------------------------------------------------------
(* The server.                                                             *)

\* Mutant: a replay counts whom it would reach now.
CountedAgain(n) == audience

\* existing_count: the deliveries made by the first dispatch.
Recorded(n) == notices[n].deliveries

\* Mutant: what was sent can still be cancelled.
NotCancelled(n) == notices[n].status # "cancelled"

\* The statuses dispatch and cancel accept.
Pending(n) == notices[n].status \in Open

Dispatched(n) == [notices EXCEPT ![n] = [status |-> "sent", deliveries |-> audience]]
Cancelled(n) == [notices EXCEPT ![n].status = "cancelled"]

-----------------------------------------------------------------------------
Init ==
  /\ notices = [n \in Notices |-> Unmade] /\ audience = 0
  /\ noticesListed = [n \in Notices |-> "none"]
  /\ noticeForm = [open |-> FALSE, kind |-> "empty"]
  /\ noticeCall = [c \in Clicks |-> Idle] /\ banner = NoBanner

\* The scheduler's job and other administrators.
Elsewhere(n) ==
  /\ Pending(n) /\ notices' \in {Dispatched(n), Cancelled(n)}
  /\ UNCHANGED <<audience, noticesListed, noticeForm, noticeCall, banner>>

SubscribersChange(k) ==
  /\ audience' = k /\ k # audience
  /\ UNCHANGED <<notices, noticesListed, noticeForm, noticeCall, banner>>

\* The query, fetched again after every success, on focus and when it is stale.
List ==
  /\ noticesListed' = [n \in Notices |-> notices[n].status]
  /\ UNCHANGED <<notices, audience, noticeForm, noticeCall, banner>>

\* Compose, and the cross, which hides the form and keeps what is in it.
ShowForm(shown) ==
  /\ noticeForm' = [noticeForm EXCEPT !.open = shown] /\ noticeForm' # noticeForm
  /\ UNCHANGED <<notices, audience, noticesListed, noticeCall, banner>>

\* The fields of the form.
Fill(kind) ==
  /\ noticeForm.open /\ noticeForm.kind # kind
  /\ noticeForm' = [noticeForm EXCEPT !.kind = kind]
  /\ UNCHANGED <<notices, audience, noticesListed, noticeCall, banner>>

Save(c) ==
  /\ noticeForm.open /\ noticeForm.kind # "empty"
  /\ Asked(c, "create", noticeForm.kind, 0)
  /\ UNCHANGED <<notices, audience, noticesListed, noticeForm, banner>>

\* Send now, and Cancel, for a row listed as open.
Press(c, n, action) ==
  /\ noticesListed[n] \in Open
  /\ Asked(c, action, "empty", n)
  /\ UNCHANGED <<notices, audience, noticesListed, noticeForm, banner>>

\* createNotification, refused for its contents or not.
ServeCreate(c) ==
  /\ noticeCall[c].action = "create"
  /\ \/ Answered(c, "refused", 0) /\ UNCHANGED notices
     \/ /\ Answered(c, "ok", 0)
        /\ \E n \in Notices :
             /\ notices[n] = Unmade
             /\ notices' = [notices EXCEPT ![n].status = noticeCall[c].kind]

\* dispatchNotification: a replay, a refusal, or the dispatch.
ServeDispatch(c) ==
  LET n == noticeCall[c].notice
  IN  /\ noticeCall[c].action = "dispatch"
      /\ CASE notices[n].deliveries > 0 -> Answered(c, "ok", Recorded(n)) /\ UNCHANGED notices
           [] notices[n].deliveries = 0 /\ Pending(n) ->
                Answered(c, "ok", audience) /\ notices' = Dispatched(n)
           [] OTHER -> Answered(c, "refused", 0) /\ UNCHANGED notices

\* cancelNotification
ServeCancel(c) ==
  LET n == noticeCall[c].notice
  IN  /\ noticeCall[c].action = "cancel"
      /\ IF Pending(n) THEN Answered(c, "ok", 0) /\ notices' = Cancelled(n)
         ELSE Answered(c, "refused", 0) /\ UNCHANGED notices

Serve(c) ==
  /\ noticeCall[c].answer = "awaited"
  /\ ServeCreate(c) \/ ServeDispatch(c) \/ ServeCancel(c)
  /\ UNCHANGED <<audience, noticesListed, noticeForm, banner>>

\* onSuccess of the three mutations; an error changes nothing on the page but the form's text.
Answer(c) ==
  /\ noticeCall[c].answer \in {"ok", "refused"}
  /\ noticeCall' = [noticeCall EXCEPT ![c] = Idle]
  /\ LET call == noticeCall[c] IN
       /\ noticeForm' = IF call.answer = "ok" /\ call.action = "create"
                        THEN [open |-> FALSE, kind |-> "empty"] ELSE noticeForm
       /\ banner' = IF call.answer = "ok" /\ call.action = "dispatch"
                    THEN [notice |-> call.notice, count |-> call.count] ELSE banner
  /\ UNCHANGED <<notices, audience, noticesListed>>

Next ==
  \/ List
  \/ \E shown \in BOOLEAN : ShowForm(shown)
  \/ \E k \in 0..MaxAudience : SubscribersChange(k)
  \/ \E kind \in Open : Fill(kind)
  \/ \E n \in Notices : Elsewhere(n)
  \/ \E c \in Clicks : Save(c) \/ Serve(c) \/ Answer(c)
  \/ \E c \in Clicks, n \in Notices, a \in {"dispatch", "cancel"} : Press(c, n, a)

Spec == Init /\ [][Next]_vars

-----------------------------------------------------------------------------
(* Properties.                                                             *)

\* Every variable has its type.
TypeOK ==
  /\ notices \in [Notices -> [status : Statuses, deliveries : 0..MaxAudience]]
  /\ noticesListed \in [Notices -> Statuses] /\ audience \in 0..MaxAudience
  /\ noticeForm \in [open : BOOLEAN, kind : Kinds]

\* "12 recipients queued" is said of a notice that was sent, to so many: a second click counts
\* the deliveries of the first, whoever has subscribed or left since (Notifications.tsx:26).
BannerTellsASend ==
  banner # NoBanner =>
    /\ notices[banner.notice].status = "sent"
    /\ notices[banner.notice].deliveries = banner.count

\* A notice cancelled has gone to nobody, whichever of the two buttons was pressed first and
\* however often.
CancelledIsSilent == \A n \in Notices : notices[n].status = "cancelled" => notices[n].deliveries = 0

NoticesHold == BannerTellsASend /\ CancelledIsSilent
=============================================================================
