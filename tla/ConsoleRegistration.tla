------------------------- MODULE ConsoleRegistration -------------------------
(***************************************************************************)
(* Registering an application (apps/web/src/pages/applications/             *)
(* ApplicationSelection.tsx).  The server keeps a hash of the new key       *)
(* (control_api/app/domains/applications/service.py): the answer is the     *)
(* only place its secret is ever in, and the page the only one to show it.  *)
(*                                                                         *)
(* An answer that comes after the page has been left sets the state of no   *)
(* component; one that is lost leaves an application whose slug is taken    *)
(* and whose key nobody knows.                                             *)
(***************************************************************************)
CONSTANTS
  Slugs,    \* what is typed as slug; the other fields go with it
  NoSlug,   \* an empty form
  NoSecret

ConstantsAssumption == NoSecret \notin Slugs

VARIABLES
  registered, \* [Slugs -> who registered it, "nobody" before]
  showForm,
  typed,      \* the form, which outlives its closing but not the page
  requests,   \* [Slugs -> the request of this page], "none" when there is none
  pending,    \* isPending: the last request, or the list it invalidated, is under way
  secret,     \* the application whose credential is on the screen
  copied,     \* applications whose credential was there until Done
  unseen      \* applications whose answer was lost, or came when the page had been left

vars == <<registered, showForm, typed, requests, pending, secret, copied, unseen>>

\* CreateApplicationPayload
Forms == Slugs \cup {NoSlug}

\* IssuedCredential, by its application.
Secrets == Slugs \cup {NoSecret}

\* Mutant: the button is not disabled.
AnyTime == TRUE

\* disabled={createMutation.isPending}
Ready == ~pending

\* The window of a credential covers the page, and the form.
Covered == secret # NoSecret

-----------------------------------------------------------------------------
Init ==
  /\ registered = [s \in Slugs |-> "nobody"]
  /\ showForm = FALSE /\ typed = NoSlug
  /\ requests = [s \in Slugs |-> "none"] /\ pending = FALSE
  /\ secret = NoSecret /\ copied = {} /\ unseen = {}

\* Another owner.
Elsewhere(s) ==
  /\ registered[s] = "nobody" /\ registered' = [registered EXCEPT ![s] = "other"]
  /\ UNCHANGED <<showForm, typed, requests, pending, secret, copied, unseen>>

\* Add application, and the cross of the form.
ShowForm(open) ==
  /\ ~Covered /\ showForm # open /\ showForm' = open
  /\ UNCHANGED <<registered, typed, requests, pending, secret, copied, unseen>>

Fill(s) ==
  /\ showForm /\ ~Covered /\ typed' = s
  /\ UNCHANGED <<registered, showForm, requests, pending, secret, copied, unseen>>

\* The form's button.
Submit ==
  /\ showForm /\ ~Covered /\ typed # NoSlug /\ Ready
  /\ requests[typed] = "none"
  /\ requests' = [requests EXCEPT ![typed] = "sent"] /\ pending' = TRUE
  /\ UNCHANGED <<registered, showForm, typed, secret, copied, unseen>>

\* ApplicationService.create: the slug is unique.
Serve(s) ==
  /\ requests[s] \in {"sent", "left"}
  /\ IF registered[s] = "nobody"
     THEN /\ registered' = [registered EXCEPT ![s] = "here"]
          /\ requests' = [requests EXCEPT ![s] = IF @ = "sent" THEN "made" ELSE "none"]
          /\ unseen' = IF requests[s] = "left" THEN unseen \cup {s} ELSE unseen
          /\ UNCHANGED pending
     ELSE /\ requests' = [requests EXCEPT ![s] = "none"]
          /\ pending' = (pending /\ requests[s] = "left")
          /\ UNCHANGED <<registered, unseen>>
  /\ UNCHANGED <<showForm, typed, secret, copied>>

\* onSuccess: the credential is shown, the form closed and emptied; then the list is fetched.
Answer(s) ==
  /\ requests[s] = "made" /\ requests' = [requests EXCEPT ![s] = "none"]
  /\ secret' = s /\ showForm' = FALSE /\ typed' = NoSlug
  /\ UNCHANGED <<registered, pending, copied, unseen>>

Refetched ==
  /\ pending /\ \A s \in Slugs : requests[s] \notin {"sent", "made"}
  /\ pending' = FALSE
  /\ UNCHANGED <<registered, showForm, typed, requests, secret, copied, unseen>>

\* The request or its answer does not arrive: the form says that nothing was registered.
Lose(s) ==
  /\ requests[s] \in {"sent", "made"} /\ requests' = [requests EXCEPT ![s] = "none"]
  /\ pending' = FALSE
  /\ unseen' = IF requests[s] = "made" THEN unseen \cup {s} ELSE unseen
  /\ UNCHANGED <<registered, showForm, typed, secret, copied>>

\* Done
Done ==
  /\ Covered /\ copied' = copied \cup {secret} /\ secret' = NoSecret
  /\ UNCHANGED <<registered, showForm, typed, requests, pending, unseen>>

\* A card, or the browser's history: the page is gone, with what it shows.
Leave ==
  /\ showForm' = FALSE /\ typed' = NoSlug /\ pending' = FALSE /\ secret' = NoSecret
  /\ requests' = [s \in Slugs |-> IF requests[s] = "sent" THEN "left"
                                  ELSE IF requests[s] = "made" THEN "none" ELSE requests[s]]
  /\ unseen' = unseen \cup {s \in Slugs : requests[s] = "made" \/ s = secret}
  /\ UNCHANGED <<registered, copied>>

Next ==
  \/ \E s \in Slugs : Elsewhere(s) \/ Fill(s) \/ Serve(s) \/ Answer(s) \/ Lose(s)
  \/ \E open \in BOOLEAN : ShowForm(open)
  \/ Submit \/ Refetched \/ Done \/ Leave

Spec == Init /\ [][Next]_vars

-----------------------------------------------------------------------------
(* Properties.                                                             *)

\* Every variable has its type.
TypeOK ==
  /\ registered \in [Slugs -> {"nobody", "here", "other"}]
  /\ {showForm, pending} \subseteq BOOLEAN
  /\ typed \in Forms /\ secret \in Secrets
  /\ requests \in [Slugs -> {"none", "sent", "made", "left"}]
  /\ copied \subseteq Slugs /\ unseen \subseteq Slugs

\* "Copy this credential now. It will not be shown again" (ApplicationSelection.tsx:105): the
\* key of an application registered here is on its way to the screen, there, or was there
\* until its owner had done with it; only a lost answer and a page left lose it, no other
\* registration's answer does.
NoKeyUnseen ==
  \A s \in Slugs : registered[s] = "here" =>
    requests[s] = "made" \/ secret = s \/ s \in copied \cup unseen
=============================================================================
