--------------------------- MODULE ConsolePartners ---------------------------
(***************************************************************************)
(* The partners' page (apps/web/src/pages/applications/Affiliates.tsx)      *)
(* against the partners of the server.  The page works on the partner       *)
(* selected or, as long as none is, on the first of the list; its dialogs   *)
(* do not remember whom they were opened for.  A dialog is on the screen    *)
(* only while that partner is listed, and covers the list while it is.      *)
(***************************************************************************)
EXTENDS Integers, Sequences, FiniteSetsExt

CONSTANTS
  Partners,   \* numbered in the order of their names, by which the server lists them
  NoPartner,
  MaxSent  \* bound on the payouts and edits sent

VARIABLES
  partner,       \* [Partners -> status], "none" before it is created
  listedPartner, \* [Partners -> status] as listed, "none" for one that is not
  selectedId,
  creating,      \* createAffiliate is under way
  partnerDialog, \* "payout" or "edit", "none" when closed
  openedFor,     \* the partner it was opened for
  shaken,        \* since then the selection has changed under it
  sent    \* payouts and edits: opened for, sent to, and whether nothing was shaken

vars == <<partner, listedPartner, selectedId, creating, partnerDialog, openedFor, shaken,
          sent>>

\* Affiliate
Statuses == {"none", "active", "disabled", "archived"}

OnList(rows) == {p \in Partners : rows[p] # "none"}

\* Mutant: the selection is not looked at.
FirstOnly(id, rows) == IF OnList(rows) = {} THEN NoPartner ELSE Min(OnList(rows))

\* activeAffiliateId
ActiveId(id, rows) ==
  IF id # NoPartner THEN id ELSE IF OnList(rows) = {} THEN NoPartner ELSE Min(OnList(rows))

Active == ActiveId(selectedId, listedPartner)

\* `selected`, and the dialog that needs it.
Selected == Active # NoPartner /\ Active \in OnList(listedPartner)
OnScreen == partnerDialog # "none" /\ Selected

\* The part of the page's state a list or a selection changes.
Moved(id, rows) ==
  /\ selectedId' = id /\ listedPartner' = rows
  /\ shaken' = (shaken \/ (partnerDialog # "none" /\
       \/ id # selectedId
       \/ id = NoPartner /\ OnList(rows) # OnList(listedPartner)))

-----------------------------------------------------------------------------
Init ==
  /\ partner \in [Partners -> {"none", "active"}]
  /\ listedPartner = [p \in Partners |-> "none"]
  /\ selectedId = NoPartner /\ creating = FALSE
  /\ partnerDialog = "none" /\ openedFor = NoPartner /\ shaken = FALSE
  /\ sent = <<>>

\* Another owner creates a partner or changes its status; update_status knows no version, and
\* takes an archived partner back.
Elsewhere(p, status) ==
  /\ status # "none" /\ (partner[p] = "none" => status = "active")
  /\ partner' = [partner EXCEPT ![p] = status]
  /\ UNCHANGED <<listedPartner, selectedId, creating, partnerDialog, openedFor, shaken, sent>>

\* listAffiliates: archived partners are not listed.
List ==
  /\ Moved(selectedId, [p \in Partners |-> IF partner[p] = "archived" THEN "none" ELSE partner[p]])
  /\ UNCHANGED <<partner, creating, partnerDialog, openedFor, sent>>

\* A card, unless a dialog covers it.
Select(p) ==
  /\ p \in OnList(listedPartner) /\ ~OnScreen
  /\ Moved(p, listedPartner)
  /\ UNCHANGED <<partner, creating, partnerDialog, openedFor, sent>>

\* The dialog of a new partner; closed before its answer, it does not call the request back.
Create ==
  /\ ~OnScreen /\ ~creating /\ creating' = TRUE
  /\ UNCHANGED <<partner, listedPartner, selectedId, partnerDialog, openedFor, shaken, sent>>

\* createAffiliate answers: setSelectedId(created.id), whatever is open by then.
Created(p) ==
  /\ creating /\ creating' = FALSE
  /\ partner[p] = "none" /\ partner' = [partner EXCEPT ![p] = "active"]
  /\ Moved(p, listedPartner)
  /\ UNCHANGED <<partnerDialog, openedFor, sent>>

NotCreated ==
  /\ creating /\ creating' = FALSE
  /\ UNCHANGED <<partner, listedPartner, selectedId, partnerDialog, openedFor, shaken, sent>>

\* setShowPayout(true); setShowEdit(true) with the selected partner's fields.
OpenDialog(kind) ==
  /\ Selected /\ ~OnScreen
  /\ partnerDialog' = kind /\ openedFor' = Active /\ shaken' = FALSE
  /\ UNCHANGED <<partner, listedPartner, selectedId, creating, sent>>

CloseDialog ==
  /\ OnScreen /\ partnerDialog' = "none" /\ openedFor' = NoPartner
  /\ UNCHANGED <<partner, listedPartner, selectedId, creating, shaken, sent>>

\* What the dialog of this kind sends goes to the partner active now; a success closes it.
Send(kind) ==
  /\ OnScreen /\ partnerDialog = kind /\ Len(sent) < MaxSent
  /\ sent' = Append(sent, [from |-> openedFor, to |-> Active, steady |-> ~shaken])
  /\ partnerDialog' \in {partnerDialog, "none"}
  /\ openedFor' = IF partnerDialog' = "none" THEN NoPartner ELSE openedFor
  /\ UNCHANGED <<partner, listedPartner, selectedId, creating, shaken>>

\* recordCommissionPayout; what the ledger makes of it is Payouts.
SendPayout == Send("payout")

\* updateAffiliate, with the fields of the partner the dialog was opened for.
SendEdit == Send("edit")

\* updateAffiliateStatus, from the row as listed.
SetStatus(archive) ==
  /\ Selected /\ ~OnScreen
  /\ partner' = [partner EXCEPT ![Active] =
       IF archive THEN "archived"
       ELSE IF listedPartner[Active] = "active" THEN "disabled" ELSE "active"]
  /\ UNCHANGED <<listedPartner, selectedId, creating, partnerDialog, openedFor, shaken, sent>>

Next ==
  \/ \E p \in Partners : Select(p) \/ Created(p) \/ \E s \in Statuses : Elsewhere(p, s)
  \/ List \/ Create \/ NotCreated \/ CloseDialog \/ SendPayout \/ SendEdit
  \/ \E kind \in {"payout", "edit"} : OpenDialog(kind)
  \/ \E archive \in BOOLEAN : SetStatus(archive)

Spec == Init /\ [][Next]_vars

-----------------------------------------------------------------------------
(* Properties.                                                             *)

\* Every variable has its type.
TypeOK ==
  /\ {partner, listedPartner} \subseteq [Partners -> Statuses]
  /\ {selectedId, openedFor} \subseteq Partners \cup {NoPartner}
  /\ {creating, shaken} \subseteq BOOLEAN
  /\ partnerDialog \in {"none", "payout", "edit"}
  /\ sent \in Seq([from : Partners, to : Partners, steady : BOOLEAN])

\* A dialog stays with the partner it was opened for, and pays and edits nobody else, unless
\* the answer of a creation or a click behind a dialog that had left the screen selected
\* another, or none was selected and the list has changed (Affiliates.tsx:29, :32).
DialogsKeepTheirPartner ==
  /\ partnerDialog # "none" /\ ~shaken => openedFor = Active
  /\ \A i \in DOMAIN sent : sent[i].steady => sent[i].to = sent[i].from
=============================================================================
