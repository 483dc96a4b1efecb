------------------------- MODULE ConsoleCredentials -------------------------
(***************************************************************************)
(* Rotating the integration key: rotate_credential of                       *)
(* control_api/app/domains/settings/service.py, the settings page           *)
(* (apps/web/src/pages/applications/Settings.tsx) that shows the new secret *)
(* once, and the application that presents a key.                           *)
(*                                                                         *)
(* A rotation locks the rows that were there when its statement began, and  *)
(* waits for another one's commit to do so: it then sees what that one made *)
(* of those rows, but not the row it added.                                 *)
(***************************************************************************)
EXTENDS Integers, FiniteSets, FiniteSetsExt

CONSTANTS
  MaxKey,       \* bound on the rotations and the versions
  NoSecret

Versions == 1..MaxKey
Failed == 0

ConstantsAssumption == MaxKey \in Nat \ {0} /\ NoSecret \notin Nat

VARIABLES
  credential,  \* [Versions -> status], "none" before it is issued
  rotations,   \* requests under way
  rotated,     \* requests sent
  secret,      \* version of the secret on the screen, NoSecret for none
  crowded      \* two rotations have been under way at once, or one was made elsewhere

vars == <<credential, rotations, rotated, secret, crowded>>

\* CredentialMetadata, with the end of the grace period as a status.
Statuses == {"none", "active", "grace", "ended", "revoked"}

Issued == {v \in Versions : credential[v] # "none"}
ActiveKeys == {v \in Versions : credential[v] = "active"}

\* A request: the rows it has found, {} before its statement began; the version issued.
Rotations == [id : Versions, page : BOOLEAN, found : SUBSET Versions,
              answer : Versions \cup {NoSecret, Failed}]

\* Mutant: two keys may have one version.
NoConflict(v) == FALSE

\* uq_app_credential_version
Conflict(v) == credential[v] # "none"

-----------------------------------------------------------------------------
\* create_application has issued the first key.
Init ==
  /\ credential = [v \in Versions |-> IF v = 1 THEN "active" ELSE "none"]
  /\ rotations = {} /\ rotated = 0
  /\ secret = NoSecret /\ crowded = FALSE

\* rotateCredential: the button, never disabled, or another owner.
Rotate(page) ==
  /\ rotated + 1 < MaxKey /\ rotated' = rotated + 1
  /\ rotations' = rotations \cup
       {[id |-> rotated', page |-> page, found |-> {}, answer |-> NoSecret]}
  /\ crowded' = (crowded \/ rotations # {} \/ ~page)
  /\ UNCHANGED <<credential, secret>>

Step(r, s) == rotations' = (rotations \ {r}) \cup {s}

\* The statement begins.
Find(r) ==
  /\ r.found = {}
  /\ Step(r, [r EXCEPT !.found = Issued])
  /\ UNCHANGED <<credential, rotated, secret, crowded>>

\* It has its locks: the active keys it found are replaced, with or without a grace period,
\* and the next version is added.
Replace(r) ==
  LET v == Max(r.found) + 1 IN
  /\ r.found # {} /\ r.answer = NoSecret /\ v \in Versions
  /\ IF Conflict(v)
     THEN Step(r, [r EXCEPT !.answer = Failed]) /\ UNCHANGED credential
     ELSE /\ \E old \in {"grace", "revoked"} :
               /\ r.page => old = "grace"
               /\ credential' = [k \in Versions |->
                    IF k = v THEN "active"
                    ELSE IF k \in r.found /\ credential[k] = "active" THEN old
                    ELSE credential[k]]
          /\ Step(r, [r EXCEPT !.answer = v])
  /\ UNCHANGED <<rotated, secret, crowded>>

\* onSuccess: setIssuedSecret, in the order in which the answers come.
Show(r) ==
  /\ r.answer # NoSecret
  /\ secret' = IF r.page /\ r.answer # Failed THEN r.answer ELSE secret
  /\ rotations' = rotations \ {r}
  /\ UNCHANGED <<credential, rotated, crowded>>

\* 24 hours later.
GraceEnds(v) ==
  /\ credential[v] = "grace"
  /\ credential' = [credential EXCEPT ![v] = "ended"]
  /\ UNCHANGED <<rotations, rotated, secret, crowded>>

Next ==
  \/ \E page \in BOOLEAN : Rotate(page)
  \/ \E r \in rotations : Find(r) \/ Replace(r) \/ Show(r)
  \/ \E v \in Versions : GraceEnds(v)

Spec == Init /\ [][Next]_vars

-----------------------------------------------------------------------------
(* Properties.                                                             *)

\* Every variable has its type.
TypeOK ==
  /\ credential \in [Versions -> Statuses]
  /\ rotations \subseteq Rotations /\ rotated \in 0..MaxKey
  /\ secret \in Versions \cup {NoSecret} /\ crowded \in BOOLEAN

\* However many rotations meet, one key is active, the newest: the one of two that does not
\* see the other's row is refused by its version, never a second active key.
OneActiveKey == ActiveKeys = {Max(Issued)}

\* The secret on the screen is that of the active key, and stays so until the next rotation,
\* if no other was under way (Settings.tsx:27: the answers come in any order, and the older
\* one's key ends within a day).
SecretIsActive == ~crowded /\ rotations = {} => secret = NoSecret \/ secret \in ActiveKeys

CredentialsHold == OneActiveKey /\ SecretIsActive
=============================================================================
