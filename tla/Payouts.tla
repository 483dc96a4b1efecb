------------------------------ MODULE Payouts ------------------------------
(***************************************************************************)
(* The commission ledger of an application's affiliates: payouts and       *)
(* adjustments by hand (apps/control_api/app/domains/affiliates/service.py),*)
(* commission earned and reversed by settlements                            *)
(* (domains/coupons/service.py), and the partners' status.                 *)
(*                                                                         *)
(* create_commission_entry holds the affiliate's row from its first        *)
(* statement to its commit, two steps here.  Settlements do not lock that  *)
(* row, but to insert an entry is to check its foreign key, and that waits *)
(* for whoever holds it FOR UPDATE.                                        *)
(***************************************************************************)
EXTENDS Integers, FiniteSets, FiniteSetsExt

CONSTANTS
  Affiliates,
  References,   \* of entries made by hand
  Redemptions,  \* of affiliate coupons
  PartnerOf,    \* [Redemptions -> Affiliates]
  CurrencyOf,   \* [Redemptions -> Currencies]
  Currencies,
  Commission,   \* of one redemption
  Payments,     \* amounts of payouts asked for
  Corrections,  \* amounts of adjustments asked for
  Callers,      \* concurrent requests
  NoEntry

ConstantsAssumption ==
  /\ IsFiniteSet(References) /\ IsFiniteSet(Redemptions)
  /\ References \intersect Redemptions = {}
  /\ PartnerOf \in [Redemptions -> Affiliates]
  /\ CurrencyOf \in [Redemptions -> Currencies]
  /\ Commission \in Nat \ {0}
  /\ Payments \subseteq Nat \ {0}
  /\ Corrections \subseteq Int \ {0}

VARIABLES
  status,   \* [Affiliates -> AffiliateStatus]
  entries,  \* affiliate_commissions
  writing,  \* [Callers -> the entry a request is about to insert]
  answers   \* entries a request was answered 201 for: history

vars == <<status, entries, writing, answers>>

Entry(type, amounts, refs) ==
  [affiliate : Affiliates, currency : Currencies, type : {type}, amount : amounts,
   reference : refs]

\* What CommissionEntryCreate lets through.
Requests == Entry("paid", Payments, References) \union Entry("adjustment", Corrections, References)

Entries ==
  Requests \union Entry("earned", {Commission}, Redemptions)
           \union Entry("adjustment", {-Commission}, Redemptions)

\* The unique key (reference, entry_type).
SameKey(e) == {f \in entries : f.reference = e.reference /\ f.type = e.type}

\* Mutant: the row of the affiliate is locked by nobody.
NoLock(a) == TRUE

\* Nobody holds the affiliate's row FOR UPDATE.
Unlocked(a) == \A c \in Callers : writing[c] # NoEntry => writing[c].affiliate # a

Total(S) == MapThenSumSet(LAMBDA e : e.amount, S)

\* earned + adjustments - paid
Available(a, cur) ==
  LET of(type) == {e \in entries : e.affiliate = a /\ e.currency = cur /\ e.type = type}
  IN  Total(of("earned")) + Total(of("adjustment")) - Total(of("paid"))

\* Mutant: a reference that was used answers for whatever is asked under it.
KeyOnly(e) == SameKey(e) # {}

\* A reference used before is answered only if all of it is the same.
Recorded(e) == e \in entries

-----------------------------------------------------------------------------
Init ==
  /\ status = [a \in Affiliates |-> "active"]
  /\ entries = {}
  /\ writing = [c \in Callers |-> NoEntry]
  /\ answers = {}

\* create_commission_entry as far as its insert.
Record(c, e) ==
  /\ writing[c] = NoEntry
  /\ Unlocked(e.affiliate)
  /\ status[e.affiliate] # "archived"
  /\ SameKey(e) = {}
  /\ e.type = "paid" => e.amount <= Available(e.affiliate, e.currency)
  /\ writing' = [writing EXCEPT ![c] = e]
  /\ UNCHANGED <<status, entries, answers>>

\* The reference was used before, for the same entry.
Repeat(e) ==
  /\ Unlocked(e.affiliate)
  /\ status[e.affiliate] # "archived"
  /\ Recorded(e)
  /\ answers' = answers \union {e}
  /\ UNCHANGED <<status, entries, writing>>

Commit(c) ==
  LET e == writing[c]
  IN  /\ e # NoEntry
      /\ SameKey(e) = {}
      /\ entries' = entries \union {e}
      /\ answers' = answers \union {e}
      /\ writing' = [writing EXCEPT ![c] = NoEntry]
      /\ UNCHANGED status

\* The unique key refuses the insert: the same reference, for another affiliate.
Rollback(c) ==
  /\ writing[c] # NoEntry
  /\ SameKey(writing[c]) # {}
  /\ writing' = [writing EXCEPT ![c] = NoEntry]
  /\ UNCHANGED <<status, entries, answers>>

\* Mutant: the reversal is not negative.
EntryUnsigned(r, type, amount) ==
  [affiliate |-> PartnerOf[r], currency |-> CurrencyOf[r], type |-> type,
   amount |-> Commission, reference |-> r]

EntryOf(r, type, amount) ==
  [affiliate |-> PartnerOf[r], currency |-> CurrencyOf[r], type |-> type, amount |-> amount,
   reference |-> r]

Earned(r) == EntryOf(r, "earned", Commission)

\* A settlement inserts: commission at capture, its reversal at a full refund.
Insert(e) ==
  /\ SameKey(e) = {}
  /\ Unlocked(e.affiliate)
  /\ entries' = entries \union {e}
  /\ UNCHANGED <<status, writing, answers>>

Earn(r) == Insert(Earned(r))

Reverse(r) == Earned(r) \in entries /\ Insert(EntryOf(r, "adjustment", -Commission))

\* update_status allows any status after any other.
SetStatus(a, s) ==
  /\ Unlocked(a)
  /\ status[a] # s
  /\ status' = [status EXCEPT ![a] = s]
  /\ UNCHANGED <<entries, writing, answers>>

Next ==
  \/ \E c \in Callers : Commit(c) \/ Rollback(c)
  \/ \E c \in Callers, e \in Requests : Record(c, e)
  \/ \E e \in Requests : Repeat(e)
  \/ \E r \in Redemptions : Earn(r) \/ Reverse(r)
  \/ \E a \in Affiliates, s \in {"active", "disabled", "archived"} : SetStatus(a, s)

Spec == Init /\ [][Next]_vars

-----------------------------------------------------------------------------
(* Properties.                                                             *)

\* Every variable has its type.
TypeOK ==
  /\ status \in [Affiliates -> {"active", "disabled", "archived"}]
  /\ entries \in SUBSET Entries
  /\ writing \in [Callers -> Requests \union {NoEntry}]
  /\ answers \in SUBSET Requests

\* A payout leaves a balance that is not negative at the moment it is written, whatever
\* settlements, adjustments and other payouts did since it looked; and it is not written to a
\* partner archived meanwhile.
PayoutsAreCovered ==
  [][\A e \in entries' \ entries :
       e.type = "paid" => /\ e.amount <= Available(e.affiliate, e.currency)
                          /\ status[e.affiliate] # "archived"]_vars

\* What was asked for and answered is in the ledger as it was asked for, and a reference is
\* there once for each type.
AnsweredIsRecorded ==
  /\ answers \subseteq entries
  /\ \A e, f \in entries : e.reference = f.reference /\ e.type = f.type => e = f
=============================================================================
