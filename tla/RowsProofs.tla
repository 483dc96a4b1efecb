----------------------------- MODULE RowsProofs -----------------------------
(***************************************************************************)
(* Proofs about Clients: what the server keeps while pages and other owners *)
(* write (RowsHold), and what a step of them may not do (StepsHold), for    *)
(* any number of rows, keys, requests and versions.                         *)
(***************************************************************************)
EXTENDS Clients, Sums, TLAPS

(* Versions of a plan: ConsolePlans.                                       *)

\* r is a row that the page, its dialog or its save has taken over.
SeenPlan(r) ==
  \/ r = listed
  \/ dialog # None /\ r = dialog.base
  \/ saving # None /\ r = saving.form.base

\* A row taken over is the plan as it is, or as it was at an earlier version.
PlansAreKnown ==
  \A r \in PlanEditor!Rows : SeenPlan(r) =>
    /\ plan # None /\ r.version <= plan.version
    /\ r.version = plan.version /\ plan.status # "deleted" => r = plan

UpdatesHaveRows == saving # None /\ saving.next # "create" => saving.form.base # None

PlansInv == PlanEditor!TypeOK /\ PlansAreKnown /\ UpdatesHaveRows

-----------------------------------------------------------------------------
LEMMA PlanTypes ==
  ASSUME PlanEditor!ConstantsAssumption, PlanEditor!TypeOK
  PROVE  /\ plan # None => plan \in PlanEditor!Rows
         /\ listed # None => listed \in PlanEditor!Rows
         /\ dialog # None => dialog \in PlanEditor!Dialogs
         /\ saving # None => saving \in PlanEditor!Saves /\ saving.form \in PlanEditor!Dialogs
BY DEF PlanEditor!TypeOK, PlanEditor!Saves

\* A step that leaves the plan alone and takes over no row but the plan's.
LEMMA PlanUntouched ==
  ASSUME PlanEditor!ConstantsAssumption, PlanEditor!TypeOK, PlansAreKnown, plan' = plan,
         \A r \in PlanEditor!Rows : SeenPlan(r)' => SeenPlan(r) \/ r = plan
  PROVE  PlansAreKnown'
<1>1. \A r \in PlanEditor!Rows : r.version \in Nat
  BY DEF PlanEditor!Rows, PlanEditor!ConstantsAssumption
<1>. QED
  BY <1>1 DEF PlansAreKnown, PlanEditor!ConstantsAssumption

\* A write of the plan raises its version or takes the row away.
LEMMA PlanWritten ==
  ASSUME PlanEditor!ConstantsAssumption, PlanEditor!TypeOK, PlansAreKnown,
         plan' \in PlanEditor!Rows,
         \A r \in PlanEditor!Rows : SeenPlan(r)' => SeenPlan(r),
         \/ plan = None
         \/ plan'.version = plan.version + 1
         \/ plan'.version = plan.version /\ plan'.status = "deleted"
  PROVE  PlansAreKnown'
<1>1. \A r \in PlanEditor!Rows : r.version \in Nat
  BY DEF PlanEditor!Rows, PlanEditor!ConstantsAssumption
<1>2. plan # None => plan \in PlanEditor!Rows
  BY PlanTypes
<1>. SUFFICES ASSUME NEW r \in PlanEditor!Rows, SeenPlan(r)'
              PROVE  /\ plan' # None /\ r.version <= plan'.version
                     /\ r.version = plan'.version /\ plan'.status # "deleted" => r = plan'
  BY DEF PlansAreKnown
<1>3. plan # None /\ r.version <= plan.version
  BY DEF PlansAreKnown
<1>. QED
  BY <1>1, <1>2, <1>3 DEF PlanEditor!ConstantsAssumption

-----------------------------------------------------------------------------
LEMMA InitPlans ==
  ASSUME PlanEditor!ConstantsAssumption, PlanEditor!Init
  PROVE  PlansInv
BY DEF PlanEditor!Init, PlansInv, PlanEditor!TypeOK, PlansAreKnown, SeenPlan, UpdatesHaveRows,
   PlanEditor!ConstantsAssumption

\* What the catalog does to a plan.
LEMMA CatalogWrites ==
  ASSUME PlanEditor!ConstantsAssumption, PlanEditor!TypeOK, plan # None
  PROVE  /\ \A c \in Contents : PlanEditor!Updated(c) /\ plan.status = "open" =>
              plan' \in PlanEditor!Rows /\ plan'.version = plan.version + 1 /\ plan'.status = "open"
         /\ \A e \in SUBSET Priced : PlanEditor!Replaceable(e) /\ PlanEditor!Replaced(e) =>
              plan' \in PlanEditor!Rows /\ plan'.version = plan.version + 1 /\ plan'.status = "open"
         /\ PlanEditor!Archived => plan' \in PlanEditor!Rows /\ plan'.version = plan.version + 1 /\
              plan'.status = "archived"
         /\ PlanEditor!Deleted => plan' \in PlanEditor!Rows /\ plan'.version = plan.version /\
              plan'.status = "deleted"
<1>1. plan \in PlanEditor!Rows /\ plan.version \in 1..MaxVersion
  BY PlanTypes DEF PlanEditor!Rows
<1>2. ASSUME plan.version < MaxVersion PROVE plan.version + 1 \in 1..MaxVersion
  BY <1>1, <1>2 DEF PlanEditor!ConstantsAssumption
<1>3. ASSUME NEW c \in Contents, PlanEditor!Updated(c), plan.status = "open"
      PROVE  plan' \in PlanEditor!Rows /\ plan'.version = plan.version + 1 /\ plan'.status = "open"
  <2>1. /\ plan.version < MaxVersion
        /\ plan' = [plan EXCEPT !.content = c, !.version = plan.version + 1]
    BY <1>3 DEF PlanEditor!Updated, PlanEditor!Bumped
  <2>. QED
    BY <1>1, <1>2, <1>3, <2>1 DEF PlanEditor!Rows
<1>4. ASSUME NEW e \in SUBSET Priced, PlanEditor!Replaceable(e), PlanEditor!Replaced(e)
      PROVE  plan' \in PlanEditor!Rows /\ plan'.version = plan.version + 1 /\ plan'.status = "open"
  <2>1. /\ plan.version < MaxVersion /\ plan.status = "open"
        /\ plan' = [plan EXCEPT !.entitled = e, !.version = plan.version + 1]
    BY <1>4 DEF PlanEditor!Replaceable, PlanEditor!Replaced, PlanEditor!Bumped
  <2>. QED
    BY <1>1, <1>2, <2>1 DEF PlanEditor!Rows
<1>5. PlanEditor!Archived => plan' \in PlanEditor!Rows /\ plan'.version = plan.version + 1 /\
        plan'.status = "archived"
  <2>. SUFFICES ASSUME PlanEditor!Archived PROVE <1>5!2
    OBVIOUS
  <2>1. /\ plan.version < MaxVersion
        /\ plan' = [plan EXCEPT !.status = "archived", !.version = plan.version + 1]
    BY DEF PlanEditor!Archived, PlanEditor!Bumped
  <2>. QED
    BY <1>1, <1>2, <2>1 DEF PlanEditor!Rows
<1>6. PlanEditor!Deleted => plan' \in PlanEditor!Rows /\ plan'.version = plan.version /\
        plan'.status = "deleted"
  BY <1>1 DEF PlanEditor!Deleted, PlanEditor!Rows
<1>. QED
  BY <1>3, <1>4, <1>5, <1>6

\* The catalog changes the plan, or the features, and the page has nothing of it.
LEMMA CatalogKeeps ==
  ASSUME PlanEditor!ConstantsAssumption, PlansInv,
         PlanEditor!Elsewhere \/ PlanEditor!Archive \/ PlanEditor!Delete \/ PlanEditor!Refer \/
           \E f \in Priced : PlanEditor!Publish(f)
  PROVE  PlansInv'
<1>1. PlanEditor!TypeOK /\ PlansAreKnown /\ UpdatesHaveRows
  BY DEF PlansInv
<1>2. /\ UNCHANGED <<ticks, listed, dialog, saving>>
      /\ features' \subseteq Priced /\ inUse' \in BOOLEAN
  BY <1>1 DEF PlanEditor!Elsewhere, PlanEditor!Archive, PlanEditor!Delete, PlanEditor!Refer,
     PlanEditor!Publish, PlanEditor!TypeOK
<1>3. \A r \in PlanEditor!Rows : SeenPlan(r)' => SeenPlan(r)
  BY <1>2 DEF SeenPlan
<1>4. listed # None => plan # None
  BY <1>1, PlanTypes DEF PlansAreKnown, SeenPlan
<1>5. \/ plan' = plan
      \/ /\ plan # None /\ plan' \in PlanEditor!Rows
         /\ \/ plan'.version = plan.version + 1
            \/ plan'.version = plan.version /\ plan'.status = "deleted"
  <2>1. CASE PlanEditor!Elsewhere
    <3>. SUFFICES ASSUME plan # None PROVE <1>5!2
      BY <2>1 DEF PlanEditor!Elsewhere
    <3>. QED
      BY <1>1, <2>1, CatalogWrites DEF PlanEditor!Elsewhere
  <2>2. CASE PlanEditor!Archive \/ PlanEditor!Delete
    BY <1>1, <1>4, <2>2, CatalogWrites DEF PlanEditor!Archive, PlanEditor!Delete
  <2>3. CASE PlanEditor!Refer \/ \E f \in Priced : PlanEditor!Publish(f)
    BY <2>3 DEF PlanEditor!Refer, PlanEditor!Publish
  <2>. QED
    BY <2>1, <2>2, <2>3
<1>6. PlanEditor!TypeOK'
  BY <1>1, <1>2, <1>5 DEF PlanEditor!TypeOK
<1>7. PlansAreKnown'
  BY <1>1, <1>3, <1>5, PlanUntouched, PlanWritten
<1>8. UpdatesHaveRows'
  BY <1>1, <1>2 DEF UpdatesHaveRows
<1>. QED
  BY <1>6, <1>7, <1>8 DEF PlansInv

\* The page takes over what is listed, and its forms.
LEMMA PageKeeps ==
  ASSUME PlanEditor!ConstantsAssumption, PlansInv,
         \/ PlanEditor!List \/ PlanEditor!ListFeatures \/ PlanEditor!NewPlan \/
              PlanEditor!StartEdit \/ PlanEditor!Fill \/ PlanEditor!SetAll \/ PlanEditor!Close
         \/ \E f \in Priced : PlanEditor!CreateFeature(f) \/ PlanEditor!Toggle(f)
  PROVE  PlansInv'
<1>1. PlanEditor!TypeOK /\ PlansAreKnown /\ UpdatesHaveRows
  BY DEF PlansInv
<1>2. /\ UNCHANGED <<plan, inUse, saving>>
      /\ features' \subseteq Priced /\ ticks' \subseteq Priced
  BY <1>1 DEF PlanEditor!List, PlanEditor!ListFeatures, PlanEditor!NewPlan, PlanEditor!StartEdit,
     PlanEditor!Fill, PlanEditor!SetAll, PlanEditor!Close, PlanEditor!CreateFeature,
              PlanEditor!FeatureAdded, PlanEditor!Toggle, PlanEditor!TypeOK
<1>3. listed' \in PlanEditor!Rows \cup {None} /\ (listed' # None => listed' \in {listed, plan})
  BY <1>1 DEF PlanEditor!List, PlanEditor!ListFeatures, PlanEditor!NewPlan, PlanEditor!StartEdit,
     PlanEditor!Fill, PlanEditor!SetAll, PlanEditor!Close, PlanEditor!CreateFeature,
              PlanEditor!Toggle, PlanEditor!TypeOK, PlanEditor!Offered
<1>4. /\ dialog' \in PlanEditor!Dialogs \cup {None}
      /\ dialog' # None => \/ dialog'.base \in {listed, None}
                           \/ dialog # None /\ dialog'.base = dialog.base
  <2>0. dialog # None => dialog \in PlanEditor!Dialogs
    BY <1>1, PlanTypes
  <2>1. CASE dialog' \in {dialog, None}
    BY <1>1, <2>1 DEF PlanEditor!TypeOK
  <2>2. CASE PlanEditor!NewPlan
    BY <2>2 DEF PlanEditor!NewPlan, PlanEditor!EmptyForm, PlanEditor!Dialogs
  <2>3. CASE PlanEditor!StartEdit
    BY <1>1, <2>3, PlanTypes DEF PlanEditor!StartEdit, PlanEditor!Dialogs, PlanEditor!Rows
  <2>4. CASE PlanEditor!Fill
    BY <2>0, <2>4 DEF PlanEditor!Fill, PlanEditor!Dialogs
  <2>5. CASE PlanEditor!SetAll
    BY <1>1, <2>0, <2>5 DEF PlanEditor!SetAll, PlanEditor!Dialogs, PlanEditor!TypeOK
  <2>6. ASSUME NEW f \in Priced, PlanEditor!Toggle(f) PROVE <1>4
    BY <1>1, <2>0, <2>6 DEF PlanEditor!Toggle, PlanEditor!Toggled, PlanEditor!Dialogs,
       PlanEditor!TypeOK
  <2>7. CASE PlanEditor!List \/ PlanEditor!ListFeatures \/ PlanEditor!Close \/ \E f \in Priced :
               PlanEditor!CreateFeature(f)
    BY <2>1, <2>7 DEF PlanEditor!List, PlanEditor!ListFeatures, PlanEditor!Close,
       PlanEditor!CreateFeature
  <2>. QED
    BY <2>2, <2>3, <2>4, <2>5, <2>6, <2>7
<1>5. PlanEditor!TypeOK'
  BY <1>1, <1>2, <1>3, <1>4 DEF PlanEditor!TypeOK
<1>6. \A r \in PlanEditor!Rows : SeenPlan(r)' => SeenPlan(r) \/ r = plan
  BY <1>2, <1>3, <1>4 DEF SeenPlan, PlanEditor!ConstantsAssumption
<1>7. PlansAreKnown'
  BY <1>1, <1>2, <1>6, PlanUntouched
<1>8. UpdatesHaveRows'
  BY <1>1, <1>2 DEF UpdatesHaveRows
<1>. QED
  BY <1>5, <1>7, <1>8 DEF PlansInv

\* A save takes over the form, and its requests write the plan or leave it.
LEMMA SaveKeeps ==
  ASSUME PlanEditor!ConstantsAssumption, PlansInv, PlanEditor!Submit \/ PlanEditor!Create \/
         PlanEditor!Update \/ PlanEditor!Replace \/ PlanEditor!GiveUp
  PROVE  PlansInv'
<1>1. PlanEditor!TypeOK /\ PlansAreKnown /\ UpdatesHaveRows
  BY DEF PlansInv
<1>2. UNCHANGED <<features, ticks, inUse, listed>>
  BY DEF PlanEditor!Submit, PlanEditor!Create, PlanEditor!Update, PlanEditor!Replace,
     PlanEditor!GiveUp
<1>3. /\ dialog # None => dialog \in PlanEditor!Dialogs
      /\ saving # None => saving \in PlanEditor!Saves /\ saving.form \in PlanEditor!Dialogs
      /\ plan # None => plan \in PlanEditor!Rows
  BY <1>1, PlanTypes
<1>4. dialog' \in {dialog, None}
  BY DEF PlanEditor!Submit, PlanEditor!Create, PlanEditor!Update, PlanEditor!Replace,
     PlanEditor!GiveUp, PlanEditor!Ended
<1>5. /\ saving' \in PlanEditor!Saves \cup {None}
      /\ saving' # None =>
           /\ \/ dialog # None /\ saving'.form = dialog
              \/ saving # None /\ saving'.form = saving.form
           /\ saving'.next # "create" => saving'.form.base # None
  <2>1. CASE PlanEditor!Submit
    BY <1>3, <2>1 DEF PlanEditor!Submit, PlanEditor!Saves
  <2>2. CASE PlanEditor!Update
    <3>1. CASE saving' = [saving EXCEPT !.next = "replace"]
      BY <1>1, <1>3, <2>2, <3>1 DEF PlanEditor!Update, PlanEditor!Saves, UpdatesHaveRows
    <3>2. CASE saving' = None
      BY <3>2
    <3>. QED
      BY <2>2, <3>1, <3>2 DEF PlanEditor!Update, PlanEditor!Ended
  <2>3. CASE PlanEditor!Create \/ PlanEditor!Replace \/ PlanEditor!GiveUp
    BY <2>3 DEF PlanEditor!Create, PlanEditor!Replace, PlanEditor!GiveUp, PlanEditor!Ended
  <2>. QED
    BY <2>1, <2>2, <2>3
<1>6. \/ plan' = plan
      \/ plan' \in PlanEditor!Rows /\ (plan = None \/ plan'.version = plan.version + 1)
  <2>1. CASE PlanEditor!Submit \/ PlanEditor!GiveUp
    BY <2>1 DEF PlanEditor!Submit, PlanEditor!GiveUp
  <2>2. CASE PlanEditor!Create
    <3>1. CASE plan = None /\ saving.form.entitled \subseteq features
      <4>1. /\ plan' = [content |-> saving.form.content, status |-> "open",
                        entitled |-> saving.form.entitled, version |-> 1]
            /\ saving.form \in PlanEditor!Dialogs
        BY <1>3, <2>2, <3>1 DEF PlanEditor!Create
      <4>2. plan' \in PlanEditor!Rows
        BY <4>1 DEF PlanEditor!Dialogs, PlanEditor!Rows, PlanEditor!ConstantsAssumption
      <4>. QED
        BY <3>1, <4>2
    <3>2. CASE ~(plan = None /\ saving.form.entitled \subseteq features)
      BY <2>2, <3>2 DEF PlanEditor!Create
    <3>. QED
      BY <3>1, <3>2
  <2>3. CASE PlanEditor!Update
    <3>1. CASE PlanEditor!Matches(saving.form.base)
      <4>1. PlanEditor!Updated(saving.form.content) /\ plan # None /\ plan.status = "open"
        BY <2>3, <3>1 DEF PlanEditor!Update, PlanEditor!Matches
      <4>2. saving.form.content \in Contents
        BY <1>3, <2>3 DEF PlanEditor!Update, PlanEditor!Dialogs
      <4>. QED
        BY <1>1, <4>1, <4>2, CatalogWrites
    <3>2. CASE ~PlanEditor!Matches(saving.form.base)
      BY <2>3, <3>2 DEF PlanEditor!Update
    <3>. QED
      BY <3>1, <3>2
  <2>4. CASE PlanEditor!Replace
    <3>0. plan # None
      <4>1. saving.form.base \in PlanEditor!Rows
        BY <1>1, <1>3, <2>4 DEF PlanEditor!Replace, UpdatesHaveRows, PlanEditor!Dialogs
      <4>. QED
        BY <1>1, <2>4, <4>1 DEF PlanEditor!Replace, PlansAreKnown, SeenPlan
    <3>1. CASE PlanEditor!Replaceable(saving.form.entitled)
      <4>1. saving.form.entitled \in SUBSET Priced /\ PlanEditor!Replaced(saving.form.entitled)
        BY <1>3, <2>4, <3>1 DEF PlanEditor!Replace, PlanEditor!Dialogs
      <4>. QED
        BY <1>1, <3>0, <3>1, <4>1, CatalogWrites
    <3>2. CASE ~PlanEditor!Replaceable(saving.form.entitled)
      BY <2>4, <3>2 DEF PlanEditor!Replace
    <3>. QED
      BY <3>1, <3>2
  <2>. QED
    BY <2>1, <2>2, <2>3, <2>4
<1>7. PlanEditor!TypeOK'
  BY <1>1, <1>2, <1>4, <1>5, <1>6 DEF PlanEditor!TypeOK
<1>8. \A r \in PlanEditor!Rows : SeenPlan(r)' => SeenPlan(r)
  BY <1>2, <1>4, <1>5 DEF SeenPlan
<1>9. PlansAreKnown'
  BY <1>1, <1>6, <1>8, PlanUntouched, PlanWritten
<1>10. UpdatesHaveRows'
  BY <1>5 DEF UpdatesHaveRows
<1>. QED
  BY <1>7, <1>9, <1>10 DEF PlansInv

LEMMA PlansStep ==
  ASSUME PlanEditor!ConstantsAssumption, PlansInv, [PlanEditor!Next]_PlanEditor!vars
  PROVE  PlansInv'
<1>1. ASSUME UNCHANGED PlanEditor!vars PROVE PlansInv'
  BY <1>1 DEF PlanEditor!vars, PlansInv, PlanEditor!TypeOK, PlansAreKnown, SeenPlan, UpdatesHaveRows
<1>. QED
  BY <1>1, CatalogKeeps, PageKeeps, SaveKeeps DEF PlanEditor!Next

LEMMA PlansSafe ==
  ASSUME PlanEditor!ConstantsAssumption, PlansInv
  PROVE  PlanEditor!VersionsIdentify
<1>1. PlanEditor!TypeOK /\ PlansAreKnown
  BY DEF PlansInv
<1>2. /\ listed # None => listed \in PlanEditor!Rows
      /\ dialog # None /\ dialog.base # None => dialog.base \in PlanEditor!Rows
  BY <1>1, PlanTypes DEF PlanEditor!Dialogs
<1>. QED
  BY <1>1, <1>2 DEF PlanEditor!VersionsIdentify, PlansAreKnown, SeenPlan

\* A save writes over the row it was filled from.
LEMMA SavesAreSeen ==
  ASSUME PlanEditor!ConstantsAssumption, PlansInv, PlanEditor!Update, plan' # plan
  PROVE  saving.form.base = plan
<1>1. /\ PlanEditor!TypeOK /\ PlansAreKnown /\ UpdatesHaveRows
  BY DEF PlansInv
<1>2. saving # None /\ saving.next = "update" /\ PlanEditor!Matches(saving.form.base)
  BY DEF PlanEditor!Update
<1>3. saving.form.base \in PlanEditor!Rows
  BY <1>1, <1>2, PlanTypes DEF UpdatesHaveRows, PlanEditor!Dialogs
<1>. QED
  BY <1>1, <1>2, <1>3 DEF PlansAreKnown, SeenPlan, PlanEditor!Matches

\* Only an open plan is changed, and only one that nobody uses is deleted.
LEMMA HistoryStep ==
  ASSUME PlanEditor!ConstantsAssumption, PlansInv, PlanEditor!Next, plan # None, plan' # plan
  PROVE  /\ plan'.status = "deleted" => ~inUse
         /\ plan.status # "open" => plan' = [plan EXCEPT !.status = "deleted"]
<1>1. PlanEditor!TypeOK
  BY DEF PlansInv
<1>2. plan \in PlanEditor!Rows /\ "open" # "deleted" /\ "archived" # "deleted"
  BY <1>1, PlanTypes
<1>3. CASE PlanEditor!Deletable /\ PlanEditor!Deleted
  BY <1>3 DEF PlanEditor!Deletable, PlanEditor!Deleted
<1>4. ASSUME NEW c \in Contents, PlanEditor!Updated(c), plan.status = "open"
      PROVE  plan'.status = "open" /\ plan.status = "open"
  BY <1>1, <1>4, CatalogWrites
<1>5. ASSUME NEW e \in SUBSET Priced, PlanEditor!Replaceable(e), PlanEditor!Replaced(e)
      PROVE  plan'.status = "open" /\ plan.status = "open"
  BY <1>1, <1>5, CatalogWrites DEF PlanEditor!Replaceable
<1>6. ASSUME PlanEditor!Archived PROVE plan'.status = "archived"
  BY <1>1, <1>6, CatalogWrites
<1>7. CASE PlanEditor!Elsewhere
  BY <1>2, <1>3, <1>4, <1>5, <1>6, <1>7 DEF PlanEditor!Elsewhere
<1>8. CASE PlanEditor!Archive
  BY <1>2, <1>6, <1>8 DEF PlanEditor!Archive, PlanEditor!Matches
<1>9. CASE PlanEditor!Delete
  BY <1>3, <1>9 DEF PlanEditor!Delete
<1>10. CASE PlanEditor!Create
  BY <1>10 DEF PlanEditor!Create
<1>11. CASE PlanEditor!Update
  <2>1. PlanEditor!Updated(saving.form.content) /\ plan.status = "open"
    BY <1>11 DEF PlanEditor!Update, PlanEditor!Matches
  <2>2. saving.form.content \in Contents
    BY <1>1, <1>11, PlanTypes DEF PlanEditor!Update, PlanEditor!Dialogs
  <2>. QED
    BY <1>2, <1>4, <2>1, <2>2
<1>12. CASE PlanEditor!Replace
  <2>1. PlanEditor!Replaceable(saving.form.entitled) /\ PlanEditor!Replaced(saving.form.entitled)
    BY <1>12 DEF PlanEditor!Replace
  <2>2. saving.form.entitled \in SUBSET Priced
    BY <1>1, <1>12, PlanTypes DEF PlanEditor!Replace, PlanEditor!Dialogs
  <2>. QED
    BY <1>2, <1>5, <2>1, <2>2
<1>. QED
  BY <1>7, <1>8, <1>9, <1>10, <1>11, <1>12
     DEF PlanEditor!Next, PlanEditor!Refer, PlanEditor!Publish, PlanEditor!CreateFeature,
         PlanEditor!Toggle,
         PlanEditor!List, PlanEditor!ListFeatures, PlanEditor!NewPlan, PlanEditor!StartEdit,
         PlanEditor!Fill, PlanEditor!SetAll, PlanEditor!Close, PlanEditor!Submit, PlanEditor!GiveUp

-----------------------------------------------------------------------------
(* Coupons granted as shown: ConsoleCoupons.                               *)

\* The instance's copies of the library's operators are the library's.
LEMMA SameUses ==
  /\ \A S : CouponEditor!IsFiniteSet(S) <=> IsFiniteSet(S)
  /\ \A S : CouponEditor!Cardinality(S) = Cardinality(S)
<1>1. \A S : CouponEditor!IsFiniteSet(S) <=> IsFiniteSet(S)
  BY Zenon DEF CouponEditor!IsFiniteSet, IsFiniteSet
<1>2. \A S : CouponEditor!Cardinality(S) = Cardinality(S)
  BY Zenon DEF CouponEditor!Cardinality, Cardinality
<1>. QED
  BY <1>1, <1>2

\* r is the coupon as the page lists it, or as the form was opened on.
SeenCoupon(r) == r = couponListed \/ (couponForm # None /\ r = couponForm.editing)

\* What the page has is the coupon as it is, or as it was at an earlier version.
CouponIsKnown ==
  \A r \in CouponEditor!Rows : SeenCoupon(r) =>
    /\ coupon # None /\ r.version <= coupon.version
    /\ r.version = coupon.version /\ CouponEditor!Alive(coupon) => r = coupon

CouponsInv == CouponEditor!TypeOK /\ CouponIsKnown /\ CouponEditor!GrantedAsShown /\
  CouponEditor!UsedCouponsStay

-----------------------------------------------------------------------------
LEMMA CouponTypes ==
  ASSUME CouponEditor!ConstantsAssumption, CouponEditor!TypeOK
  PROVE  /\ coupon # None => coupon \in CouponEditor!Rows
         /\ couponListed # None => couponListed \in CouponEditor!Rows
         /\ couponForm # None => couponForm \in CouponEditor!Forms
         /\ CouponEditor!Cardinality(Orders) \in Nat
         /\ \A r \in CouponEditor!Rows :
              /\ r.version \in Nat /\ r.version <= MaxRevision
              /\ r.redemption_count \in Nat /\ r.maximum_redemptions \in Nat
BY SameUses, FS_CardinalityType DEF CouponEditor!TypeOK, CouponEditor!Rows, CouponEditor!Uses,
   CouponEditor!ConstantsAssumption

\* The uses in force are counted.
LEMMA UsesInForce ==
  ASSUME CouponEditor!ConstantsAssumption, CouponEditor!TypeOK
  PROVE  /\ CouponEditor!IsFiniteSet(CouponEditor!InForce) /\
              CouponEditor!Cardinality(CouponEditor!InForce) \in Nat
         /\ CouponEditor!Cardinality(CouponEditor!InForce) <= CouponEditor!Cardinality(Orders)
         /\ CouponEditor!Cardinality(CouponEditor!InForce) = 0 <=> CouponEditor!InForce = {}
<1>1. CouponEditor!InForce \subseteq Orders
  BY DEF CouponEditor!InForce
<1>2. CouponEditor!IsFiniteSet(CouponEditor!InForce) /\
        CouponEditor!Cardinality(CouponEditor!InForce) <= CouponEditor!Cardinality(Orders)
  BY <1>1, SameUses, FS_Subset DEF CouponEditor!ConstantsAssumption
<1>. QED
  BY <1>2, SameUses, FS_CardinalityType, FS_EmptySet

\* A step that leaves the coupon alone and takes over no row but the coupon's.
LEMMA CouponUntouched ==
  ASSUME CouponEditor!ConstantsAssumption, CouponEditor!TypeOK, CouponIsKnown, coupon' = coupon,
         \A r \in CouponEditor!Rows : SeenCoupon(r)' => SeenCoupon(r) \/ r = coupon
  PROVE  CouponIsKnown'
<1>1. \A r \in CouponEditor!Rows : r.version \in Nat
  BY CouponTypes
<1>. QED
  BY <1>1 DEF CouponIsKnown, CouponEditor!ConstantsAssumption, CouponEditor!Alive

\* A write of the coupon raises its version or takes the row away.
LEMMA CouponWritten ==
  ASSUME CouponEditor!ConstantsAssumption, CouponEditor!TypeOK, CouponIsKnown,
         coupon' \in CouponEditor!Rows,
         \A r \in CouponEditor!Rows : SeenCoupon(r)' => SeenCoupon(r),
         \/ coupon = None
         \/ coupon'.version = coupon.version + 1
         \/ coupon'.version = coupon.version /\ coupon'.status = "deleted"
  PROVE  CouponIsKnown'
<1>1. \A r \in CouponEditor!Rows : r.version \in Nat
  BY CouponTypes
<1>2. coupon # None => coupon \in CouponEditor!Rows
  BY CouponTypes
<1>. SUFFICES ASSUME NEW r \in CouponEditor!Rows, SeenCoupon(r)'
              PROVE  /\ coupon' # None /\ r.version <= coupon'.version
                     /\ r.version = coupon'.version /\ CouponEditor!Alive(coupon') => r = coupon'
  BY DEF CouponIsKnown
<1>3. coupon # None /\ r.version <= coupon.version
  BY DEF CouponIsKnown
<1>. QED
  BY <1>1, <1>2, <1>3 DEF CouponEditor!ConstantsAssumption, CouponEditor!Alive

-----------------------------------------------------------------------------
LEMMA InitCoupons ==
  ASSUME CouponEditor!ConstantsAssumption, CouponEditor!Init
  PROVE  CouponsInv
<1>1. CouponEditor!InForce = {}
  BY DEF CouponEditor!Init, CouponEditor!InForce
<1>. QED
  BY <1>1 DEF CouponEditor!Init, CouponsInv, CouponEditor!TypeOK, CouponIsKnown, SeenCoupon,
     CouponEditor!GrantedAsShown,
              CouponEditor!UsedCouponsStay, CouponEditor!Alive, CouponEditor!ConstantsAssumption

\* What an accepted update makes of the coupon.
LEMMA UpdateWrites ==
  ASSUME CouponEditor!ConstantsAssumption, CouponsInv, NEW u \in CouponEditor!Updates,
         CouponEditor!Accepted(u), CouponEditor!Updated(u)
  PROVE  /\ coupon # None /\ coupon' \in CouponEditor!Rows /\ coupon'.version = coupon.version + 1
         /\ coupon'.redemption_count = coupon.redemption_count
         /\ coupon'.redemption_count <= coupon'.maximum_redemptions
         /\ coupon'.discount_value # coupon.discount_value => coupon.redemption_count = 0
         /\ CouponEditor!Alive(coupon')
<1>1. CouponEditor!TypeOK /\ CouponEditor!GrantedAsShown /\ CouponEditor!Alive(coupon) /\
        coupon # None
  BY DEF CouponsInv, CouponEditor!Accepted, CouponEditor!Alive
<1>2. coupon \in CouponEditor!Rows
  BY <1>1, CouponTypes
<1>. DEFINE d == CouponEditor!Changed(coupon.discount_value, u.discount_value)
            m == CouponEditor!Changed(coupon.maximum_redemptions, u.maximum_redemptions)
            s == CouponEditor!Changed(coupon.status, u.status)
<1>3. /\ d \in Discounts /\ m \in CouponEditor!Uses \ {0} /\ s \in {"active", "disabled", "deleted"}
      /\ s # "deleted"
      /\ d # coupon.discount_value => coupon.redemption_count = 0
      /\ m >= coupon.redemption_count
  <2>1. /\ u.discount_value \in Discounts \cup {NotSent}
        /\ u.maximum_redemptions \in (CouponEditor!Uses \ {0}) \cup {NotSent}
        /\ u.status \in {"active", "disabled", NotSent}
    BY DEF CouponEditor!Updates
  <2>2. /\ coupon.discount_value \in Discounts /\
             coupon.maximum_redemptions \in CouponEditor!Uses \ {0}
        /\ coupon.status \in {"active", "disabled", "deleted"} /\ coupon.status # "deleted"
        /\ coupon.redemption_count \in Nat
    BY <1>1, <1>2, CouponTypes DEF CouponEditor!Rows, CouponEditor!Alive
  <2>3. u.discount_value # NotSent => coupon.redemption_count = 0
    BY <2>2 DEF CouponEditor!Accepted, CouponEditor!Fixed
  <2>4. m >= coupon.redemption_count
    BY DEF CouponEditor!Accepted
  <2>. QED
    BY <2>1, <2>2, <2>3, <2>4 DEF CouponEditor!Changed
<1>4. /\ coupon.version < MaxRevision
      /\ coupon' = [coupon EXCEPT !.discount_value = d, !.maximum_redemptions = m, !.status = s,
                                  !.version = coupon.version + 1]
  BY DEF CouponEditor!Updated
<1>5. coupon.version + 1 \in 1..MaxRevision
  BY <1>2, <1>4 DEF CouponEditor!Rows, CouponEditor!ConstantsAssumption
<1>. HIDE DEF d, m, s
<1>6. /\ coupon' \in CouponEditor!Rows /\ coupon'.version = coupon.version + 1
      /\ coupon'.redemption_count = coupon.redemption_count /\ coupon'.maximum_redemptions = m
      /\ coupon'.discount_value = d /\ coupon'.status = s
  BY <1>2, <1>3, <1>4, <1>5 DEF CouponEditor!Rows
<1>7. coupon'.redemption_count <= coupon'.maximum_redemptions
  BY <1>2, <1>3, <1>6, CouponTypes, <1>1 DEF CouponEditor!Uses
<1>. QED
  BY <1>1, <1>3, <1>6, <1>7 DEF CouponEditor!Alive, CouponEditor!ConstantsAssumption

\* An update, whoever sends it.
LEMMA UpdateCouponKeeps ==
  ASSUME CouponEditor!ConstantsAssumption, CouponsInv, NEW u \in CouponEditor!Updates,
         CouponEditor!Accepted(u), CouponEditor!Updated(u),
         UNCHANGED <<redeemed, couponListed>>, couponForm' \in {couponForm, None},
         couponSave' \in {couponSave, None}
  PROVE  CouponsInv'
<1>1. CouponEditor!TypeOK /\ CouponIsKnown /\ CouponEditor!GrantedAsShown /\
        CouponEditor!UsedCouponsStay /\ CouponEditor!Alive(coupon)
  BY DEF CouponsInv, CouponEditor!Accepted
<1>2. /\ coupon' \in CouponEditor!Rows /\ coupon'.version = coupon.version + 1
      /\ coupon'.redemption_count = coupon.redemption_count
      /\ coupon'.redemption_count <= coupon'.maximum_redemptions
      /\ coupon'.discount_value # coupon.discount_value => coupon.redemption_count = 0
      /\ CouponEditor!Alive(coupon')
  BY UpdateWrites
<1>3. CouponEditor!TypeOK'
  BY <1>1, <1>2 DEF CouponEditor!TypeOK
<1>4. \A r \in CouponEditor!Rows : SeenCoupon(r)' => SeenCoupon(r)
  BY DEF SeenCoupon
<1>5. CouponIsKnown'
  BY <1>1, <1>2, <1>4, CouponWritten
<1>6. CouponEditor!InForce' = CouponEditor!InForce
  BY DEF CouponEditor!InForce
<1>7. CouponEditor!GrantedAsShown'
  <2>1. coupon.redemption_count = CouponEditor!Cardinality(CouponEditor!InForce)
    BY <1>1 DEF CouponEditor!GrantedAsShown
  <2>2. coupon'.redemption_count = CouponEditor!Cardinality(CouponEditor!InForce)
    BY <1>2, <2>1
  <2>3. \A o \in CouponEditor!InForce : redeemed[o] = coupon'.discount_value
    <3>1. CASE CouponEditor!InForce = {}
      BY <3>1
    <3>2. CASE CouponEditor!InForce # {}
      <4>1. coupon.redemption_count # 0
        BY <1>1, <2>1, <3>2, UsesInForce
      <4>. QED
        BY <1>1, <1>2, <4>1 DEF CouponEditor!GrantedAsShown
    <3>. QED
      BY <3>1, <3>2
  <2>. QED
    BY <1>2, <1>6, <2>2, <2>3 DEF CouponEditor!GrantedAsShown
<1>8. CouponEditor!UsedCouponsStay'
  BY <1>2 DEF CouponEditor!UsedCouponsStay
<1>. QED
  BY <1>3, <1>5, <1>7, <1>8 DEF CouponsInv

\* A deletion, whoever asks for it.
LEMMA RemoveKeeps ==
  ASSUME CouponEditor!ConstantsAssumption, CouponsInv, CouponEditor!Removed,
         UNCHANGED <<redeemed, couponListed, couponForm, couponSave>>
  PROVE  CouponsInv'
<1>1. CouponEditor!TypeOK /\ CouponIsKnown /\ CouponEditor!GrantedAsShown /\
        CouponEditor!UsedCouponsStay
  BY DEF CouponsInv
<1>2. coupon # None /\ CouponEditor!InForce = {} /\ coupon' = [coupon EXCEPT !.status = "deleted"]
  BY DEF CouponEditor!Removed, CouponEditor!Unused, CouponEditor!Alive
<1>3. coupon' \in CouponEditor!Rows /\ coupon'.version = coupon.version /\
        coupon'.status = "deleted"
  BY <1>1, <1>2, CouponTypes DEF CouponEditor!Rows
<1>4. CouponEditor!TypeOK'
  BY <1>1, <1>3 DEF CouponEditor!TypeOK
<1>5. \A r \in CouponEditor!Rows : SeenCoupon(r)' => SeenCoupon(r)
  BY DEF SeenCoupon
<1>6. CouponIsKnown'
  BY <1>1, <1>3, <1>5, CouponWritten
<1>7. CouponEditor!InForce' = {}
  BY <1>2 DEF CouponEditor!InForce
<1>8. CouponEditor!GrantedAsShown' /\ CouponEditor!UsedCouponsStay'
  BY <1>3, <1>7 DEF CouponEditor!GrantedAsShown, CouponEditor!UsedCouponsStay, CouponEditor!Alive
<1>. QED
  BY <1>4, <1>6, <1>8 DEF CouponsInv

\* A use is counted with the discount it was granted.
LEMMA RedeemCouponKeeps ==
  ASSUME CouponEditor!ConstantsAssumption, CouponsInv, NEW o \in Orders, CouponEditor!Redeem(o)
  PROVE  CouponsInv'
<1>1. CouponEditor!TypeOK /\ CouponIsKnown /\ CouponEditor!GrantedAsShown /\
        CouponEditor!UsedCouponsStay
  BY DEF CouponsInv
<1>2. /\ CouponEditor!Alive(coupon) /\ coupon # None /\ coupon \in CouponEditor!Rows
      /\ redeemed[o] = NotSent /\ coupon.version < MaxRevision
      /\ coupon.redemption_count < coupon.maximum_redemptions
      /\ coupon' = [coupon EXCEPT !.redemption_count = coupon.redemption_count + 1,
                                  !.version = coupon.version + 1]
      /\ redeemed' = [redeemed EXCEPT ![o] = coupon.discount_value]
      /\ UNCHANGED <<couponListed, couponForm, couponSave>>
  BY <1>1, CouponTypes DEF CouponEditor!Redeem, CouponEditor!NextRevision, CouponEditor!Alive
<1>3. /\ coupon.redemption_count + 1 \in CouponEditor!Uses /\ coupon.version + 1 \in 1..MaxRevision
      /\ coupon.redemption_count + 1 <= coupon.maximum_redemptions
  <2>1. coupon.redemption_count \in Nat /\ coupon.maximum_redemptions \in Nat
        /\ coupon.maximum_redemptions <= CouponEditor!Cardinality(Orders) /\
             CouponEditor!Cardinality(Orders) \in Nat
        /\ coupon.version \in 1..MaxRevision
    BY <1>1, <1>2, CouponTypes DEF CouponEditor!Rows, CouponEditor!Uses
  <2>. QED
    BY <1>2, <2>1 DEF CouponEditor!Uses, CouponEditor!ConstantsAssumption
<1>4. /\ coupon' \in CouponEditor!Rows /\ coupon'.version = coupon.version + 1
      /\ coupon'.redemption_count = coupon.redemption_count + 1
      /\ coupon'.maximum_redemptions = coupon.maximum_redemptions
      /\ coupon'.discount_value = coupon.discount_value /\ coupon'.status = coupon.status
      /\ coupon.discount_value \in Discounts
  BY <1>2, <1>3 DEF CouponEditor!Rows
<1>5. redeemed' \in [Orders -> Discounts \cup {NotSent}]
  BY <1>1, <1>2, <1>4 DEF CouponEditor!TypeOK
<1>6. CouponEditor!TypeOK'
  BY <1>1, <1>2, <1>4, <1>5 DEF CouponEditor!TypeOK
<1>7. \A r \in CouponEditor!Rows : SeenCoupon(r)' => SeenCoupon(r)
  BY <1>2 DEF SeenCoupon
<1>8. CouponIsKnown'
  BY <1>1, <1>4, <1>7, CouponWritten
<1>9. CouponEditor!InForce' = CouponEditor!InForce \cup {o} /\ o \notin CouponEditor!InForce
  BY <1>1, <1>2, <1>4 DEF CouponEditor!InForce, CouponEditor!TypeOK,
     CouponEditor!ConstantsAssumption
<1>10. CouponEditor!Cardinality(CouponEditor!InForce') =
         CouponEditor!Cardinality(CouponEditor!InForce) + 1
  BY <1>1, <1>9, UsesInForce, SameUses, FS_AddElement
<1>11. \A p \in CouponEditor!InForce' : redeemed'[p] = coupon'.discount_value
  <2>1. \A p \in CouponEditor!InForce : redeemed[p] = coupon.discount_value /\ p \in Orders
    BY <1>1, <1>2 DEF CouponEditor!GrantedAsShown, CouponEditor!InForce
  <2>. QED
    BY <1>1, <1>2, <1>4, <1>9, <2>1 DEF CouponEditor!TypeOK
<1>12. coupon.redemption_count = CouponEditor!Cardinality(CouponEditor!InForce)
  BY <1>1, <1>2 DEF CouponEditor!GrantedAsShown
<1>13. CouponEditor!GrantedAsShown' /\ CouponEditor!UsedCouponsStay'
  <2>1. CouponEditor!Alive(coupon')
    BY <1>2, <1>4 DEF CouponEditor!Alive, CouponEditor!ConstantsAssumption
  <2>. QED
    BY <1>3, <1>4, <1>10, <1>11, <1>12, <2>1 DEF CouponEditor!GrantedAsShown,
       CouponEditor!UsedCouponsStay
<1>. QED
  BY <1>6, <1>8, <1>13 DEF CouponsInv

\* A use given back is no longer counted.
LEMMA ReleaseCouponKeeps ==
  ASSUME CouponEditor!ConstantsAssumption, CouponsInv, NEW o \in Orders, CouponEditor!Release(o)
  PROVE  CouponsInv'
<1>1. CouponEditor!TypeOK /\ CouponIsKnown /\ CouponEditor!GrantedAsShown /\
        CouponEditor!UsedCouponsStay
  BY DEF CouponsInv
<1>2. o \in CouponEditor!InForce /\ CouponEditor!Alive(coupon) /\ coupon # None /\
        coupon \in CouponEditor!Rows
  BY <1>1, CouponTypes DEF CouponEditor!Release, CouponEditor!InForce,
     CouponEditor!UsedCouponsStay, CouponEditor!Alive
<1>3. coupon.redemption_count = CouponEditor!Cardinality(CouponEditor!InForce) /\
        coupon.redemption_count # 0
  BY <1>1, <1>2, UsesInForce DEF CouponEditor!GrantedAsShown
<1>4. /\ coupon' = [coupon EXCEPT !.redemption_count = coupon.redemption_count - 1,
                                  !.version = coupon.version + 1]
      /\ redeemed' = [redeemed EXCEPT ![o] = NotSent] /\ coupon.version < MaxRevision
      /\ UNCHANGED <<couponListed, couponForm, couponSave>>
  BY <1>3 DEF CouponEditor!Release, CouponEditor!NextRevision
<1>5. /\ coupon.redemption_count - 1 \in CouponEditor!Uses /\ coupon.version + 1 \in 1..MaxRevision
      /\ coupon.redemption_count \in Nat
  <2>1. coupon.redemption_count \in 0..CouponEditor!Cardinality(Orders) /\
          CouponEditor!Cardinality(Orders) \in Nat
        /\ coupon.version \in 1..MaxRevision
    BY <1>1, <1>2, CouponTypes DEF CouponEditor!Rows, CouponEditor!Uses
  <2>. QED
    BY <1>3, <1>4, <2>1 DEF CouponEditor!Uses, CouponEditor!ConstantsAssumption
<1>6. /\ coupon' \in CouponEditor!Rows /\ coupon'.version = coupon.version + 1
      /\ coupon'.redemption_count = coupon.redemption_count - 1
      /\ coupon'.maximum_redemptions = coupon.maximum_redemptions
      /\ coupon'.discount_value = coupon.discount_value /\ coupon'.status = coupon.status
  BY <1>2, <1>4, <1>5 DEF CouponEditor!Rows
<1>7. redeemed' \in [Orders -> Discounts \cup {NotSent}]
  BY <1>1, <1>4 DEF CouponEditor!TypeOK
<1>8. CouponEditor!TypeOK'
  BY <1>1, <1>4, <1>6, <1>7 DEF CouponEditor!TypeOK
<1>9. \A r \in CouponEditor!Rows : SeenCoupon(r)' => SeenCoupon(r)
  BY <1>4 DEF SeenCoupon
<1>10. CouponIsKnown'
  BY <1>1, <1>6, <1>9, CouponWritten
<1>11. CouponEditor!InForce' = CouponEditor!InForce \ {o}
  BY <1>1, <1>4 DEF CouponEditor!InForce, CouponEditor!TypeOK
<1>12. CouponEditor!Cardinality(CouponEditor!InForce') =
         CouponEditor!Cardinality(CouponEditor!InForce) - 1
  BY <1>1, <1>2, <1>11, UsesInForce, SameUses, FS_RemoveElement
<1>13. \A p \in CouponEditor!InForce' : redeemed'[p] = coupon'.discount_value
  <2>1. \A p \in CouponEditor!InForce : redeemed[p] = coupon.discount_value /\ p \in Orders
    BY <1>1, <1>2 DEF CouponEditor!GrantedAsShown, CouponEditor!InForce
  <2>. QED
    BY <1>1, <1>4, <1>6, <1>11, <2>1 DEF CouponEditor!TypeOK
<1>14. coupon'.redemption_count <= coupon'.maximum_redemptions
  <2>1. coupon.redemption_count <= coupon.maximum_redemptions /\ coupon.maximum_redemptions \in Nat
    BY <1>1, <1>2, CouponTypes DEF CouponEditor!GrantedAsShown
  <2>. QED
    BY <1>5, <1>6, <2>1
<1>15. CouponEditor!GrantedAsShown' /\ CouponEditor!UsedCouponsStay'
  <2>1. CouponEditor!Alive(coupon')
    BY <1>2, <1>6 DEF CouponEditor!Alive, CouponEditor!ConstantsAssumption
  <2>. QED
    BY <1>3, <1>6, <1>12, <1>13, <1>14, <2>1 DEF CouponEditor!GrantedAsShown,
       CouponEditor!UsedCouponsStay
<1>. QED
  BY <1>8, <1>10, <1>15 DEF CouponsInv

\* The page changes nothing but what is on it.
LEMMA CouponPageKeeps ==
  ASSUME CouponEditor!ConstantsAssumption, CouponsInv,
         \/ CouponEditor!List \/ CouponEditor!NewCoupon \/ CouponEditor!StartEdit \/
              CouponEditor!Fill \/ CouponEditor!Close \/ CouponEditor!Submit \/
              UNCHANGED CouponEditor!vars
         \/ UNCHANGED <<coupon, redeemed, couponListed>> /\ \E b \in BOOLEAN : CouponEditor!Ended(b)
  PROVE  CouponsInv'
<1>1. CouponEditor!TypeOK /\ CouponIsKnown /\ CouponEditor!GrantedAsShown /\
        CouponEditor!UsedCouponsStay
  BY DEF CouponsInv
<1>2. UNCHANGED <<coupon, redeemed>>
  BY DEF CouponEditor!List, CouponEditor!NewCoupon, CouponEditor!StartEdit, CouponEditor!Fill,
     CouponEditor!Close, CouponEditor!Submit, CouponEditor!vars
<1>3. /\ coupon # None => coupon \in CouponEditor!Rows
      /\ couponListed # None => couponListed \in CouponEditor!Rows
      /\ couponForm # None => couponForm \in CouponEditor!Forms
  BY <1>1, CouponTypes
<1>4. couponListed' \in CouponEditor!Rows \cup {None} /\ (couponListed' # None =>
        couponListed' \in {couponListed, coupon})
  BY <1>1 DEF CouponEditor!List, CouponEditor!NewCoupon, CouponEditor!StartEdit, CouponEditor!Fill,
     CouponEditor!Close, CouponEditor!Submit, CouponEditor!vars, CouponEditor!TypeOK
<1>5. /\ couponForm' \in CouponEditor!Forms \cup {None}
      /\ couponForm' # None => \/ couponForm'.editing \in {couponListed, None}
                               \/ couponForm # None /\ couponForm'.editing = couponForm.editing
  <2>1. CASE couponForm' \in {couponForm, None}
    BY <1>1, <2>1 DEF CouponEditor!TypeOK
  <2>2. CASE CouponEditor!NewCoupon
    BY <2>2 DEF CouponEditor!NewCoupon, CouponEditor!Forms
  <2>3. CASE CouponEditor!StartEdit
    <3>1. /\ couponListed \in CouponEditor!Rows
          /\ couponForm' = [editing |-> couponListed,
                            discount_value |-> couponListed.discount_value,
                            maximum_redemptions |-> couponListed.maximum_redemptions]
      BY <1>3, <2>3 DEF CouponEditor!StartEdit
    <3>. QED
      BY <3>1 DEF CouponEditor!Forms, CouponEditor!Rows
  <2>4. CASE CouponEditor!Fill
    BY <1>3, <2>4 DEF CouponEditor!Fill, CouponEditor!Forms
  <2>5. CASE CouponEditor!List \/ CouponEditor!Close \/ CouponEditor!Submit \/
               UNCHANGED CouponEditor!vars \/ \E b \in BOOLEAN : CouponEditor!Ended(b)
    BY <2>1, <2>5 DEF CouponEditor!List, CouponEditor!Close, CouponEditor!Submit,
       CouponEditor!vars, CouponEditor!Ended
  <2>. QED
    BY <2>2, <2>3, <2>4, <2>5
<1>6. couponSave' \in CouponEditor!Creates \cup CouponEditor!Updates \cup {None}
  <2>1. CASE CouponEditor!Submit
    <3>1. couponForm \in CouponEditor!Forms /\ couponSave' = CouponEditor!Payload(couponForm)
      BY <1>3, <2>1 DEF CouponEditor!Submit
    <3>2. CASE couponForm.editing = None
      BY <3>1, <3>2 DEF CouponEditor!Payload, CouponEditor!Creates, CouponEditor!Forms
    <3>3. CASE couponForm.editing # None
      <4>1. couponForm.editing \in CouponEditor!Rows
        BY <3>1, <3>3 DEF CouponEditor!Forms
      <4>. QED
        BY <3>1, <3>3, <4>1 DEF CouponEditor!Payload, CouponEditor!Updates, CouponEditor!Forms,
           CouponEditor!Rows
    <3>. QED
      BY <3>2, <3>3
  <2>2. CASE ~CouponEditor!Submit
    BY <1>1, <2>2 DEF CouponEditor!List, CouponEditor!NewCoupon, CouponEditor!StartEdit,
       CouponEditor!Fill, CouponEditor!Close, CouponEditor!vars, CouponEditor!Ended,
       CouponEditor!TypeOK
  <2>. QED
    BY <2>1, <2>2
<1>7. CouponEditor!TypeOK'
  BY <1>1, <1>2, <1>4, <1>5, <1>6 DEF CouponEditor!TypeOK
<1>8. \A r \in CouponEditor!Rows : SeenCoupon(r)' => SeenCoupon(r) \/ r = coupon
  BY <1>2, <1>4, <1>5 DEF SeenCoupon, CouponEditor!ConstantsAssumption
<1>9. CouponIsKnown'
  BY <1>1, <1>2, <1>8, CouponUntouched
<1>10. CouponEditor!GrantedAsShown' /\ CouponEditor!UsedCouponsStay'
  BY <1>1, <1>2 DEF CouponEditor!GrantedAsShown, CouponEditor!UsedCouponsStay, CouponEditor!InForce
<1>. QED
  BY <1>7, <1>9, <1>10 DEF CouponsInv

\* The first save makes the coupon, which nobody has used.
LEMMA CreateCouponKeeps ==
  ASSUME CouponEditor!ConstantsAssumption, CouponsInv, CouponEditor!Create
  PROVE  CouponsInv'
<1>1. CouponEditor!TypeOK /\ CouponIsKnown /\ CouponEditor!GrantedAsShown /\
        CouponEditor!UsedCouponsStay
  BY DEF CouponsInv
<1>2. CASE coupon # None
  <2>1. UNCHANGED <<coupon, redeemed, couponListed>> /\ \E b \in BOOLEAN : CouponEditor!Ended(b)
    BY <1>2 DEF CouponEditor!Create
  <2>. QED
    BY <2>1, CouponPageKeeps
<1>3. CASE coupon = None
  <2>1. /\ couponSave \in CouponEditor!Creates
        /\ coupon' = [discount_value |-> couponSave.discount_value, status |-> "active",
                      redemption_count |-> 0, version |-> 1,
                      maximum_redemptions |-> couponSave.maximum_redemptions]
        /\ UNCHANGED <<redeemed, couponListed>>
        /\ couponForm' \in {couponForm, None} /\ couponSave' = None
    BY <1>3 DEF CouponEditor!Create, CouponEditor!Ended
  <2>2. 0 \in CouponEditor!Uses /\ 1 \in 1..MaxRevision
    BY <1>1, CouponTypes DEF CouponEditor!Uses, CouponEditor!ConstantsAssumption
  <2>3. /\ coupon' \in CouponEditor!Rows /\ coupon'.redemption_count = 0 /\ coupon'.version = 1
        /\ coupon'.status = "active"
    BY <2>1, <2>2 DEF CouponEditor!Creates, CouponEditor!Rows
  <2>4. CouponEditor!TypeOK'
    BY <1>1, <2>1, <2>3 DEF CouponEditor!TypeOK
  <2>5. \A r \in CouponEditor!Rows : SeenCoupon(r)' => SeenCoupon(r)
    BY <2>1 DEF SeenCoupon
  <2>6. CouponIsKnown'
    BY <1>1, <1>3, <2>3, <2>5, CouponWritten
  <2>7. CouponEditor!InForce = {} /\ CouponEditor!InForce' = {}
    BY <1>1, <1>3, <2>1 DEF CouponEditor!UsedCouponsStay, CouponEditor!Alive, CouponEditor!InForce
  <2>8. 0 <= coupon'.maximum_redemptions /\ CouponEditor!Cardinality({}) = 0
    BY <1>1, <2>3, CouponTypes, SameUses, FS_EmptySet
  <2>9. CouponEditor!GrantedAsShown' /\ CouponEditor!UsedCouponsStay'
    BY <2>3, <2>7, <2>8 DEF CouponEditor!GrantedAsShown, CouponEditor!UsedCouponsStay
  <2>. QED
    BY <2>4, <2>6, <2>9 DEF CouponsInv
<1>. QED
  BY <1>2, <1>3

LEMMA CouponsStep ==
  ASSUME CouponEditor!ConstantsAssumption, CouponsInv, [CouponEditor!Next]_CouponEditor!vars
  PROVE  CouponsInv'
<1>1. CASE CouponEditor!Elsewhere
  BY <1>1, RemoveKeeps, UpdateCouponKeeps DEF CouponEditor!Elsewhere
<1>2. CASE CouponEditor!Update
  <2>1. CASE CouponEditor!Accepted(couponSave)
    BY <1>2, <2>1, UpdateCouponKeeps DEF CouponEditor!Update, CouponEditor!Ended
  <2>2. CASE ~CouponEditor!Accepted(couponSave)
    BY <1>2, <2>2, CouponPageKeeps DEF CouponEditor!Update
  <2>. QED
    BY <2>1, <2>2
<1>3. CASE CouponEditor!Toggle
  <2>. DEFINE u == [expected_version |-> couponListed.version, discount_value |-> NotSent,
                    maximum_redemptions |-> NotSent,
                    status |-> IF couponListed.status = "disabled" THEN "active" ELSE "disabled"]
  <2>1. /\ couponListed # None /\ CouponEditor!Accepted(u) /\ CouponEditor!Updated(u)
        /\ UNCHANGED <<redeemed, couponListed, couponForm, couponSave>>
    BY <1>3 DEF CouponEditor!Toggle
  <2>2. couponListed \in CouponEditor!Rows
    BY <2>1, CouponTypes DEF CouponsInv
  <2>3. u \in CouponEditor!Updates
    BY <2>2 DEF CouponEditor!Updates, CouponEditor!Rows
  <2>. HIDE DEF u
  <2>. QED
    BY <2>1, <2>3, UpdateCouponKeeps
<1>4. CASE CouponEditor!Delete
  BY <1>4, RemoveKeeps DEF CouponEditor!Delete
<1>. QED
  BY <1>1, <1>2, <1>3, <1>4, RedeemCouponKeeps, ReleaseCouponKeeps, CouponPageKeeps,
     CreateCouponKeeps DEF CouponEditor!Next

LEMMA CouponsSafe ==
  ASSUME CouponEditor!ConstantsAssumption, CouponsInv
  PROVE  CouponEditor!CouponsHold
<1>1. CouponEditor!TypeOK /\ CouponIsKnown /\ CouponEditor!GrantedAsShown /\
        CouponEditor!UsedCouponsStay
  BY DEF CouponsInv
<1>2. CouponEditor!RevisionsIdentify
  BY <1>1, CouponTypes DEF CouponEditor!RevisionsIdentify, CouponIsKnown, SeenCoupon,
     CouponEditor!Forms
<1>. QED
  BY <1>1, <1>2 DEF CouponEditor!CouponsHold

-----------------------------------------------------------------------------
(* One current term, and what is done was seen: ConsoleTerms.              *)

\* The instance's copies of the library's operators are the library's.
LEMMA SameCounts ==
  \A S : TermEditor!Cardinality(S) = Cardinality(S)
BY Zenon DEF TermEditor!Cardinality, Cardinality

OneInTheWay ==
  \A t, u \in Terms : terms[t].status \in TermEditor!Current /\
    terms[u].status \in TermEditor!Current => t = u

\* A row that is written gets another version: what was seen is older, or the row but for the
\* end of its period.
Follows(seen, row) ==
  seen.version < row.version \/ (seen.version = row.version /\ seen.status = row.status)

SeenBefore ==
  /\ \A t \in Terms : Follows(termsListed[t], terms[t])
  /\ \A c \in changes : Follows(c.seen, terms[c.term])

TermsInv == TermEditor!TypeOK /\ OneInTheWay /\ SeenBefore

-----------------------------------------------------------------------------
LEMMA InitTerms ==
  ASSUME TermEditor!ConstantsAssumption, TermEditor!Init
  PROVE  TermsInv
<1>1. TermEditor!Unused \in TermEditor!TermRows /\
        TermEditor!Unused.status \notin TermEditor!Current
  BY DEF TermEditor!Unused, TermEditor!TermRows, TermEditor!Current, TermEditor!ConstantsAssumption
<1>2. terms \in [Terms -> TermEditor!TermRows] /\ \A t \in Terms : terms[t] = TermEditor!Unused
  BY <1>1 DEF TermEditor!Init
<1>3. TermEditor!TypeOK
  BY <1>2 DEF TermEditor!Init, TermEditor!TypeOK, TermEditor!ConstantsAssumption
<1>. QED
  BY <1>1, <1>2, <1>3 DEF TermEditor!Init, TermsInv, OneInTheWay, SeenBefore, Follows

\* What the server writes, at whosever request.
LEMMA RowsMove ==
  ASSUME TermEditor!ConstantsAssumption, terms \in [Terms -> TermEditor!TermRows], OneInTheWay,
         TermEditor!Assigned \/ \E t \in Terms, a \in TermEditor!Actions : TermEditor!Apply(t, a)
  PROVE  /\ terms' \in [Terms -> TermEditor!TermRows] /\ OneInTheWay'
         /\ \A t \in Terms : Follows(terms[t], terms'[t])
<1>. USE DEF TermEditor!ConstantsAssumption
<1>1. /\ TermEditor!Fresh \in TermEditor!TermRows /\ TermEditor!Fresh.version = 1 /\
           TermEditor!Fresh.status = "active"
      /\ TermEditor!Unused.version = 0 /\ TermEditor!Unused.status = "unused" /\
           TermEditor!Unused.over = FALSE
  BY DEF TermEditor!Fresh, TermEditor!Unused, TermEditor!TermRows, TermEditor!Current
<1>2. CASE TermEditor!Assigned
  <2>1. PICK new \in Terms : terms[new] = TermEditor!Unused /\
          terms' = [terms EXCEPT ![new] = TermEditor!Fresh]
    BY <1>2 DEF TermEditor!Assigned
  <2>2. \A t \in Terms : terms[t].status \notin TermEditor!Current
    BY <1>2 DEF TermEditor!Assigned, TermEditor!InTheWay
  <2>3. terms' \in [Terms -> TermEditor!TermRows]
    BY <1>1, <2>1
  <2>4. OneInTheWay'
    BY <1>1, <2>1, <2>2 DEF OneInTheWay
  <2>5. \A t \in Terms : Follows(terms[t], terms'[t])
    BY <1>1, <2>1 DEF Follows
  <2>. QED
    BY <2>3, <2>4, <2>5
<1>3. ASSUME NEW t \in Terms, NEW a \in TermEditor!Actions, TermEditor!Apply(t, a)
      PROVE  /\ terms' \in [Terms -> TermEditor!TermRows] /\ OneInTheWay'
             /\ \A u \in Terms : Follows(terms[u], terms'[u])
  <2>. DEFINE closed == TermEditor!Closed(t, TermEditor!Target(a))
  <2>1. terms[t] \in TermEditor!TermRows /\ terms[t].version < MaxChange /\
          TermEditor!Allowed(a, terms[t])
    BY <1>3 DEF TermEditor!Apply
  <2>2. TermEditor!Target(a) \in {"suspended", "active", "expired", "cancelled"}
    BY DEF TermEditor!Target, TermEditor!Actions
  <2>3. closed \in TermEditor!TermRows /\ closed.version = terms[t].version + 1 /\
          closed.status = TermEditor!Target(a)
    <3>1. terms[t].version + 1 \in 0..MaxChange
      BY <2>1 DEF TermEditor!TermRows
    <3>. DEFINE to == TermEditor!Target(a)
    <3>2. to \in TermEditor!Current \cup {"unused", "cancelled", "expired"}
      BY <2>2 DEF TermEditor!Current
    <3>. HIDE DEF to
    <3>3. closed = [terms[t] EXCEPT !.status = to, !.version = @ + 1]
      BY DEF TermEditor!Closed, to
    <3>. HIDE DEF closed
    <3>4. closed \in TermEditor!TermRows /\ closed.version = terms[t].version + 1 /\
            closed.status = to
      BY <2>1, <3>1, <3>2, <3>3 DEF TermEditor!TermRows
    <3>. QED
      BY <3>4 DEF to
  <2>4. CASE a \in {"renew", "replace"}
    <3>. HIDE DEF closed
    <3>1. PICK new \in Terms :
            /\ terms[new] = TermEditor!Unused
            /\ terms' = [terms EXCEPT ![t] = closed, ![new] = TermEditor!Fresh]
      BY <1>3, <2>4 DEF TermEditor!Apply, closed
    <3>2. \A u \in Terms : terms[u].status \in TermEditor!Current => u = t
      BY <1>3, <2>4 DEF TermEditor!Apply, TermEditor!InTheWay
    <3>3. t # new
      BY <1>1, <2>1, <2>4, <3>1 DEF TermEditor!Allowed, TermEditor!Current
    <3>4. closed.status \notin TermEditor!Current
      BY <2>3, <2>4 DEF TermEditor!Target, TermEditor!Current
    <3>5. terms' \in [Terms -> TermEditor!TermRows]
      BY <1>1, <2>3, <3>1
    <3>6. \A u \in Terms : terms'[u] = IF u = new THEN TermEditor!Fresh
            ELSE IF u = t THEN closed ELSE terms[u]
      BY <3>1, <3>3
    <3>7. OneInTheWay'
      BY <3>2, <3>4, <3>6 DEF OneInTheWay
    <3>8. terms[t].version \in Nat
      BY <2>1 DEF TermEditor!TermRows
    <3>9. \A u \in Terms : Follows(terms[u], terms'[u])
      BY <1>1, <2>3, <3>1, <3>6, <3>8 DEF Follows
    <3>. QED
      BY <3>5, <3>7, <3>9
  <2>5. CASE a \notin {"renew", "replace"}
    <3>. HIDE DEF closed
    <3>1. terms' = [terms EXCEPT ![t] = closed]
      BY <1>3, <2>5 DEF TermEditor!Apply, closed
    <3>2. closed.status \in TermEditor!Current => terms[t].status \in TermEditor!Current
      BY <2>1, <2>3, <2>5 DEF TermEditor!Target, TermEditor!Allowed, TermEditor!Actions,
         TermEditor!Current
    <3>3. terms' \in [Terms -> TermEditor!TermRows]
      BY <2>3, <3>1
    <3>4. OneInTheWay'
      BY <3>1, <3>2 DEF OneInTheWay
    <3>5. terms[t].version \in Nat
      BY <2>1 DEF TermEditor!TermRows
    <3>6. \A u \in Terms : Follows(terms[u], terms'[u])
      BY <2>3, <3>1, <3>5 DEF Follows
    <3>. QED
      BY <3>3, <3>4, <3>6
  <2>. QED
    BY <2>4, <2>5
<1>. QED
  BY <1>2, <1>3

\* What was seen stays so when rows move on.
LEMMA StillBefore ==
  ASSUME TermEditor!TypeOK, SeenBefore, terms' \in [Terms -> TermEditor!TermRows],
         \A t \in Terms : Follows(terms[t], terms'[t]),
         termsListed' \in {termsListed, terms},
         \A c \in changes' : c \in changes \/ (c \in TermEditor!Changes /\
           c.seen = termsListed[c.term])
  PROVE  SeenBefore'
<1>1. \A t \in Terms : /\ terms[t].version \in Nat /\ terms'[t].version \in Nat
                       /\ termsListed[t].version \in Nat
  BY DEF TermEditor!TypeOK, TermEditor!TermRows
<1>2. \A t \in Terms : Follows(termsListed[t], terms'[t])
  BY <1>1 DEF SeenBefore, Follows
<1>3. ASSUME NEW c \in changes' PROVE Follows(c.seen, terms'[c.term])
  <2>1. c.term \in Terms /\ c.seen.version \in Nat
    BY DEF TermEditor!TypeOK, TermEditor!Changes, TermEditor!TermRows
  <2>2. Follows(c.seen, terms[c.term]) \/ c.seen = termsListed[c.term]
    BY DEF SeenBefore
  <2>. QED
    BY <1>1, <1>2, <2>1, <2>2 DEF Follows
<1>4. \A t \in Terms : Follows(termsListed'[t], terms'[t])
  BY <1>2
<1>. QED
  BY <1>3, <1>4 DEF SeenBefore

\* One current term, and what is done was seen.
LEMMA TermsStep ==
  ASSUME TermEditor!ConstantsAssumption, TermsInv, [TermEditor!Next]_TermEditor!vars
  PROVE  /\ TermsInv'
         /\ \A c \in changes \ changes' :
              terms' # terms => [terms[c.term] EXCEPT !.over = c.seen.over] = c.seen
<1>1. TermEditor!TypeOK /\ OneInTheWay /\ SeenBefore /\ terms \in [Terms -> TermEditor!TermRows]
  BY DEF TermsInv, TermEditor!TypeOK
<1>2. CASE UNCHANGED terms
  <2>1. \A t \in Terms : Follows(terms[t], terms'[t])
    BY <1>2 DEF Follows
  <2>2. /\ termsListed' \in {termsListed, terms} /\ termChosen' \in Terms \cup {None}
        /\ assigning' \in 0..MaxGrants
        /\ \A c \in changes' : c \in changes \/ (c \in TermEditor!Changes /\
             c.seen = termsListed[c.term])
    <3>1. CASE UNCHANGED TermEditor!vars
      BY <1>1, <3>1 DEF TermEditor!vars, TermEditor!TypeOK
    <3>2. CASE TermEditor!Elsewhere \/ TermEditor!List
      BY <1>1, <3>2 DEF TermEditor!Elsewhere, TermEditor!List, TermEditor!TypeOK
    <3>3. CASE TermEditor!Assign \/ TermEditor!ServeAssign
      BY <1>1, <3>3 DEF TermEditor!Assign, TermEditor!ServeAssign, TermEditor!TypeOK,
         TermEditor!ConstantsAssumption
    <3>4. ASSUME NEW t \in Terms, TermEditor!PeriodEnds(t) \/ TermEditor!Choose(t) PROVE <2>2!:
      BY <1>1, <3>4 DEF TermEditor!PeriodEnds, TermEditor!Choose, TermEditor!TypeOK
    <3>5. ASSUME NEW t \in Terms, NEW a \in TermEditor!Actions, TermEditor!ChangeStatus(t, a)
          PROVE  <2>2!:
      <4>. DEFINE c == [term |-> t, action |-> a, seen |-> termsListed[t]]
      <4>1. c \in TermEditor!Changes /\ c.seen = termsListed[c.term]
        BY <1>1 DEF TermEditor!Changes, TermEditor!TypeOK
      <4>. HIDE DEF c
      <4>2. changes' = changes \cup {c} /\ UNCHANGED <<terms, termsListed, termChosen, assigning>>
        BY <3>5 DEF TermEditor!ChangeStatus, c
      <4>. QED
        BY <1>1, <4>1, <4>2 DEF TermEditor!TypeOK
    <3>6. ASSUME NEW a \in {"renew", "replace"}, TermEditor!SubmitTerm(a) PROVE <2>2!:
      <4>. DEFINE c == [term |-> termChosen, action |-> a, seen |-> termsListed[termChosen]]
      <4>1. termChosen \in Terms
        BY <1>1, <3>6 DEF TermEditor!SubmitTerm, TermEditor!TypeOK
      <4>2. c \in TermEditor!Changes /\ c.seen = termsListed[c.term]
        BY <1>1, <4>1 DEF TermEditor!Changes, TermEditor!TypeOK, TermEditor!Actions
      <4>. HIDE DEF c
      <4>3. changes' = changes \cup {c} /\ UNCHANGED <<terms, termsListed, termChosen, assigning>>
        BY <3>6 DEF TermEditor!SubmitTerm, c
      <4>. QED
        BY <1>1, <4>2, <4>3 DEF TermEditor!TypeOK
    <3>7. ASSUME NEW c \in changes, TermEditor!Serve(c) PROVE <2>2!:
      BY <1>1, <3>7 DEF TermEditor!Serve, TermEditor!TypeOK
    <3>. QED
      BY <3>1, <3>2, <3>3, <3>4, <3>5, <3>6, <3>7 DEF TermEditor!Next
  <2>3. SeenBefore'
    BY <1>1, <1>2, <2>1, <2>2, StillBefore
  <2>4. TermEditor!TypeOK'
    BY <1>1, <1>2, <2>2 DEF TermEditor!TypeOK
  <2>. QED
    BY <1>1, <1>2, <2>3, <2>4 DEF TermsInv, OneInTheWay
<1>3. CASE terms' # terms
  <2>1. \/ \E t \in Terms : TermEditor!PeriodEnds(t)
        \/ TermEditor!Elsewhere \/ (TermEditor!ServeAssign /\ TermEditor!Assigned)
        \/ \E c \in changes : TermEditor!Serve(c) /\ TermEditor!SeenAsIs(c.term, c.seen) /\
             TermEditor!Apply(c.term, c.action)
    <3>1. CASE UNCHANGED TermEditor!vars \/ TermEditor!List \/ TermEditor!Assign
      BY <1>3, <3>1 DEF TermEditor!vars, TermEditor!List, TermEditor!Assign
    <3>2. ASSUME NEW t \in Terms, TermEditor!Choose(t) \/ \E a \in TermEditor!Actions :
                 TermEditor!ChangeStatus(t, a)
          PROVE  FALSE
      BY <1>3, <3>2 DEF TermEditor!Choose, TermEditor!ChangeStatus
    <3>3. ASSUME NEW a \in {"renew", "replace"}, TermEditor!SubmitTerm(a)
          PROVE  FALSE
      BY <1>3, <3>3 DEF TermEditor!SubmitTerm
    <3>4. CASE TermEditor!ServeAssign
      BY <1>3, <3>4 DEF TermEditor!ServeAssign
    <3>5. ASSUME NEW c \in changes, TermEditor!Serve(c)
          PROVE  TermEditor!SeenAsIs(c.term, c.seen) /\ TermEditor!Apply(c.term, c.action)
      BY <1>3, <3>5 DEF TermEditor!Serve
    <3>. QED
      BY <1>3, <3>1, <3>2, <3>3, <3>4, <3>5 DEF TermEditor!Next, TermEditor!vars, TermEditor!List,
         TermEditor!Assign
  <2>2. /\ terms' \in [Terms -> TermEditor!TermRows] /\ OneInTheWay'
        /\ \A t \in Terms : Follows(terms[t], terms'[t])
    <3>1. ASSUME NEW t \in Terms, TermEditor!PeriodEnds(t) PROVE <2>2!:
      BY <1>1, <3>1 DEF TermEditor!PeriodEnds, TermEditor!TermRows, OneInTheWay, Follows
    <3>2. \A c \in changes : c.term \in Terms /\ c.action \in TermEditor!Actions
      BY <1>1 DEF TermEditor!TypeOK, TermEditor!Changes
    <3>. QED
      BY <1>1, <2>1, <3>1, <3>2, RowsMove DEF TermEditor!Elsewhere
  <2>3. /\ termsListed' = termsListed /\ changes' \subseteq changes
        /\ termChosen' \in Terms \cup {None} /\ assigning' \in 0..MaxGrants
    BY <1>1, <2>1 DEF TermEditor!PeriodEnds, TermEditor!Elsewhere, TermEditor!ServeAssign,
       TermEditor!Serve, TermEditor!TypeOK, TermEditor!ConstantsAssumption
  <2>4. SeenBefore'
    BY <1>1, <2>2, <2>3, StillBefore
  <2>5. TermEditor!TypeOK'
    BY <1>1, <2>2, <2>3 DEF TermEditor!TypeOK
  <2>6. ASSUME NEW c \in changes \ changes'
        PROVE  [terms[c.term] EXCEPT !.over = c.seen.over] = c.seen
    <3>1. PICK d \in changes : TermEditor!Serve(d) /\ TermEditor!SeenAsIs(d.term, d.seen)
      BY <2>1 DEF TermEditor!PeriodEnds, TermEditor!Elsewhere, TermEditor!ServeAssign
    <3>2. c = d
      BY <3>1 DEF TermEditor!Serve
    <3>3. c.seen.version = terms[c.term].version
      BY <3>1, <3>2 DEF TermEditor!SeenAsIs
    <3>4. c.seen \in TermEditor!TermRows /\ terms[c.term] \in TermEditor!TermRows
      BY <1>1 DEF TermEditor!TypeOK, TermEditor!Changes
    <3>5. c.seen.status = terms[c.term].status
      BY <1>1, <3>3, <3>4 DEF SeenBefore, Follows, TermEditor!TermRows
    <3>. QED
      BY <3>3, <3>4, <3>5 DEF TermEditor!TermRows
  <2>. QED
    BY <2>2, <2>4, <2>5, <2>6 DEF TermsInv
<1>. QED
  BY <1>2, <1>3

LEMMA TermsSafe ==
  ASSUME TermsInv
  PROVE  TermEditor!OneManualTerm
<1>. DEFINE S == {t \in Terms : terms[t].status \in TermEditor!Current}
<1>1. S = {} \/ \E t \in Terms : S = {t}
  BY DEF TermsInv, OneInTheWay
<1>2. TermEditor!Cardinality(S) \in {0, 1}
  BY <1>1, SameCounts, FS_EmptySet, FS_Singleton
<1>. QED
  BY <1>2 DEF TermEditor!OneManualTerm

-----------------------------------------------------------------------------
(* Nothing retired on offer, nothing hidden shown: ConsoleStorefront.      *)

Retired == {p \in Plans : offer[p] \in {"archived", "deleted"}}

\* What a request names was on offer when it was counted, and is, or was crossed by an archival,
\* or cannot be written.
CountedWereOffered ==
  \A r \in publishing : r.counted =>
    Storefront!Named(r.design) \subseteq Storefront!Offers \cup crossed \cup {p \in Plans :
      offer[p] = "deleted"}

\* The screen has an older design, or hides what is hidden but for plans retired since.
ScreenIsPast ==
  designShown # None =>
    /\ designShown.version <= design.version
    /\ designShown.version = design.version =>
         design.hidden \subseteq designShown.hidden \cup Retired

\* And so does a request; one that was counted after a retirement is none of those that show it.
RequestsArePast ==
  \A r \in publishing :
    /\ r.design.version <= design.version
    /\ r.design.version = design.version =>
         design.hidden \cap r.design.visible \subseteq
           crossed \cup (IF r.counted THEN {} ELSE Retired)

StorefrontInv ==
  /\ Storefront!TypeOK /\ design.version \in Nat
  /\ Storefront!RetiredPlansAreGone /\ CountedWereOffered /\ ScreenIsPast /\ RequestsArePast

-----------------------------------------------------------------------------
LEMMA HiddenFields ==
  ASSUME NEW d \in Storefront!Designs, NEW p \in Plans
  PROVE  /\ Storefront!Hidden(d, p) \in Storefront!Designs
         /\ Storefront!Hidden(d, p).visible = d.visible \ {p}
         /\ Storefront!Hidden(d, p).hidden = d.hidden \cup (d.visible \cap {p})
         /\ Storefront!Hidden(d, p).version = d.version
         /\ Storefront!Hidden(d, p).recommended = IF d.recommended = p THEN None ELSE d.recommended
         /\ [Storefront!Hidden(d, p) EXCEPT !.hidden = @ \ {p}] \in Storefront!Designs
         /\ [Storefront!Hidden(d, p) EXCEPT !.hidden = @ \ {p}].visible = d.visible \ {p}
         /\ [Storefront!Hidden(d, p) EXCEPT !.hidden = @ \ {p}].hidden = d.hidden \ {p}
         /\ [Storefront!Hidden(d, p) EXCEPT !.hidden = @ \ {p}].version = d.version
         /\ [Storefront!Hidden(d, p) EXCEPT !.hidden = @ \ {p}].recommended =
              Storefront!Hidden(d, p).recommended
<1>. DEFINE h == Storefront!Hidden(d, p)
            v == d.visible \ {p}
            g == d.hidden \cup (d.visible \cap {p})
            r == IF d.recommended = p THEN None ELSE d.recommended
<1>1. d.visible \subseteq Plans /\ d.hidden \subseteq Plans /\ d.recommended \in Plans \cup {None}
  BY DEF Storefront!Designs
<1>2. v \in SUBSET Plans /\ g \in SUBSET Plans /\ r \in Plans \cup {None} /\
        g \ {p} = d.hidden \ {p}
  BY <1>1
<1>3. h = [d EXCEPT !.visible = v, !.hidden = g, !.recommended = r]
  BY DEF Storefront!Hidden
<1>. HIDE DEF h, v, g, r
<1>4. h \in Storefront!Designs /\ h.visible = v /\ h.hidden = g /\ h.recommended = r /\
        h.version = d.version
  BY <1>2, <1>3 DEF Storefront!Designs
<1>5. g \ {p} \in SUBSET Plans
  BY <1>2
<1>6. /\ [h EXCEPT !.hidden = @ \ {p}] \in Storefront!Designs
      /\ [h EXCEPT !.hidden = @ \ {p}].visible = h.visible
      /\ [h EXCEPT !.hidden = @ \ {p}].hidden = g \ {p}
      /\ [h EXCEPT !.hidden = @ \ {p}].version = h.version
      /\ [h EXCEPT !.hidden = @ \ {p}].recommended = h.recommended
  BY <1>4, <1>5 DEF Storefront!Designs
<1>. QED
  BY <1>2, <1>4, <1>6 DEF h, v, g, r

LEMMA InitStorefront ==
  ASSUME Storefront!ConstantsAssumption, Storefront!Init
  PROVE  StorefrontInv
<1>1. design \in Storefront!Designs /\ design.visible = {} /\ design.recommended = None /\
        design.version = 0
  BY DEF Storefront!Init, Storefront!Designs, Storefront!ConstantsAssumption
<1>2. Storefront!TypeOK
  BY <1>1 DEF Storefront!Init, Storefront!TypeOK
<1>3. Storefront!RetiredPlansAreGone
  BY <1>1 DEF Storefront!RetiredPlansAreGone, Storefront!ConstantsAssumption
<1>. QED
  BY <1>1, <1>2, <1>3
     DEF Storefront!Init, StorefrontInv, CountedWereOffered, ScreenIsPast, RequestsArePast

\* What leaves the offer and the design alone.
LEMMA StillPast ==
  ASSUME StorefrontInv, UNCHANGED <<offer, design, crossed>>,
         designShown' \in Storefront!Designs \cup {None}, plansListed' \subseteq Plans,
         blind' \in BOOLEAN, publishing' \subseteq Storefront!Publishes,
         designShown' # None =>
           \/ /\ designShown # None
              /\ designShown'.version = designShown.version /\
                   designShown'.hidden = designShown.hidden
           \/ designShown' = design,
         \A r \in publishing' :
           \/ r \in publishing
           \/ \E q \in publishing :
                r.design = q.design /\ Storefront!Countable(q.design)
           \/ /\ ~r.counted /\ r.design.version = -1
           \/ /\ ~r.counted /\ designShown # None /\ r.design.version = designShown.version
              /\ r.design.visible \cap designShown.hidden = {}
  PROVE  StorefrontInv'
<1>1. Storefront!TypeOK /\ design.version \in Nat /\ design \in Storefront!Designs /\
        Storefront!RetiredPlansAreGone
      /\ CountedWereOffered /\ ScreenIsPast /\ RequestsArePast
  BY DEF StorefrontInv, Storefront!TypeOK
<1>2. Storefront!Offers' = Storefront!Offers /\ Retired' = Retired
  BY DEF Storefront!Offers, Retired
<1>3. Storefront!TypeOK'
  BY <1>1 DEF Storefront!TypeOK
<1>4. Storefront!RetiredPlansAreGone'
  BY <1>1, <1>2 DEF Storefront!RetiredPlansAreGone
<1>5. CountedWereOffered'
  <2>. SUFFICES ASSUME NEW r \in publishing', r.counted
                PROVE  Storefront!Named(r.design) \subseteq
                         Storefront!Offers \cup crossed \cup {p \in Plans : offer[p] = "deleted"}
    BY <1>2 DEF CountedWereOffered, Storefront!Named, Storefront!Listed
  <2>. QED
    BY <1>1 DEF CountedWereOffered, Storefront!Countable
<1>6. ScreenIsPast'
  BY <1>1, <1>2 DEF ScreenIsPast
<1>7. RequestsArePast'
  <2>. SUFFICES ASSUME NEW r \in publishing'
                PROVE  /\ r.design.version <= design.version
                       /\ r.design.version = design.version =>
                            design.hidden \cap r.design.visible \subseteq
                              crossed \cup (IF r.counted THEN {} ELSE Retired)
    BY <1>2 DEF RequestsArePast
  <2>1. CASE r \in publishing
    BY <1>1, <2>1 DEF RequestsArePast
  <2>2. ASSUME NEW q \in publishing, r.design = q.design, Storefront!Countable(q.design)
        PROVE  /\ r.design.version <= design.version
               /\ r.design.version = design.version =>
                    design.hidden \cap r.design.visible \subseteq crossed
    <3>1. r.design.visible \cap Retired = {}
      BY <2>2 DEF Storefront!Countable, Storefront!Named, Storefront!Listed, Storefront!Offers,
         Retired
    <3>. QED
      BY <1>1, <2>2, <3>1 DEF RequestsArePast
  <2>3. CASE r.design.version = -1
    BY <1>1, <2>3
  <2>4. CASE /\ ~r.counted /\ designShown # None /\ r.design.version = designShown.version
             /\ r.design.visible \cap designShown.hidden = {}
    BY <1>1, <2>4 DEF ScreenIsPast
  <2>. QED
    BY <2>1, <2>2, <2>3, <2>4
<1>. QED
  BY <1>1, <1>3, <1>4, <1>5, <1>6, <1>7 DEF StorefrontInv

\* The catalog: plans are made, archived and deleted.
LEMMA OfferStep ==
  ASSUME Storefront!ConstantsAssumption, StorefrontInv, NEW p \in Plans,
         Storefront!CreatePlan(p) \/ Storefront!ArchivePlan(p) \/ Storefront!DeletePlan(p)
  PROVE  StorefrontInv' /\ UNCHANGED publishing
<1>1. /\ Storefront!TypeOK /\ design.version \in Nat /\ design \in Storefront!Designs /\
           Storefront!RetiredPlansAreGone
      /\ CountedWereOffered /\ ScreenIsPast /\ RequestsArePast
      /\ UNCHANGED <<plansListed, designShown, publishing, blind>>
      /\ offer \in [Plans -> {"none", "open", "archived", "deleted"}]
  BY DEF StorefrontInv, Storefront!TypeOK, Storefront!CreatePlan, Storefront!ArchivePlan,
     Storefront!DeletePlan
<1>2. CASE Storefront!CreatePlan(p)
  <2>1. /\ offer' = [offer EXCEPT ![p] = "open"] /\ offer[p] = "none"
        /\ UNCHANGED <<design, crossed>>
    BY <1>2 DEF Storefront!CreatePlan
  <2>2. /\ Retired' = Retired /\ Storefront!Offers \subseteq Storefront!Offers'
        /\ offer' \in [Plans -> {"none", "open", "archived", "deleted"}]
        /\ \A q \in Plans : offer'[q] = "deleted" <=> offer[q] = "deleted"
    BY <1>1, <2>1 DEF Retired, Storefront!Offers
  <2>3. Storefront!TypeOK'
    BY <1>1, <2>1, <2>2 DEF Storefront!TypeOK
  <2>4. Storefront!RetiredPlansAreGone'
    BY <1>1, <2>1, <2>2 DEF Storefront!RetiredPlansAreGone
  <2>5. CountedWereOffered'
    BY <1>1, <2>1, <2>2 DEF CountedWereOffered, Storefront!Named, Storefront!Listed
  <2>6. ScreenIsPast' /\ RequestsArePast'
    BY <1>1, <2>1, <2>2 DEF ScreenIsPast, RequestsArePast
  <2>. QED
    BY <1>1, <2>1, <2>3, <2>4, <2>5, <2>6 DEF StorefrontInv
<1>3. CASE Storefront!ArchivePlan(p) \/ Storefront!DeletePlan(p)
  <2>1. /\ offer[p] # "none" /\ \E to \in {"archived", "deleted"} :
             offer' = [offer EXCEPT ![p] = to]
        /\ offer[p] # "deleted"
    BY <1>1, <1>3 DEF Storefront!ArchivePlan, Storefront!DeletePlan
  <2>2. /\ design' \in Storefront!Designs /\ design'.visible = design.visible \ {p}
        /\ design'.hidden \subseteq design.hidden \cup {p}
        /\ design'.version = design.version
        /\ design'.recommended = IF design.recommended = p THEN None ELSE design.recommended
        /\ Storefront!DeletePlan(p) => p \notin design'.hidden
    <3>. DEFINE h == Storefront!Hidden(design, p)
                g == [h EXCEPT !.hidden = @ \ {p}]
    <3>1. /\ h \in Storefront!Designs /\ h.visible = design.visible \ {p} /\
               h.version = design.version
          /\ h.hidden = design.hidden \cup (design.visible \cap {p})
          /\ h.recommended = IF design.recommended = p THEN None ELSE design.recommended
          /\ g \in Storefront!Designs /\ g.visible = design.visible \ {p} /\
               g.version = design.version
          /\ g.hidden = design.hidden \ {p} /\ g.recommended = h.recommended
      BY <1>1, HiddenFields
    <3>2. CASE Storefront!ArchivePlan(p)
      <4>1. design' = h /\ offer'[p] = "archived"
        BY <1>1, <3>2 DEF Storefront!ArchivePlan
      <4>2. ~Storefront!DeletePlan(p)
        BY <1>1, <4>1 DEF Storefront!DeletePlan
      <4>. HIDE DEF h, g
      <4>. QED
        BY <3>1, <4>1, <4>2
    <3>3. CASE Storefront!DeletePlan(p)
      <4>1. design' = g
        BY <3>3 DEF Storefront!DeletePlan
      <4>. HIDE DEF h, g
      <4>. QED
        BY <3>1, <4>1
    <3>. QED
      BY <1>3, <3>2, <3>3
  <2>3. /\ crossed \subseteq crossed' /\ crossed' \subseteq Plans
        /\ Storefront!ArchivePlan(p) => \A r \in publishing : r.counted /\
             p \in Storefront!Named(r.design) => p \in crossed'
    BY <1>1, <1>3 DEF Storefront!ArchivePlan, Storefront!DeletePlan, Storefront!TypeOK
  <2>4. /\ Retired \subseteq Retired' /\ p \in Retired' /\
             Storefront!Offers' = Storefront!Offers \ {p}
        /\ offer' \in [Plans -> {"none", "open", "archived", "deleted"}]
        /\ \A q \in Plans : q # p => offer'[q] = offer[q]
        /\ Storefront!DeletePlan(p) => offer'[p] = "deleted"
    BY <1>1, <1>3, <2>1 DEF Retired, Storefront!Offers, Storefront!DeletePlan
  <2>5. Storefront!TypeOK'
    BY <1>1, <2>2, <2>3, <2>4 DEF Storefront!TypeOK
  <2>6. Storefront!RetiredPlansAreGone'
    BY <1>1, <2>2, <2>3, <2>4 DEF Storefront!RetiredPlansAreGone, Storefront!ConstantsAssumption
  <2>7. CountedWereOffered'
    <3>. SUFFICES ASSUME NEW r \in publishing, r.counted, NEW q \in Storefront!Named(r.design)
                  PROVE  q \in Storefront!Offers' \cup crossed' \cup {s \in Plans :
                           offer'[s] = "deleted"}
      BY <1>1 DEF CountedWereOffered, Storefront!Named, Storefront!Listed
    <3>1. q \in Storefront!Offers \cup crossed \cup {s \in Plans : offer[s] = "deleted"}
      BY <1>1 DEF CountedWereOffered
    <3>. QED
      BY <1>1, <1>3, <2>1, <2>3, <2>4, <3>1
  <2>8. ScreenIsPast'
    BY <1>1, <2>2, <2>4 DEF ScreenIsPast
  <2>9. RequestsArePast'
    <3>. SUFFICES ASSUME NEW r \in publishing
                  PROVE  /\ r.design.version <= design'.version
                         /\ r.design.version = design'.version =>
                              design'.hidden \cap r.design.visible \subseteq
                                crossed' \cup (IF r.counted THEN {} ELSE Retired')
      BY <1>1 DEF RequestsArePast
    <3>1. /\ r.design.version <= design.version
          /\ r.design.version = design.version =>
               design.hidden \cap r.design.visible \subseteq
                 crossed \cup (IF r.counted THEN {} ELSE Retired)
      BY <1>1 DEF RequestsArePast
    <3>2. p \in design'.hidden /\ p \in r.design.visible /\ r.counted => p \in crossed'
      BY <1>3, <2>2, <2>3 DEF Storefront!Named, Storefront!Listed
    <3>. QED
      BY <2>2, <2>3, <2>4, <3>1, <3>2
  <2>. QED
    BY <1>1, <2>2, <2>5, <2>6, <2>7, <2>8, <2>9 DEF StorefrontInv
<1>. QED
  BY <1>1, <1>2, <1>3

\* Designs of other clients and of the page's requests replace the row, under a new version.
LEMMA NewDesign ==
  ASSUME StorefrontInv, NEW d \in Storefront!Designs, design' = d, d.version = design.version + 1,
         publishing' \subseteq publishing, blind' \in BOOLEAN,
         UNCHANGED <<offer, crossed, plansListed, designShown>>,
         d.visible \subseteq Storefront!Offers \cup crossed,
         d.recommended \in Storefront!Offers \cup crossed \cup {None}, None \notin Plans
  PROVE  StorefrontInv'
<1>1. /\ Storefront!TypeOK /\ design.version \in Nat /\ CountedWereOffered /\ ScreenIsPast /\
           RequestsArePast
      /\ design \in Storefront!Designs
  BY DEF StorefrontInv, Storefront!TypeOK
<1>2. Storefront!Offers' = Storefront!Offers
  BY DEF Storefront!Offers
<1>3. Storefront!TypeOK'
  BY <1>1 DEF Storefront!TypeOK
<1>4. Storefront!RetiredPlansAreGone'
  BY <1>1, <1>2 DEF Storefront!RetiredPlansAreGone
<1>5. CountedWereOffered'
  BY <1>1, <1>2 DEF CountedWereOffered, Storefront!Named, Storefront!Listed
<1>6. designShown # None => designShown.version \in Int
  BY <1>1 DEF Storefront!TypeOK, Storefront!Designs
<1>7. ScreenIsPast'
  BY <1>1, <1>6 DEF ScreenIsPast
<1>8. \A r \in publishing : r.design.version \in Int
  BY <1>1 DEF Storefront!TypeOK, Storefront!Publishes, Storefront!Designs
<1>9. RequestsArePast'
  BY <1>1, <1>8 DEF RequestsArePast
<1>. QED
  BY <1>1, <1>3, <1>4, <1>5, <1>7, <1>9 DEF StorefrontInv

LEMMA PageStep ==
  ASSUME Storefront!ConstantsAssumption, StorefrontInv,
         \/ Storefront!FetchPlans \/ Storefront!FetchDesign \/ Storefront!Publish \/
              UNCHANGED Storefront!vars
         \/ \E r \in publishing : Storefront!CountPlans(r)
         \/ \E p \in Plans \cup {None} : Storefront!Recommend(p)
  PROVE  StorefrontInv' /\ UNCHANGED design
<1>1. Storefront!TypeOK /\ design \in Storefront!Designs /\
        publishing \subseteq Storefront!Publishes
      /\ designShown \in Storefront!Designs \cup {None} /\ plansListed \subseteq Plans
  BY DEF StorefrontInv, Storefront!TypeOK
<1>2. CASE Storefront!FetchPlans \/ Storefront!FetchDesign \/ UNCHANGED Storefront!vars
  <2>1. /\ UNCHANGED <<offer, design, crossed, publishing, blind>>
        /\ plansListed' \subseteq Plans /\ designShown' \in {designShown, design}
    BY <1>1, <1>2 DEF Storefront!FetchPlans, Storefront!FetchDesign, Storefront!vars,
       Storefront!Offers
  <2>. QED
    BY <1>1, <2>1, StillPast DEF Storefront!TypeOK
<1>3. ASSUME NEW p \in Plans \cup {None}, Storefront!Recommend(p) PROVE StorefrontInv' /\
             UNCHANGED design
  <2>1. /\ UNCHANGED <<offer, design, crossed, publishing, plansListed, blind>>
        /\ designShown # None /\ designShown' = [designShown EXCEPT !.recommended = p]
    BY <1>3 DEF Storefront!Recommend
  <2>2. /\ designShown' \in Storefront!Designs /\ designShown'.version = designShown.version
        /\ designShown'.hidden = designShown.hidden
    BY <1>1, <2>1 DEF Storefront!Designs
  <2>. QED
    BY <1>1, <2>1, <2>2, StillPast DEF Storefront!TypeOK
<1>4. ASSUME NEW r \in publishing, Storefront!CountPlans(r) PROVE StorefrontInv' /\ UNCHANGED design
  <2>. DEFINE s == [r EXCEPT !.counted = TRUE]
  <2>1. s \in Storefront!Publishes /\ s.design = r.design
    BY <1>1 DEF Storefront!Publishes
  <2>. HIDE DEF s
  <2>2. /\ UNCHANGED <<offer, design, crossed, plansListed, designShown, blind>>
        /\ \/ Storefront!Countable(r.design) /\ publishing' = (publishing \ {r}) \cup {s}
           \/ publishing' = publishing \ {r}
    BY <1>4 DEF Storefront!CountPlans, s
  <2>3. \A q \in publishing' :
          q \in publishing \/ \E o \in publishing : q.design = o.design /\
            Storefront!Countable(o.design)
    BY <2>1, <2>2
  <2>. QED
    BY <1>1, <2>1, <2>2, <2>3, StillPast DEF Storefront!TypeOK
<1>5. CASE Storefront!Publish
  <2>. DEFINE seen == IF designShown = None THEN Storefront!Unloaded ELSE designShown
              hidden == Storefront!StillHidden(seen)
              d == [seen EXCEPT !.hidden = hidden, !.visible = plansListed \ hidden]
              r == [design |-> d, counted |-> FALSE]
  <2>1. seen \in Storefront!Designs /\ (designShown = None => seen.version = -1)
    BY <1>1 DEF Storefront!Unloaded, Storefront!Designs, Storefront!ConstantsAssumption
  <2>2. hidden \in SUBSET Plans /\ hidden = seen.hidden \cap plansListed
    BY <1>1 DEF Storefront!StillHidden
  <2>3. /\ publishing' = publishing \cup {r}
        /\ UNCHANGED <<offer, design, crossed, plansListed, designShown, blind>>
    BY <1>5 DEF Storefront!Publish
  <2>4. designShown # None => seen = designShown
    OBVIOUS
  <2>. HIDE DEF seen, hidden
  <2>5. plansListed \ hidden \in SUBSET Plans
    BY <1>1
  <2>6. d \in Storefront!Designs /\ d.version = seen.version /\ d.visible = plansListed \ hidden
    BY <2>1, <2>2, <2>5 DEF Storefront!Designs
  <2>. HIDE DEF d
  <2>7. r \in Storefront!Publishes /\ r.design = d /\ ~r.counted
    BY <2>6 DEF Storefront!Publishes
  <2>. HIDE DEF r
  <2>8. \A q \in publishing' :
           \/ q \in publishing
           \/ /\ ~q.counted /\ q.design.version = -1
           \/ /\ ~q.counted /\ designShown # None /\ q.design.version = designShown.version
              /\ q.design.visible \cap designShown.hidden = {}
    BY <2>1, <2>2, <2>3, <2>4, <2>6, <2>7
  <2>9. publishing' \subseteq Storefront!Publishes
    BY <1>1, <2>3, <2>7
  <2>. QED
    BY <1>1, <2>3, <2>8, <2>9, StillPast DEF Storefront!TypeOK
<1>. QED
  BY <1>2, <1>3, <1>4, <1>5

LEMMA DesignStep ==
  ASSUME Storefront!ConstantsAssumption, StorefrontInv,
         Storefront!DesignElsewhere \/ \E r \in publishing : Storefront!WriteDesign(r)
  PROVE  /\ StorefrontInv'
         /\ publishing \ publishing' # {} /\ design' # design /\ ~blind' =>
              design.hidden \cap design'.visible \subseteq crossed
<1>1. Storefront!TypeOK /\ design \in Storefront!Designs /\ design.version \in Nat /\
        publishing \subseteq Storefront!Publishes
      /\ CountedWereOffered /\ RequestsArePast
  BY DEF StorefrontInv, Storefront!TypeOK
<1>2. CASE Storefront!DesignElsewhere
  <2>1. PICK h \in SUBSET Storefront!Offers, p \in Storefront!Offers \cup {None} :
          design' = [recommended |-> p, visible |-> Storefront!Offers \ h, hidden |-> h,
                     version |-> design.version + 1]
    BY <1>2 DEF Storefront!DesignElsewhere
  <2>. DEFINE d == [recommended |-> p, visible |-> Storefront!Offers \ h, hidden |-> h,
                    version |-> design.version + 1]
  <2>2. design.version + 1 \in 0..MaxEdition /\ Storefront!Offers \subseteq Plans
    BY <1>1, <1>2 DEF Storefront!DesignElsewhere, Storefront!Offers, Storefront!ConstantsAssumption
  <2>3. /\ d \in Storefront!Designs /\ d.version = design.version + 1 /\
             d.visible \subseteq Storefront!Offers
        /\ d.recommended \in Storefront!Offers \cup {None}
    BY <2>2 DEF Storefront!Designs
  <2>4. design' = d /\ UNCHANGED <<offer, crossed, plansListed, designShown, publishing, blind>>
    BY <1>2, <2>1 DEF Storefront!DesignElsewhere
  <2>. HIDE DEF d
  <2>5. StorefrontInv'
    BY <1>1, <2>3, <2>4, NewDesign DEF Storefront!TypeOK, Storefront!ConstantsAssumption
  <2>. QED
    BY <2>4, <2>5
<1>3. ASSUME NEW r \in publishing, Storefront!WriteDesign(r)
      PROVE  /\ StorefrontInv'
             /\ design' # design /\ ~blind' =>
                  design.hidden \cap design'.visible \subseteq crossed
  <2>1. /\ r \in Storefront!Publishes /\ r.counted /\ publishing' = publishing \ {r}
        /\ UNCHANGED <<offer, crossed, plansListed, designShown>>
    BY <1>1, <1>3 DEF Storefront!WriteDesign
  <2>2. CASE ~ \A p \in Storefront!Named(r.design) : offer[p] # "deleted"
    <3>1. UNCHANGED <<design, blind>>
      BY <1>3, <2>2 DEF Storefront!WriteDesign
    <3>. QED
      BY <1>1, <2>1, <3>1, StillPast DEF Storefront!TypeOK
  <2>3. CASE \A p \in Storefront!Named(r.design) : offer[p] # "deleted"
    <3>1. PICK p \in {r.design.recommended} \cup
                  (IF r.design.recommended \in Storefront!Offers THEN {} ELSE {None}) :
            design' = [r.design EXCEPT !.version = design.version + 1, !.recommended = p]
      BY <1>3, <2>3 DEF Storefront!WriteDesign
    <3>2. blind' = (r.design.version # design.version) /\ design.version < MaxEdition
      BY <1>3, <2>3 DEF Storefront!WriteDesign
    <3>. DEFINE n == design.version + 1
                d == [r.design EXCEPT !.version = n, !.recommended = p]
    <3>3. n \in -1..MaxEdition
      BY <1>1, <3>2 DEF Storefront!ConstantsAssumption
    <3>. HIDE DEF n
    <3>4. r.design \in Storefront!Designs /\ p \in Plans \cup {None}
      BY <2>1 DEF Storefront!Publishes, Storefront!Designs
    <3>5. /\ d \in Storefront!Designs /\ d.version = n /\ d.visible = r.design.visible
          /\ d.recommended = p
      BY <3>3, <3>4 DEF Storefront!Designs
    <3>6. Storefront!Named(r.design) \subseteq Storefront!Offers \cup crossed
      BY <1>1, <2>1, <2>3 DEF CountedWereOffered
    <3>7. d.visible \subseteq Storefront!Offers \cup crossed /\
            d.recommended \in Storefront!Offers \cup crossed \cup {None}
      BY <3>5, <3>6 DEF Storefront!Named, Storefront!Listed
    <3>8. design' = d
      BY <3>1 DEF n
    <3>. HIDE DEF d
    <3>9. StorefrontInv'
      BY <2>1, <3>2, <3>5, <3>7, <3>8, NewDesign DEF Storefront!ConstantsAssumption, n
    <3>10. ~blind' => design.hidden \cap design'.visible \subseteq crossed
      BY <1>1, <2>1, <3>2, <3>5, <3>8 DEF RequestsArePast
    <3>. QED
      BY <3>9, <3>10
  <2>. QED
    BY <2>2, <2>3
<1>. QED
  BY <1>2, <1>3

\* Nothing retired is offered, and nothing hidden shown.
LEMMA StorefrontStep ==
  ASSUME Storefront!ConstantsAssumption, StorefrontInv, [Storefront!Next]_Storefront!vars
  PROVE  /\ StorefrontInv'
         /\ publishing \ publishing' # {} /\ design' # design /\ ~blind' =>
              design.hidden \cap design'.visible \subseteq crossed
BY OfferStep, PageStep, DesignStep DEF Storefront!Next

-----------------------------------------------------------------------------
(* Forms filled from older rows: ConsoleSettings.                          *)

GeneralForms == [name : Names, url : Urls, from : Settings!Rows]
GeneralRequests == [form : GeneralForms, answer : Settings!Rows \cup {NoAnswer}]

\* A row seen before: older, or the row as it is.
Past(row) == row.version < application.version \/ row = application

FormsArePast ==
  /\ application \in Settings!Rows
  /\ appList \in Settings!Rows /\ Past(appList) /\ appStore \in Settings!Rows /\ Past(appStore)
  /\ general # None => general \in GeneralForms /\ Past(general.from)
  /\ generalSaves \subseteq GeneralRequests
  /\ \A s \in generalSaves :
       Past(s.form.from) /\ (s.answer # NoAnswer => Past(s.answer))

-----------------------------------------------------------------------------
LEMMA InitSettings ==
  ASSUME Settings!ConstantsAssumption, Settings!Init
  PROVE  FormsArePast
BY DEF Settings!Init, FormsArePast, Past, Settings!Rows, Settings!ConstantsAssumption

LEMMA RowWritten ==
  ASSUME Settings!ConstantsAssumption, application \in Settings!Rows, application.version < MaxEdit,
         NEW n \in Names, NEW u \in Urls, NEW l \in BOOLEAN
  PROVE  /\ Settings!Written(n, u, l) \in Settings!Rows /\
              Settings!Written(n, u, l).version = application.version + 1
         /\ Settings!Written(n, u, l).name = n /\ Settings!Written(n, u, l).url = u
BY DEF Settings!Written, Settings!Rows, Settings!NextVersion, Settings!ConstantsAssumption

\* Copies of the row stay copies of an older one when it is written.
LEMMA StaysPast ==
  ASSUME application \in Settings!Rows, application' \in Settings!Rows,
         application'.version = application.version + 1, NEW row \in Settings!Rows, Past(row)
  PROVE  row.version < application'.version
BY DEF Past, Settings!Rows

LEMMA SettingsStep ==
  ASSUME Settings!ConstantsAssumption, FormsArePast, [Settings!Next]_Settings!vars
  PROVE  /\ FormsArePast'
         /\ \A s \in generalSaves \ generalSaves' :
              s.form.from.version = application.version /\ application' # application =>
                /\ s.form.name = s.form.from.name => application'.name = application.name
                /\ s.form.url = s.form.from.url => application'.url = application.url
<1>1. /\ application \in Settings!Rows
      /\ appList \in Settings!Rows /\ Past(appList) /\ appStore \in Settings!Rows /\ Past(appStore)
      /\ general # None => general \in GeneralForms /\ Past(general.from)
      /\ generalSaves \subseteq GeneralRequests
      /\ \A s \in generalSaves :
           Past(s.form.from) /\ (s.answer # NoAnswer => Past(s.answer))
  BY DEF FormsArePast
<1>2. \A s \in generalSaves : s.form \in GeneralForms /\ s.form.from \in Settings!Rows
  BY <1>1 DEF GeneralRequests, GeneralForms
<1>3. CASE UNCHANGED application
  <2>1. /\ appList' \in Settings!Rows /\ Past(appList') /\ appStore' \in Settings!Rows /\
             Past(appStore')
        /\ general' # None => general' \in GeneralForms /\ Past(general'.from)
        /\ \A s \in generalSaves' :
             s \in generalSaves \/ (general # None /\ s = [form |-> general, answer |-> NoAnswer])
    <3>1. CASE UNCHANGED Settings!vars \/ Settings!FetchApplications \/ Settings!EnterApplication
      BY <1>1, <3>1 DEF Settings!vars, Settings!FetchApplications, Settings!EnterApplication, Past
    <3>2. CASE Settings!OpenSettings
      <4>. DEFINE g == [name |-> appStore.name, url |-> appStore.url, from |-> appStore]
      <4>1. g \in GeneralForms /\ g.from = appStore
        BY <1>1 DEF GeneralForms, Settings!Rows
      <4>. HIDE DEF g
      <4>2. general' = g /\ UNCHANGED <<appList, appStore, generalSaves>>
        BY <3>2 DEF Settings!OpenSettings, g
      <4>. QED
        BY <1>1, <4>1, <4>2
    <3>3. CASE Settings!EditGeneral
      BY <1>1, <3>3 DEF Settings!EditGeneral, GeneralForms
    <3>4. CASE Settings!SaveGeneral
      BY <1>1, <3>4 DEF Settings!SaveGeneral
    <3>5. ASSUME NEW s \in generalSaves, Settings!SavedGeneral(s) \/ Settings!SaveRefused(s)
          PROVE  <2>1!:
      <4>1. s.answer # NoAnswer => s.answer \in Settings!Rows /\ Past(s.answer)
        BY <1>1 DEF GeneralRequests
      <4>. QED
        BY <1>1, <3>5, <4>1 DEF Settings!SavedGeneral, Settings!SaveRefused
    <3>6. ASSUME NEW s \in generalSaves, Settings!ServeGeneral(s) PROVE FALSE
      <4>1. s.form.name \in Names /\ s.form.url \in Urls
        BY <1>2 DEF GeneralForms
      <4>2. application'.version = application.version + 1
        BY <1>1, <3>6, <4>1, RowWritten DEF Settings!ServeGeneral
      <4>3. application.version \in Nat
        BY <1>1 DEF Settings!Rows
      <4>. QED
        BY <1>3, <4>2, <4>3
    <3>7. CASE Settings!SaveElsewhere
      BY <1>1, <1>3, <3>7, RowWritten DEF Settings!SaveElsewhere, Settings!Rows
    <3>. QED
      BY <3>1, <3>2, <3>3, <3>4, <3>5, <3>6, <3>7 DEF Settings!Next
  <2>2. \A s \in generalSaves' :
          /\ s \in GeneralRequests /\ Past(s.form.from)
          /\ s.answer # NoAnswer => Past(s.answer)
    BY <1>1, <2>1 DEF GeneralRequests
  <2>. QED
    BY <1>1, <1>3, <2>1, <2>2 DEF FormsArePast, Past
<1>4. CASE application' # application
  <2>1. Settings!SaveElsewhere \/ \E s \in generalSaves : Settings!ServeGeneral(s)
    BY <1>4 DEF Settings!Next, Settings!vars, Settings!FetchApplications,
       Settings!EnterApplication, Settings!OpenSettings, Settings!EditGeneral,
      Settings!SaveGeneral, Settings!SavedGeneral, Settings!SaveRefused
  <2>2. /\ application' \in Settings!Rows /\ application'.version = application.version + 1
        /\ UNCHANGED <<appList, appStore, general>>
    <3>1. CASE Settings!SaveElsewhere
      BY <1>1, <3>1, RowWritten DEF Settings!SaveElsewhere
    <3>2. ASSUME NEW s \in generalSaves, Settings!ServeGeneral(s) PROVE <2>2!:
      <4>1. s.form.name \in Names /\ s.form.url \in Urls
        BY <1>2 DEF GeneralForms
      <4>. QED
        BY <1>1, <3>2, <4>1, RowWritten DEF Settings!ServeGeneral
    <3>. QED
      BY <2>1, <3>1, <3>2
  <2>3. \A row \in Settings!Rows : Past(row) => row.version < application'.version
    BY <1>1, <2>2, StaysPast
  <2>4. /\ generalSaves' \subseteq GeneralRequests
        /\ \A s \in generalSaves' :
             /\ s.form.from \in Settings!Rows /\ s.form.from.version < application'.version
             /\ s.answer # NoAnswer => s.answer \in Settings!Rows /\
                  (s.answer.version < application'.version \/ s.answer = application')
    <3>1. \A s \in generalSaves :
            /\ s \in GeneralRequests
            /\ s.form.from \in Settings!Rows /\ s.form.from.version < application'.version
            /\ s.answer # NoAnswer => s.answer \in Settings!Rows /\
                 s.answer.version < application'.version
      BY <1>1, <1>2, <2>3 DEF GeneralRequests
    <3>2. CASE Settings!SaveElsewhere
      BY <3>1, <3>2 DEF Settings!SaveElsewhere
    <3>3. ASSUME NEW s \in generalSaves, Settings!ServeGeneral(s) PROVE <2>4!:
      <4>. DEFINE t == [s EXCEPT !.answer = application']
      <4>1. t \in GeneralRequests /\ t.form = s.form /\ t.answer = application'
        BY <2>2, <3>1 DEF GeneralRequests
      <4>. HIDE DEF t
      <4>2. generalSaves' = (generalSaves \ {s}) \cup {t}
        BY <3>3 DEF Settings!ServeGeneral, t
      <4>. QED
        BY <2>2, <3>1, <4>1, <4>2
    <3>. QED
      BY <2>1, <3>2, <3>3
  <2>5. FormsArePast'
    <3>1. general # None => general.from \in Settings!Rows
      BY <1>1 DEF GeneralForms
    <3>. QED
      BY <1>1, <2>2, <2>3, <2>4, <3>1 DEF FormsArePast, Past
  <2>6. ASSUME NEW s \in generalSaves \ generalSaves',
               s.form.from.version = application.version
        PROVE  /\ s.form.name = s.form.from.name => application'.name = application.name
               /\ s.form.url = s.form.from.url => application'.url = application.url
    <3>1. s.form.from = application
      BY <1>1, <1>2, <2>6 DEF Past, Settings!Rows
    <3>2. PICK t \in generalSaves : Settings!ServeGeneral(t)
      BY <2>1, <2>6 DEF Settings!SaveElsewhere
    <3>3. s = t
      BY <3>2 DEF Settings!ServeGeneral
    <3>4. s.form.name \in Names /\ s.form.url \in Urls
      BY <1>2 DEF GeneralForms
    <3>5. application'.name = s.form.name /\ application'.url = s.form.url
      BY <1>1, <3>2, <3>3, <3>4, RowWritten DEF Settings!ServeGeneral
    <3>. QED
      BY <3>1, <3>5
  <2>. QED
    BY <2>5, <2>6
<1>. QED
  BY <1>3, <1>4

-----------------------------------------------------------------------------
(* Keys of an application: ConsoleCredentials.                             *)

\* The instance's copies of the library's operators are the library's.
LEMMA SameMax ==
  \A S : Credentials!Max(S) = Max(S)
BY Zenon DEF Credentials!Max, Max

\* The keys are numbered without a gap, and the last one is the active one.
LastIsActive == \E n \in Credentials!Versions : Credentials!Issued = 1..n /\
  Credentials!ActiveKeys = {n}

\* A rotation has found the first keys, as many as there were.
FindsAPrefix ==
  \A r \in rotations : r.found # {} =>
    \E m \in Credentials!Versions : r.found = 1..m /\ r.found \subseteq Credentials!Issued

KeysInv == Credentials!TypeOK /\ LastIsActive /\ FindsAPrefix

\* A rotation that meets no other finds every row, and answers with the key that is active.
Alone ==
  ~crowded =>
    \/ rotations = {} /\ (secret = None \/ secret \in Credentials!ActiveKeys)
    \/ \E r \in rotations :
         /\ rotations = {r} /\ r.page
         /\ IF r.answer = None
            THEN /\ r.found \in {{}, Credentials!Issued}
                 /\ secret = None \/ secret \in Credentials!ActiveKeys
            ELSE r.answer \in Credentials!ActiveKeys

-----------------------------------------------------------------------------
\* The newest of the first keys.
LEMMA LastOfPrefix ==
  ASSUME NEW n \in Nat \ {0}
  PROVE  Credentials!Max(1..n) = n
<1>1. n \in 1..n /\ \A x \in 1..n : n >= x
  OBVIOUS
<1>2. \A x \in 1..n : (\A y \in 1..n : x >= y) => x = n
  BY <1>1
<1>. QED
  BY <1>1, <1>2, SameMax DEF Max

LEMMA InitCredentials ==
  ASSUME Credentials!ConstantsAssumption, Credentials!Init
  PROVE  KeysInv
<1>1. 1 \in Credentials!Versions /\ Credentials!Versions \subseteq Nat
  BY DEF Credentials!Versions, Credentials!ConstantsAssumption
<1>2. Credentials!Issued = {1} /\ Credentials!ActiveKeys = {1}
  BY <1>1 DEF Credentials!Init, Credentials!Issued, Credentials!ActiveKeys
<1>3. LastIsActive
  BY <1>1, <1>2 DEF LastIsActive
<1>4. credential \in [Credentials!Versions -> Credentials!Statuses] /\ 0 \in 0..MaxKey
  BY DEF Credentials!Init, Credentials!Statuses, Credentials!ConstantsAssumption
<1>. QED
  BY <1>3, <1>4 DEF Credentials!Init, KeysInv, Credentials!TypeOK, FindsAPrefix

\* What leaves the rows alone and adds no rotation that has found any.
LEMMA RowsUntouched ==
  ASSUME KeysInv, UNCHANGED credential,
         \A r \in rotations' :
           r.found = {} \/ \E q \in rotations : r.found = q.found \/ r.found = Credentials!Issued
  PROVE  LastIsActive' /\ FindsAPrefix'
<1>1. Credentials!Issued' = Credentials!Issued /\ Credentials!ActiveKeys' = Credentials!ActiveKeys
  BY DEF Credentials!Issued, Credentials!ActiveKeys
<1>2. LastIsActive'
  BY <1>1 DEF KeysInv, LastIsActive
<1>3. FindsAPrefix'
  BY <1>1 DEF KeysInv, LastIsActive, FindsAPrefix
<1>. QED
  BY <1>2, <1>3

LEMMA RotateKeeps ==
  ASSUME Credentials!ConstantsAssumption, KeysInv, NEW page \in BOOLEAN, Credentials!Rotate(page)
  PROVE  KeysInv'
<1>. DEFINE r == [id |-> rotated + 1, page |-> page, found |-> {}, answer |-> None]
<1>1. /\ rotated + 1 < MaxKey /\ rotated' = rotated + 1
      /\ rotations' = rotations \cup {r} /\ UNCHANGED <<credential, secret>>
      /\ rotated \in 0..MaxKey /\ crowded' \in BOOLEAN
  BY DEF Credentials!Rotate, KeysInv, Credentials!TypeOK
<1>2. r \in Credentials!Rotations /\ rotated' \in 0..MaxKey
  BY <1>1 DEF Credentials!Rotations, Credentials!Versions, Credentials!ConstantsAssumption
<1>3. Credentials!TypeOK'
  BY <1>1, <1>2 DEF KeysInv, Credentials!TypeOK
<1>4. LastIsActive' /\ FindsAPrefix'
  BY <1>1, RowsUntouched
<1>. QED
  BY <1>3, <1>4 DEF KeysInv

LEMMA FindKeeps ==
  ASSUME Credentials!ConstantsAssumption, KeysInv, NEW r \in rotations, Credentials!Find(r)
  PROVE  KeysInv'
<1>1. /\ rotations' = (rotations \ {r}) \cup {[r EXCEPT !.found = Credentials!Issued]}
      /\ UNCHANGED <<credential, rotated, secret, crowded>>
      /\ r \in Credentials!Rotations /\ Credentials!Issued \subseteq Credentials!Versions
  BY DEF Credentials!Find, Credentials!Step, KeysInv, Credentials!TypeOK, Credentials!Issued
<1>2. [r EXCEPT !.found = Credentials!Issued] \in Credentials!Rotations /\
        [r EXCEPT !.found = Credentials!Issued].found = Credentials!Issued
  BY <1>1 DEF Credentials!Rotations
<1>3. Credentials!TypeOK'
  BY <1>1, <1>2 DEF KeysInv, Credentials!TypeOK
<1>4. LastIsActive' /\ FindsAPrefix'
  BY <1>1, <1>2, RowsUntouched
<1>. QED
  BY <1>3, <1>4 DEF KeysInv

\* A rotation adds the key after the last one it found: where that is taken it is refused, and
\* where it is free the last one found is the active one, and is replaced.
LEMMA ReplaceKeeps ==
  ASSUME Credentials!ConstantsAssumption, KeysInv, NEW r \in rotations, Credentials!Replace(r)
  PROVE  KeysInv'
<1>. DEFINE v == Credentials!Max(r.found) + 1
<1>1. PICK m \in Credentials!Versions : r.found = 1..m /\ r.found \subseteq Credentials!Issued
  BY DEF Credentials!Replace, KeysInv, FindsAPrefix
<1>2. PICK n \in Credentials!Versions : Credentials!Issued = 1..n /\ Credentials!ActiveKeys = {n}
  BY DEF KeysInv, LastIsActive
<1>3. v = m + 1 /\ v \in Credentials!Versions /\ m \in Nat \ {0} /\ n \in Nat \ {0}
  BY <1>1, <1>2, LastOfPrefix DEF Credentials!Replace, Credentials!Versions
<1>. HIDE DEF v
<1>4. CASE Credentials!Conflict(v)
  <2>1. /\ rotations' = (rotations \ {r}) \cup {[r EXCEPT !.answer = Credentials!Failed]}
        /\ UNCHANGED <<credential, rotated, secret, crowded>>
        /\ r \in Credentials!Rotations
    BY <1>4 DEF Credentials!Replace, Credentials!Step, KeysInv, Credentials!TypeOK, v
  <2>2. [r EXCEPT !.answer = Credentials!Failed] \in Credentials!Rotations /\
          [r EXCEPT !.answer = Credentials!Failed].found = r.found
    BY <2>1 DEF Credentials!Rotations
  <2>3. Credentials!TypeOK'
    BY <2>1, <2>2 DEF KeysInv, Credentials!TypeOK
  <2>4. LastIsActive' /\ FindsAPrefix'
    BY <2>1, <2>2, RowsUntouched
  <2>. QED
    BY <2>3, <2>4 DEF KeysInv
<1>5. CASE ~Credentials!Conflict(v)
  <2>1. PICK old \in {"grace", "revoked"} :
          credential' = [k \in Credentials!Versions |->
            IF k = v THEN "active"
            ELSE IF k \in r.found /\ credential[k] = "active" THEN old
            ELSE credential[k]]
    BY <1>5 DEF Credentials!Replace, v
  <2>2. /\ rotations' = (rotations \ {r}) \cup {[r EXCEPT !.answer = v]}
        /\ UNCHANGED <<rotated, secret, crowded>>
        /\ r \in Credentials!Rotations
        /\ credential \in [Credentials!Versions -> Credentials!Statuses]
    BY <1>5 DEF Credentials!Replace, Credentials!Step, KeysInv, Credentials!TypeOK, v
  <2>3. v \notin Credentials!Issued
    BY <1>3, <1>5 DEF Credentials!Conflict, Credentials!Issued
  <2>4. m = n
    BY <1>1, <1>2, <1>3, <2>3
  <2>5. \A k \in Credentials!Versions :
          /\ k \in Credentials!Issued' <=> k = v \/ k \in Credentials!Issued
          /\ k \in Credentials!ActiveKeys' <=> k = v
    <3>. SUFFICES ASSUME NEW k \in Credentials!Versions
                  PROVE  /\ k \in Credentials!Issued' <=> k = v \/ k \in Credentials!Issued
                         /\ k \in Credentials!ActiveKeys' <=> k = v
      OBVIOUS
    <3>1. credential[k] = "active" => k \in r.found
      BY <1>1, <1>2, <1>3, <2>4 DEF Credentials!ActiveKeys
    <3>. QED
      BY <2>1, <3>1 DEF Credentials!Issued, Credentials!ActiveKeys
  <2>6. Credentials!Issued' = 1..v /\ Credentials!ActiveKeys' = {v}
    <3>1. Credentials!Issued' \subseteq Credentials!Versions /\
            Credentials!ActiveKeys' \subseteq Credentials!Versions /\
            1..v \subseteq Credentials!Versions
      BY <1>3 DEF Credentials!Issued, Credentials!ActiveKeys, Credentials!Versions,
         Credentials!ConstantsAssumption
    <3>2. \A k \in Credentials!Versions : k \in 1..v <=> k = v \/ k \in 1..n
      BY <1>3, <2>4 DEF Credentials!Versions
    <3>. QED
      BY <1>2, <1>3, <2>5, <3>1, <3>2
  <2>7. LastIsActive'
    BY <1>3, <2>6 DEF LastIsActive
  <2>8. [r EXCEPT !.answer = v] \in Credentials!Rotations /\ [r EXCEPT !.answer = v].found = r.found
    BY <1>3, <2>2 DEF Credentials!Rotations
  <2>9. Credentials!TypeOK'
    <3>1. credential' \in [Credentials!Versions -> Credentials!Statuses]
      BY <2>1, <2>2 DEF Credentials!Statuses
    <3>. QED
      BY <2>2, <2>8, <3>1 DEF KeysInv, Credentials!TypeOK
  <2>10. Credentials!Issued \subseteq Credentials!Issued'
    BY <2>5 DEF Credentials!Issued
  <2>11. FindsAPrefix'
    <3>. SUFFICES ASSUME NEW q \in rotations', q.found # {}
                  PROVE  \E i \in Credentials!Versions : q.found = 1..i /\
                           q.found \subseteq Credentials!Issued'
      BY DEF FindsAPrefix
    <3>1. \E p \in rotations : q.found = p.found
      BY <2>2, <2>8
    <3>. QED
      BY <2>10, <3>1 DEF KeysInv, FindsAPrefix
  <2>. QED
    BY <2>7, <2>9, <2>11 DEF KeysInv
<1>. QED
  BY <1>4, <1>5

LEMMA ShowKeeps ==
  ASSUME KeysInv, NEW r \in rotations, Credentials!Show(r)
  PROVE  KeysInv'
<1>1. /\ rotations' = rotations \ {r} /\ UNCHANGED <<credential, rotated, crowded>>
      /\ r.answer \in Credentials!Versions \cup {None, Credentials!Failed} /\ r.answer # None
      /\ secret' = IF r.page /\ r.answer # Credentials!Failed THEN r.answer ELSE secret
  BY DEF Credentials!Show, KeysInv, Credentials!TypeOK, Credentials!Rotations
<1>2. Credentials!TypeOK'
  BY <1>1 DEF KeysInv, Credentials!TypeOK
<1>3. LastIsActive' /\ FindsAPrefix'
  BY <1>1, RowsUntouched
<1>. QED
  BY <1>2, <1>3 DEF KeysInv

\* A grace period ends for keys that are no longer active.
LEMMA GraceEndsKeeps ==
  ASSUME KeysInv, NEW v \in Credentials!Versions, Credentials!GraceEnds(v)
  PROVE  KeysInv'
<1>1. /\ credential[v] = "grace" /\ credential' = [credential EXCEPT ![v] = "ended"]
      /\ UNCHANGED <<rotations, rotated, secret, crowded>>
      /\ credential \in [Credentials!Versions -> Credentials!Statuses]
  BY DEF Credentials!GraceEnds, KeysInv, Credentials!TypeOK
<1>2. Credentials!Issued' = Credentials!Issued /\ Credentials!ActiveKeys' = Credentials!ActiveKeys
  BY <1>1 DEF Credentials!Issued, Credentials!ActiveKeys
<1>3. Credentials!TypeOK'
  BY <1>1 DEF KeysInv, Credentials!TypeOK, Credentials!Statuses
<1>4. LastIsActive' /\ FindsAPrefix'
  BY <1>1, <1>2 DEF KeysInv, LastIsActive, FindsAPrefix
<1>. QED
  BY <1>3, <1>4 DEF KeysInv

LEMMA InitKeys ==
  ASSUME Credentials!ConstantsAssumption, Credentials!Init
  PROVE  KeysInv /\ Alone
BY InitCredentials DEF Credentials!Init, Alone, Credentials!ConstantsAssumption

LEMMA KeysStep ==
  ASSUME Credentials!ConstantsAssumption, KeysInv, [Credentials!Next]_Credentials!vars
  PROVE  KeysInv'
<1>1. ASSUME UNCHANGED Credentials!vars PROVE KeysInv'
  <2>1. Credentials!TypeOK'
    BY <1>1 DEF Credentials!vars, KeysInv, Credentials!TypeOK
  <2>2. LastIsActive' /\ FindsAPrefix'
    BY <1>1, RowsUntouched DEF Credentials!vars
  <2>. QED
    BY <2>1, <2>2 DEF KeysInv
<1>. QED
  BY <1>1, RotateKeeps, FindKeeps, ReplaceKeeps, ShowKeeps, GraceEndsKeeps DEF Credentials!Next

LEMMA AloneStep ==
  ASSUME Credentials!ConstantsAssumption, KeysInv, Alone, [Credentials!Next]_Credentials!vars
  PROVE  Alone'
<1>. SUFFICES ASSUME ~crowded' PROVE Alone'
  BY DEF Alone
<1>1. ~crowded /\ Credentials!TypeOK
  BY DEF Credentials!Next, Credentials!Rotate, Credentials!Find, Credentials!Replace,
     Credentials!Show, Credentials!GraceEnds, Credentials!vars, KeysInv, Credentials!TypeOK
<1>2. CASE UNCHANGED Credentials!vars
  BY <1>1, <1>2 DEF Alone, Credentials!vars, Credentials!ActiveKeys, Credentials!Issued
<1>3. ASSUME NEW page \in BOOLEAN, Credentials!Rotate(page) PROVE Alone'
  <2>. DEFINE r == [id |-> rotated + 1, page |-> page, found |-> {}, answer |-> None]
  <2>1. rotations = {} /\ page /\ rotations' = {r} /\ UNCHANGED <<credential, secret>>
    BY <1>1, <1>3 DEF Credentials!Rotate
  <2>2. r.page = page /\ r.answer = None /\ r.found = {}
    OBVIOUS
  <2>. HIDE DEF r
  <2>3. secret = None \/ secret \in Credentials!ActiveKeys
    BY <1>1, <2>1 DEF Alone
  <2>. QED
    BY <2>1, <2>2, <2>3 DEF Alone, Credentials!ActiveKeys
<1>4. ASSUME NEW v \in Credentials!Versions, Credentials!GraceEnds(v) PROVE Alone'
  <2>1. Credentials!Issued' = Credentials!Issued /\
          Credentials!ActiveKeys' = Credentials!ActiveKeys /\ UNCHANGED <<rotations, secret>>
    BY <1>1, <1>4 DEF Credentials!GraceEnds, Credentials!Issued, Credentials!ActiveKeys,
       Credentials!TypeOK
  <2>. QED
    BY <1>1, <2>1 DEF Alone
<1>5. ASSUME NEW r \in rotations PROVE
        /\ rotations = {r} /\ r.page /\ r \in Credentials!Rotations
        /\ IF r.answer = None
           THEN /\ r.found \in {{}, Credentials!Issued}
                /\ secret = None \/ secret \in Credentials!ActiveKeys
           ELSE r.answer \in Credentials!ActiveKeys
  BY <1>1 DEF Alone, Credentials!TypeOK
<1>6. ASSUME NEW r \in rotations, Credentials!Find(r) PROVE Alone'
  <2>. DEFINE s == [r EXCEPT !.found = Credentials!Issued]
  <2>1. s.page = r.page /\ s.answer = r.answer /\ s.found = Credentials!Issued
    BY <1>5 DEF Credentials!Rotations
  <2>2. rotations' = (rotations \ {r}) \cup {s} /\ UNCHANGED <<credential, secret>>
    BY <1>6 DEF Credentials!Find, Credentials!Step
  <2>3. rotations' = {s} /\ Credentials!Issued' = Credentials!Issued /\
          Credentials!ActiveKeys' = Credentials!ActiveKeys
    BY <1>5, <2>2 DEF Credentials!Issued, Credentials!ActiveKeys
  <2>. HIDE DEF s
  <2>. QED
    BY <1>5, <2>1, <2>2, <2>3 DEF Alone
<1>7. ASSUME NEW r \in rotations, Credentials!Replace(r) PROVE Alone'
  <2>. DEFINE v == Credentials!Max(r.found) + 1
              s == [r EXCEPT !.answer = v]
  <2>1. r.found = Credentials!Issued /\ r.answer = None
    BY <1>5, <1>7 DEF Credentials!Replace
  <2>2. PICK n \in Credentials!Versions : Credentials!Issued = 1..n
    BY DEF KeysInv, LastIsActive
  <2>3. n \in Nat \ {0} /\ v = n + 1 /\ v \in Credentials!Versions
    BY <1>7, <2>1, <2>2, LastOfPrefix DEF Credentials!Replace, Credentials!Versions
  <2>4. ~Credentials!Conflict(v)
    BY <2>2, <2>3 DEF Credentials!Conflict, Credentials!Issued
  <2>5. /\ \E old \in {"grace", "revoked"} :
              credential' = [k \in Credentials!Versions |->
                IF k = v THEN "active"
                ELSE IF k \in r.found /\ credential[k] = "active" THEN old
                ELSE credential[k]]
        /\ rotations' = (rotations \ {r}) \cup {s}
    BY <1>7, <2>4 DEF Credentials!Replace, Credentials!Step
  <2>6. s.page = r.page /\ s.answer = v
    BY <1>5 DEF Credentials!Rotations
  <2>. HIDE DEF v, s
  <2>7. v \in Credentials!ActiveKeys' /\ v # None
    BY <2>3, <2>5 DEF Credentials!ActiveKeys, Credentials!ConstantsAssumption
  <2>8. rotations' = {s}
    BY <1>5, <2>5
  <2>. QED
    BY <1>5, <2>6, <2>7, <2>8 DEF Alone
<1>8. ASSUME NEW r \in rotations, Credentials!Show(r) PROVE Alone'
  <2>1. r.answer \in Credentials!ActiveKeys /\ rotations' = {} /\
          Credentials!ActiveKeys' = Credentials!ActiveKeys
    BY <1>5, <1>8 DEF Credentials!Show, Credentials!ActiveKeys
  <2>2. r.answer # Credentials!Failed
    BY <2>1 DEF Credentials!ActiveKeys, Credentials!Versions, Credentials!Failed
  <2>. QED
    BY <1>5, <1>8, <2>1, <2>2 DEF Credentials!Show, Alone
<1>. QED
  BY <1>2, <1>3, <1>4, <1>6, <1>7, <1>8 DEF Credentials!Next

LEMMA KeysSafe ==
  ASSUME Credentials!ConstantsAssumption, KeysInv, Alone
  PROVE  Credentials!CredentialsHold
<1>1. Credentials!OneActiveKey
  BY LastOfPrefix DEF KeysInv, LastIsActive, Credentials!OneActiveKey, Credentials!Versions
<1>2. Credentials!SecretIsActive
  BY DEF Alone, Credentials!SecretIsActive
<1>. QED
  BY <1>1, <1>2 DEF Credentials!CredentialsHold

-----------------------------------------------------------------------------
(* All of them, whichever side moves.                                      *)

RowsInv ==
  /\ PlansInv /\ CouponsInv /\ TermsInv /\ StorefrontInv /\ FormsArePast
  /\ KeysInv /\ Alone

\* Each side takes a step of its own, or none.
LEMMA EachMoves ==
  ASSUME [ClientsNext]_clientsVars
  PROVE  /\ [PlanEditor!Next]_PlanEditor!vars
         /\ [CouponEditor!Next]_CouponEditor!vars
         /\ [TermEditor!Next]_TermEditor!vars
         /\ [Storefront!Next]_Storefront!vars
         /\ [Settings!Next]_Settings!vars
         /\ [Credentials!Next]_Credentials!vars
<1>1. CASE UNCHANGED clientsVars
  BY <1>1 DEF clientsVars, plansVars, couponPageVars, termsVars,
    storefrontVars, settingsVars, credentialsVars, PlanEditor!vars, CouponEditor!vars,
    TermEditor!vars, Storefront!vars, Settings!vars, Credentials!vars
<1>2. CASE ClientsNext
  <2>1. [PlanEditor!Next]_PlanEditor!vars /\ [CouponEditor!Next]_CouponEditor!vars
    BY <1>2 DEF ClientsNext, Moves, plansVars, couponPageVars, PlanEditor!vars, CouponEditor!vars
  <2>2. [TermEditor!Next]_TermEditor!vars /\ [Storefront!Next]_Storefront!vars
    BY <1>2 DEF ClientsNext, Moves, termsVars, storefrontVars, TermEditor!vars, Storefront!vars
  <2>3. [Settings!Next]_Settings!vars /\ [Credentials!Next]_Credentials!vars
    BY <1>2 DEF ClientsNext, Moves, settingsVars, credentialsVars, Settings!vars, Credentials!vars
  <2>. QED
    BY <2>1, <2>2, <2>3
<1>. QED
  BY <1>1, <1>2

LEMMA RowsStart == ClientsInit => RowsInv
<1>. USE ClientsAssumption
<1>1. ClientsInit => PlansInv /\ CouponsInv /\ TermsInv /\ StorefrontInv /\ FormsArePast
  BY InitPlans, InitCoupons, InitTerms, InitStorefront, InitSettings DEF ClientsInit
<1>2. ClientsInit => KeysInv /\ Alone
  BY InitKeys DEF ClientsInit
<1>. QED
  BY <1>1, <1>2 DEF RowsInv

LEMMA RowsStep == RowsInv /\ [ClientsNext]_clientsVars => RowsInv'
<1>. USE ClientsAssumption
<1>. SUFFICES ASSUME RowsInv, [ClientsNext]_clientsVars PROVE RowsInv'
  OBVIOUS
<1>1. PlansInv' /\ CouponsInv' /\ TermsInv'
  BY EachMoves, PlansStep, CouponsStep, TermsStep DEF RowsInv
<1>2. StorefrontInv' /\ FormsArePast' /\ KeysInv' /\ Alone'
  BY EachMoves, StorefrontStep, SettingsStep, KeysStep, AloneStep DEF RowsInv
<1>. QED
  BY <1>1, <1>2 DEF RowsInv

\* What the server keeps while pages and other owners write: a version identifies its plan and
\* its coupon, coupons are granted as shown, the customer has one current term, no retired plan
\* is on offer, and one key is active (RowsHold).
THEOREM RowsAreKept == ClientsSpec => []RowsHold
<1>1. RowsInv => RowsHold
  <2>. USE ClientsAssumption
  <2>. SUFFICES ASSUME RowsInv PROVE RowsHold
    OBVIOUS
  <2>1. PlanEditor!VersionsIdentify /\ CouponEditor!CouponsHold /\ TermEditor!OneManualTerm
    BY PlansSafe, CouponsSafe, TermsSafe DEF RowsInv
  <2>2. Storefront!RetiredPlansAreGone /\ Credentials!CredentialsHold
    BY KeysSafe DEF RowsInv, StorefrontInv
  <2>. QED
    BY <2>1, <2>2 DEF RowsHold, Of
<1>. QED
  BY RowsStart, RowsStep, <1>1, PTL DEF ClientsSpec

\* What a step may not do: save over a plan that was not seen, change an
\* archived plan or delete one in use, act on a term that is not the one seen, undo what another
\* wrote from a present form, show a plan that was hidden (StepsHold).
THEOREM StepsAreKept == ClientsSpec => StepsHold
<1>. USE ClientsAssumption
<1>1. RowsInv /\ [ClientsNext]_clientsVars =>
        /\ [PlanEditor!Update /\ plan' # plan => saving.form.base = plan]_PlanEditor!vars
        /\ [plan # None /\ plan' # plan =>
              /\ plan'.status = "deleted" => ~inUse
              /\ plan.status # "open" =>
                   plan' = [plan EXCEPT !.status = "deleted"]]_PlanEditor!vars
  BY EachMoves, SavesAreSeen, HistoryStep DEF RowsInv
<1>2. RowsInv /\ [ClientsNext]_clientsVars =>
        [\A c \in changes \ changes' :
           terms' # terms => [terms[c.term] EXCEPT !.over = c.seen.over] = c.seen]_TermEditor!vars
  BY EachMoves, TermsStep DEF RowsInv
<1>3. RowsInv /\ [ClientsNext]_clientsVars =>
        [\A s \in generalSaves \ generalSaves' :
           s.form.from.version = application.version /\ application' # application =>
             /\ s.form.name = s.form.from.name => application'.name = application.name
             /\ s.form.url = s.form.from.url => application'.url = application.url]_Settings!vars
  BY EachMoves, SettingsStep DEF RowsInv
<1>4. RowsInv /\ [ClientsNext]_clientsVars =>
        [publishing \ publishing' # {} /\ design' # design /\ ~blind' =>
           design.hidden \cap design'.visible \subseteq crossed]_Storefront!vars
  BY EachMoves, StorefrontStep DEF RowsInv
<1>. QED
  BY RowsStart, RowsStep, <1>1, <1>2, <1>3, <1>4, PTL
     DEF ClientsSpec, StepsHold, PlanEditor!NothingSavedUnseen, PlanEditor!HistoryStays,
         TermEditor!DoneAsSeen, Settings!UndoneOnlyByOldForms, Storefront!HiddenStaysHidden
=============================================================================
