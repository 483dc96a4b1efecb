-------------------------------- MODULE Sums --------------------------------
(***************************************************************************)
(* Lemmas about the sums of events: what MapThenSumSet of the community     *)
(* modules makes of the `delta` of each member of a finite set.  The        *)
(* library's induction theorems cannot be instantiated with a predicate     *)
(* here; that a set of bad subsets has a smallest member can.               *)
(***************************************************************************)
EXTENDS Integers, FiniteSetsExt, FiniteSetTheorems, WellFoundedInduction, TLAPS

\* The element a sum takes first.
Pick(s) == CHOOSE x \in s : TRUE

\* What the events of a set of keys add up to.
Total(ev, S) == MapThenSumSet(LAMBDA k : ev[k].delta, S)

\* The equation of the function MapThenFoldSet defines.
Fold(g, ev, S) ==
  [s \in SUBSET S |-> IF s = {} THEN 0 ELSE ev[Pick(s)].delta + g[s \ {Pick(s)}]]

LEMMA PickIsIn == ASSUME NEW s, s # {} PROVE Pick(s) \in s
BY DEF Pick

\* Induction on finite sets, told of a set: if some subsets of a finite set are bad, one of
\* them is while all that are smaller are not.
LEMMA SmallestSubset ==
  ASSUME NEW S, IsFiniteSet(S), NEW Bad, Bad \subseteq SUBSET S, Bad # {}
  PROVE  \E T \in Bad : \A U \in SUBSET T : U # T => U \notin Bad
<1>1. IsWellFoundedOn(StrictSubsetOrdering(S), SUBSET S)
  BY FS_StrictSubsetOrderingWellFounded, FS_FiniteSubsetsOfFinite
<1>2. \E x \in Bad : \A y \in Bad : ~ (<<y, x>> \in StrictSubsetOrdering(S))
  BY <1>1, WFMin
<1>. QED
  BY <1>2 DEF StrictSubsetOrdering

\* Two functions that satisfy the equation agree where both are defined.
LEMMA FoldsAgree ==
  ASSUME NEW ev, NEW U, NEW V, V \subseteq U, IsFiniteSet(V),
         NEW g, g = Fold(g, ev, U), NEW h, h = Fold(h, ev, V)
  PROVE  \A W \in SUBSET V : g[W] = h[W]
<1>. DEFINE Bad == {W \in SUBSET V : g[W] # h[W]}
<1>. SUFFICES ASSUME Bad # {} PROVE FALSE
  OBVIOUS
<1>1. PICK W \in Bad : \A X \in SUBSET W : X # W => X \notin Bad
  <2>1. Bad \subseteq SUBSET V /\ Bad # {}
    OBVIOUS
  <2>. HIDE DEF Bad
  <2>. QED
    BY <2>1, SmallestSubset
<1>2. /\ g[W] = IF W = {} THEN 0 ELSE ev[Pick(W)].delta + g[W \ {Pick(W)}]
      /\ h[W] = IF W = {} THEN 0 ELSE ev[Pick(W)].delta + h[W \ {Pick(W)}]
  BY DEF Fold
<1>3. W # {}
  BY <1>2
<1>4. W \ {Pick(W)} \notin Bad
  BY <1>1, <1>3, PickIsIn
<1>. QED
  BY <1>2, <1>3, <1>4

\* There is such a function on every finite set.
LEMMA FoldExists ==
  ASSUME NEW ev, NEW S, IsFiniteSet(S)
  PROVE  \E g : g = Fold(g, ev, S)
<1>. DEFINE Bad == {T \in SUBSET S : ~ \E g : g = Fold(g, ev, T)}
<1>. SUFFICES ASSUME Bad # {} PROVE FALSE
  OBVIOUS
<1>1. PICK T \in Bad : \A U \in SUBSET T : U # T => U \notin Bad
  <2>1. Bad \subseteq SUBSET S /\ Bad # {}
    OBVIOUS
  <2>. HIDE DEF Bad
  <2>. QED
    BY <2>1, SmallestSubset
<1>. DEFINE part(U) == CHOOSE g : g = Fold(g, ev, U)
            whole == [s \in SUBSET T |->
                        IF s = {} THEN 0
                        ELSE ev[Pick(s)].delta + part(s \ {Pick(s)})[s \ {Pick(s)}]]
<1>2. \A U \in SUBSET T : U # T => part(U) = Fold(part(U), ev, U)
  BY <1>1
<1>3. ASSUME NEW U \in SUBSET T, U # T
      PROVE  whole[U] = part(U)[U]
  <2>1. part(U)[U] = IF U = {} THEN 0 ELSE ev[Pick(U)].delta + part(U)[U \ {Pick(U)}]
    <3>. DEFINE p == part(U)
    <3>1. p = Fold(p, ev, U)
      BY <1>2, <1>3
    <3>. HIDE DEF p
    <3>2. p[U] = IF U = {} THEN 0 ELSE ev[Pick(U)].delta + p[U \ {Pick(U)}]
      BY <3>1 DEF Fold
    <3>. QED
      BY <3>2 DEF p
  <2>2. CASE U = {}
    BY <2>1, <2>2
  <2>3. CASE U # {}
    <3>. DEFINE V == U \ {Pick(U)}
    <3>1. V \in SUBSET U /\ V \in SUBSET T /\ V # T
      BY <1>3, <2>3, PickIsIn
    <3>2. IsFiniteSet(V)
      BY <3>1, FS_Subset
    <3>3. part(V) = Fold(part(V), ev, V) /\ part(U) = Fold(part(U), ev, U)
      BY <1>2, <1>3, <3>1
    <3>. HIDE DEF part
    <3>4. part(U)[V] = part(V)[V]
      BY <3>1, <3>2, <3>3, FoldsAgree
    <3>. QED
      BY <2>1, <2>3, <3>4
  <2>. QED
    BY <2>2, <2>3
<1>4. whole = Fold(whole, ev, T)
  <2>1. ASSUME NEW s \in SUBSET T, s # {}
        PROVE  whole[s \ {Pick(s)}] = part(s \ {Pick(s)})[s \ {Pick(s)}]
    <3>1. s \ {Pick(s)} \in SUBSET T /\ s \ {Pick(s)} # T
      BY <2>1, PickIsIn
    <3>. QED
      BY <1>3, <3>1
  <2>. HIDE DEF part
  <2>2. whole = [s \in SUBSET T |-> IF s = {} THEN 0
                                    ELSE ev[Pick(s)].delta + whole[s \ {Pick(s)}]]
    BY <2>1
  <2>. QED
    BY <2>2 DEF Fold
<1>. QED
  BY <1>4

\* A sum is that function's value.
LEMMA TotalIsFold ==
  ASSUME NEW ev, NEW S, IsFiniteSet(S)
  PROVE  \E g : g = Fold(g, ev, S) /\ Total(ev, S) = g[S]
<1>. DEFINE it == CHOOSE g : g = Fold(g, ev, S)
<1>1. it = Fold(it, ev, S)
  BY FoldExists
<1>2. Total(ev, S) = it[S]
  BY Zenon DEF Total, MapThenSumSet, MapThenFoldSet, Fold, Pick
<1>. QED
  BY <1>1, <1>2

\* Nothing adds up to nothing, and something to its first element and the rest.
LEMMA TotalUnfolds ==
  ASSUME NEW ev, NEW S, IsFiniteSet(S)
  PROVE  Total(ev, S) = IF S = {} THEN 0
                        ELSE ev[Pick(S)].delta + Total(ev, S \ {Pick(S)})
<1>1. PICK g : g = Fold(g, ev, S) /\ Total(ev, S) = g[S]
  BY TotalIsFold
<1>2. g[S] = IF S = {} THEN 0 ELSE ev[Pick(S)].delta + g[S \ {Pick(S)}]
  BY <1>1 DEF Fold
<1>3. IsFiniteSet(S \ {Pick(S)})
  BY FS_Subset
<1>4. PICK h : h = Fold(h, ev, S \ {Pick(S)}) /\ Total(ev, S \ {Pick(S)}) = h[S \ {Pick(S)}]
  BY <1>3, TotalIsFold
<1>5. g[S \ {Pick(S)}] = h[S \ {Pick(S)}]
  BY <1>1, <1>3, <1>4, FoldsAgree
<1>. QED
  BY <1>1, <1>2, <1>4, <1>5

LEMMA TotalIsNat ==
  ASSUME NEW ev, NEW S, IsFiniteSet(S), \A k \in S : ev[k].delta \in Nat
  PROVE  Total(ev, S) \in Nat
<1>. DEFINE Bad == {T \in SUBSET S : Total(ev, T) \notin Nat}
<1>. SUFFICES ASSUME Bad # {} PROVE FALSE
  OBVIOUS
<1>1. PICK T \in Bad : \A U \in SUBSET T : U # T => U \notin Bad
  <2>1. Bad \subseteq SUBSET S /\ Bad # {}
    OBVIOUS
  <2>. HIDE DEF Bad
  <2>. QED
    BY <2>1, SmallestSubset
<1>2. Total(ev, T) = IF T = {} THEN 0 ELSE ev[Pick(T)].delta + Total(ev, T \ {Pick(T)})
  BY TotalUnfolds, FS_Subset
<1>3. T # {}
  BY <1>2
<1>4. T \ {Pick(T)} \notin Bad /\ Pick(T) \in S
  BY <1>1, <1>3, PickIsIn
<1>. QED
  BY <1>2, <1>3, <1>4

\* The order does not matter.
LEMMA TotalTakesOut ==
  ASSUME NEW ev, NEW S, IsFiniteSet(S), \A k \in S : ev[k].delta \in Nat, NEW x \in S
  PROVE  Total(ev, S) = ev[x].delta + Total(ev, S \ {x})
<1>. DEFINE Bad == {T \in SUBSET S :
                      \E y \in T : Total(ev, T) # ev[y].delta + Total(ev, T \ {y})}
<1>. SUFFICES ASSUME Bad # {} PROVE FALSE
  OBVIOUS
<1>1. PICK T \in Bad : \A U \in SUBSET T : U # T => U \notin Bad
  <2>1. Bad \subseteq SUBSET S /\ Bad # {}
    OBVIOUS
  <2>. HIDE DEF Bad
  <2>. QED
    BY <2>1, SmallestSubset
<1>2. PICK y \in T : Total(ev, T) # ev[y].delta + Total(ev, T \ {y})
  OBVIOUS
<1>. DEFINE p == Pick(T)
<1>3. Total(ev, T) = ev[p].delta + Total(ev, T \ {p}) /\ p \in T
  BY TotalUnfolds, FS_Subset, PickIsIn
<1>4. y # p
  BY <1>2, <1>3
<1>5. Total(ev, T \ {p}) = ev[y].delta + Total(ev, (T \ {p}) \ {y})
  <2>1. T \ {p} \notin Bad /\ y \in T \ {p}
    BY <1>1, <1>3, <1>4
  <2>. QED
    BY <2>1
<1>6. Total(ev, T \ {y}) = ev[p].delta + Total(ev, (T \ {y}) \ {p})
  <2>1. T \ {y} \notin Bad /\ p \in T \ {y}
    BY <1>1, <1>3, <1>4
  <2>. QED
    BY <2>1
<1>7. (T \ {p}) \ {y} = (T \ {y}) \ {p}
  OBVIOUS
<1>. DEFINE n == Total(ev, (T \ {y}) \ {p})
<1>8. ev[p].delta \in Nat /\ ev[y].delta \in Nat /\ n \in Nat
  BY <1>3, TotalIsNat, FS_Subset
<1>9. Total(ev, T \ {p}) = ev[y].delta + n /\ Total(ev, T \ {y}) = ev[p].delta + n
  BY <1>5, <1>6, <1>7
<1>. HIDE DEF p, n, Bad
<1>. QED
  BY <1>2, <1>3, <1>8, <1>9

\* Nor does anything but the amounts.
LEMMA TotalOfSameAmounts ==
  ASSUME NEW ev, NEW ew, NEW S, IsFiniteSet(S), \A k \in S : ev[k].delta = ew[k].delta
  PROVE  Total(ev, S) = Total(ew, S)
<1>. DEFINE Bad == {T \in SUBSET S : Total(ev, T) # Total(ew, T)}
<1>. SUFFICES ASSUME Bad # {} PROVE FALSE
  OBVIOUS
<1>1. PICK T \in Bad : \A U \in SUBSET T : U # T => U \notin Bad
  <2>1. Bad \subseteq SUBSET S /\ Bad # {}
    OBVIOUS
  <2>. HIDE DEF Bad
  <2>. QED
    BY <2>1, SmallestSubset
<1>2. /\ Total(ev, T) = IF T = {} THEN 0 ELSE ev[Pick(T)].delta + Total(ev, T \ {Pick(T)})
      /\ Total(ew, T) = IF T = {} THEN 0 ELSE ew[Pick(T)].delta + Total(ew, T \ {Pick(T)})
  BY TotalUnfolds, FS_Subset
<1>3. T # {}
  BY <1>2
<1>4. T \ {Pick(T)} \notin Bad /\ Pick(T) \in S
  BY <1>1, <1>3, PickIsIn
<1>. QED
  BY <1>2, <1>3, <1>4

\* More keys, no smaller sum.
LEMMA TotalGrows ==
  ASSUME NEW ev, NEW S, IsFiniteSet(S), \A k \in S : ev[k].delta \in Nat, NEW R \in SUBSET S
  PROVE  Total(ev, R) <= Total(ev, S)
<1>. DEFINE Bad == {T \in SUBSET S : R \subseteq T /\ ~ (Total(ev, R) <= Total(ev, T))}
<1>. SUFFICES ASSUME Bad # {} PROVE FALSE
  OBVIOUS
<1>1. PICK T \in Bad : \A U \in SUBSET T : U # T => U \notin Bad
  <2>1. Bad \subseteq SUBSET S /\ Bad # {}
    OBVIOUS
  <2>. HIDE DEF Bad
  <2>. QED
    BY <2>1, SmallestSubset
<1>2. Total(ev, R) \in Nat /\ Total(ev, T) \in Nat
  BY TotalIsNat, FS_Subset
<1>3. PICK x \in T : x \notin R
  BY <1>2
<1>4. T \ {x} \notin Bad
  BY <1>1
<1>5. Total(ev, T) = ev[x].delta + Total(ev, T \ {x}) /\ Total(ev, T \ {x}) \in Nat
  BY TotalTakesOut, TotalIsNat, FS_Subset
<1>. QED
  BY <1>2, <1>3, <1>4, <1>5

\* Nor do larger amounts make a smaller sum.
LEMMA TotalOfMore ==
  ASSUME NEW ev, NEW ew, NEW S, IsFiniteSet(S),
         \A k \in S : ev[k].delta \in Nat /\ ew[k].delta \in Nat /\ ev[k].delta <= ew[k].delta
  PROVE  Total(ev, S) <= Total(ew, S)
<1>. DEFINE Bad == {T \in SUBSET S : ~ (Total(ev, T) <= Total(ew, T))}
<1>. SUFFICES ASSUME Bad # {} PROVE FALSE
  OBVIOUS
<1>1. PICK T \in Bad : \A U \in SUBSET T : U # T => U \notin Bad
  <2>1. Bad \subseteq SUBSET S /\ Bad # {}
    OBVIOUS
  <2>. HIDE DEF Bad
  <2>. QED
    BY <2>1, SmallestSubset
<1>2. /\ Total(ev, T) = IF T = {} THEN 0 ELSE ev[Pick(T)].delta + Total(ev, T \ {Pick(T)})
      /\ Total(ew, T) = IF T = {} THEN 0 ELSE ew[Pick(T)].delta + Total(ew, T \ {Pick(T)})
  BY TotalUnfolds, FS_Subset
<1>3. T # {}
  BY <1>2
<1>4. T \ {Pick(T)} \notin Bad /\ Pick(T) \in S
  BY <1>1, <1>3, PickIsIn
<1>5. Total(ev, T \ {Pick(T)}) \in Nat /\ Total(ew, T \ {Pick(T)}) \in Nat
  BY TotalIsNat, FS_Subset
<1>6. Total(ev, T \ {Pick(T)}) <= Total(ew, T \ {Pick(T)})
  BY <1>1, <1>4
<1>. HIDE DEF Bad
<1>7. /\ ev[Pick(T)].delta \in Nat /\ ew[Pick(T)].delta \in Nat
      /\ ev[Pick(T)].delta <= ew[Pick(T)].delta
  BY <1>4
<1>8. Total(ev, T) <= Total(ew, T)
  BY <1>2, <1>3, <1>5, <1>6, <1>7
<1>. QED
  BY <1>1, <1>8 DEF Bad

\* The sum of the values of a function.
SumOf(f, S) == MapThenSumSet(LAMBDA k : f[k], S)

LEMMA SumIsTotal ==
  ASSUME NEW f, NEW S
  PROVE  SumOf(f, S) = Total([k \in S |-> [delta |-> f[k]]], S)
<1>. DEFINE ev == [k \in S |-> [delta |-> f[k]]]
            FoldOf(g) == [s \in SUBSET S |-> IF s = {} THEN 0 ELSE f[Pick(s)] + g[s \ {Pick(s)}]]
<1>1. \A g : FoldOf(g) = Fold(g, ev, S)
  <2>1. \A s \in SUBSET S : s # {} => f[Pick(s)] = ev[Pick(s)].delta
    BY PickIsIn
  <2>. HIDE DEF ev
  <2>. QED
    BY <2>1 DEF Fold
<1>2. (CHOOSE g : g = FoldOf(g)) = (CHOOSE g : g = Fold(g, ev, S))
  <2>. HIDE DEF FoldOf, ev
  <2>. QED
    BY <1>1, Zenon
<1>3. SumOf(f, S) = (CHOOSE g : g = FoldOf(g))[S]
  BY Zenon DEF SumOf, MapThenSumSet, MapThenFoldSet, Pick
<1>4. Total(ev, S) = (CHOOSE g : g = Fold(g, ev, S))[S]
  <2>. HIDE DEF ev
  <2>. QED
    BY Zenon DEF Total, MapThenSumSet, MapThenFoldSet, Fold, Pick
<1>. QED
  BY <1>2, <1>3, <1>4

LEMMA SumIsNat ==
  ASSUME NEW f, NEW S, IsFiniteSet(S), \A k \in S : f[k] \in Nat
  PROVE  SumOf(f, S) \in Nat
<1>. DEFINE ev == [k \in S |-> [delta |-> f[k]]]
<1>1. \A k \in S : ev[k].delta \in Nat
  OBVIOUS
<1>2. SumOf(f, S) = Total(ev, S)
  BY SumIsTotal
<1>. HIDE DEF ev
<1>. QED
  BY <1>1, <1>2, TotalIsNat

LEMMA SumOfMore ==
  ASSUME NEW f, NEW h, NEW S, IsFiniteSet(S),
         \A k \in S : f[k] \in Nat /\ h[k] \in Nat /\ f[k] <= h[k]
  PROVE  SumOf(f, S) <= SumOf(h, S)
<1>. DEFINE ev == [k \in S |-> [delta |-> f[k]]]
            ew == [k \in S |-> [delta |-> h[k]]]
<1>1. \A k \in S : ev[k].delta \in Nat /\ ew[k].delta \in Nat /\ ev[k].delta <= ew[k].delta
  OBVIOUS
<1>2. SumOf(f, S) = Total(ev, S) /\ SumOf(h, S) = Total(ew, S)
  BY SumIsTotal
<1>. HIDE DEF ev, ew
<1>. QED
  BY <1>1, <1>2, TotalOfMore
=============================================================================
