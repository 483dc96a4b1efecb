---------------------------- MODULE OfficeProofs ----------------------------
(***************************************************************************)
(* Proofs about Office: which transactions can wait for each other in a     *)
(* circle (LockOrder), for any number of them, of subscribers, checkouts,   *)
(* coupons and plans; one announcement of each notice and none of a         *)
(* cancelled one, balances and references of partners, for any number of    *)
(* notices, clerks, partners and requests.                                  *)
(***************************************************************************)
EXTENDS Office, FiniteSetTheorems, SequenceTheorems, WellFoundedInduction, TLAPS

(* What every handler keeps to.                                            *)

Ids == Subscribers \union Checkouts \union Coupons \union Plans \union {"config"}

Lock ==
  [class : {"subscriber", "checkout", "term", "plan", "coupon", "item", "storefront"},
   id : Ids, shared : BOOLEAN]

\* Which class of lock a handler may ask for while it holds one of another.
Orders ==
  ({"settle"} \X {<<"subscriber", "checkout">>, <<"subscriber", "term">>,
                  <<"checkout", "term">>, <<"term", "term">>})
  \union
  ({"create"} \X {<<"subscriber", "plan">>, <<"subscriber", "coupon">>, <<"plan", "coupon">>})
  \union
  ({"replace"} \X {<<"subscriber", "term">>, <<"subscriber", "plan">>, <<"term", "plan">>})
  \union
  ({"free"} \X {<<"term", "subscriber">>, <<"term", "plan">>, <<"subscriber", "plan">>})
  \union
  ({"order", "sweep"} \X
     (({"checkout"} \X {"checkout", "term", "coupon"})
        \union ({"term", "coupon"} \X {"term", "coupon"})))
  \union
  ({"order"} \X
     (({"subscriber"} \X {"checkout", "term", "coupon", "plan"})
        \union ({"checkout", "term", "coupon"} \X {"plan"})
        \union {<<"plan", "coupon">>}))
  \union
  ({"coupon"} \X {<<"coupon", "plan">>, <<"plan", "plan">>})
  \union
  ({"plan"} \X {<<"plan", "item">>, <<"plan", "storefront">>, <<"item", "storefront">>})
  \union
  ({"save"} \X ({"storefront", "plan", "item"} \X {"plan", "item"}))
  \union
  ({"name"} \X {<<"subscriber", "subscriber">>, <<"plan", "plan">>})

Among(l, n, lock) == \E i \in 1..n : l[i] = lock

\* A lock asked for by who holds the n first of l: in the handler's order of classes; shared
\* by who only names a row; a term under its checkout's lock or its subscriber's, but for
\* the free plan's first; a checkout under its subscriber's, but for the sweep and who needs
\* nothing else.
Asks(h, l, n, w) ==
  /\ \A i \in 1..n : <<h, <<l[i].class, w.class>>>> \in Orders
  /\ w.shared => h \in {"coupon", "save", "name"}
  /\ h = "name" => w.shared
  /\ h \in {"settle", "order"} /\ w.class = "checkout" =>
       w.id \in Checkouts /\ Among(l, n, Row("subscriber", OwnerOf[w.id]))
  /\ w.class = "term" /\ h # "single" =>
       \/ w.id \in Checkouts /\ Among(l, n, Row("checkout", w.id))
       \/ w.id \in Subscribers /\ Among(l, n, Row("subscriber", w.id))
       \/ w.id \in Subscribers /\ h = "free" /\ n = 0
  /\ h = "free" /\ n = 1 => w = Row("subscriber", l[1].id)

Obeys(h, l) == l \in Seq(Lock) /\ \A p \in 1..Len(l) : Asks(h, l, p - 1, l[p])

-----------------------------------------------------------------------------
(* Sequences of locks.                                                     *)

LEMMA LockTypes ==
  /\ \A c \in {"subscriber", "checkout", "term", "plan", "coupon", "item", "storefront"},
        id \in Ids :
       Row(c, id) \in Lock /\ Shared(c, id) \in Lock
  /\ \A c, id : /\ Row(c, id).class = c /\ Row(c, id).id = id /\ ~Row(c, id).shared
                /\ Shared(c, id).class = c /\ Shared(c, id).id = id /\ Shared(c, id).shared
BY DEF Row, Shared, Lock

LEMMA NothingObeys == ASSUME NEW h PROVE Obeys(h, <<>>)
<1>. <<>> \in Seq(Lock) /\ Len(<<>>) = 0
  BY EmptySeq
<1>. QED
  BY DEF Obeys

\* Whether a lock may be asked for depends on those held only.
LEMMA AsksOfThePrefix ==
  ASSUME NEW h, NEW w, NEW n \in Nat, NEW l, NEW k, \A i \in 1..n : k[i] = l[i]
  PROVE  Asks(h, l, n, w) <=> Asks(h, k, n, w)
<1>1. \A lock : Among(l, n, lock) <=> Among(k, n, lock)
  BY DEF Among
<1>2. n = 1 => l[1] = k[1]
  OBVIOUS
<1>. QED
  BY <1>1, <1>2 DEF Asks

\* One more lock, or more of them.
LEMMA OneMoreObeys ==
  ASSUME NEW h, NEW l, Obeys(h, l), NEW w \in Lock, Asks(h, l, Len(l), w)
  PROVE  /\ Obeys(h, l \o <<w>>)
         /\ Len(l \o <<w>>) = Len(l) + 1
         /\ (l \o <<w>>)[Len(l) + 1] = w
         /\ \A i \in 1..Len(l) : (l \o <<w>>)[i] = l[i]
<1>. DEFINE k == l \o <<w>>
<1>1. l \in Seq(Lock) /\ <<w>> \in Seq(Lock) /\ Len(<<w>>) = 1 /\ <<w>>[1] = w
  BY DEF Obeys
<1>2. /\ k \in Seq(Lock) /\ Len(k) = Len(l) + 1 /\ Len(l) \in Nat
      /\ \A i \in 1..Len(l) : k[i] = l[i]
      /\ k[Len(l) + 1] = w
  BY <1>1, ConcatProperties
<1>. HIDE DEF k
<1>3. ASSUME NEW p \in 1..Len(k)
      PROVE  Asks(h, k, p - 1, k[p])
  <2>1. p - 1 \in Nat /\ \A i \in 1..(p - 1) : k[i] = l[i]
    BY <1>2
  <2>2. Asks(h, l, p - 1, k[p])
    BY <1>2 DEF Obeys
  <2>. QED
    BY <2>1, <2>2, AsksOfThePrefix
<1>. QED
  BY <1>2, <1>3 DEF Obeys, k

LEMMA FirstObeys ==
  ASSUME NEW h, NEW w \in Lock, Asks(h, <<>>, 0, w)
  PROVE  Obeys(h, <<w>>)
<1>1. <<w>> \in Seq(Lock)
  OBVIOUS
<1>2. <<>> \o <<w>> = <<w>>
  BY <1>1, ConcatEmptySeq
<1>3. Asks(h, <<>>, Len(<<>>), w)
  BY EmptySeq
<1>4. Obeys(h, <<>> \o <<w>>)
  BY <1>3, NothingObeys, OneMoreObeys
<1>. QED
  BY <1>2, <1>4

\* The pieces of a handler's sequence.
LEMMA Joined ==
  ASSUME NEW A, NEW B, NEW l \in A \odot B
  PROVE  \E a \in A, b \in B : l = a \o b
BY DEF \odot

-----------------------------------------------------------------------------
(* What an expiry takes after its checkouts.                               *)

\* Terms of checkouts in K, and coupons.
Released(K) ==
  {l \in Seq(Lock) : \A i \in 1..Len(l) :
     \/ \E k \in K : l[i] = Row("term", k)
     \/ \E c \in Coupons : l[i] = Row("coupon", c)}

LEMMA ReleasedJoined ==
  ASSUME NEW K, NEW a \in Released(K), NEW b \in Released(K)
  PROVE  a \o b \in Released(K)
<1>1. /\ a \o b \in Seq(Lock) /\ Len(a \o b) = Len(a) + Len(b)
      /\ Len(a) \in Nat /\ Len(b) \in Nat
      /\ \A i \in 1..Len(a) + Len(b) :
           (a \o b)[i] = IF i <= Len(a) THEN a[i] ELSE b[i - Len(a)]
  BY ConcatProperties DEF Released
<1>. DEFINE Fits(w) == \/ \E k \in K : w = Row("term", k)
                       \/ \E c \in Coupons : w = Row("coupon", c)
<1>2. /\ \A i \in 1..Len(a) : Fits(a[i])
      /\ \A i \in 1..Len(b) : Fits(b[i])
  BY DEF Released
<1>. HIDE DEF Fits
<1>3. ASSUME NEW i \in 1..Len(a \o b)
      PROVE  Fits((a \o b)[i])
  <2>1. CASE i <= Len(a)
    BY <1>1, <1>2, <2>1
  <2>2. CASE ~(i <= Len(a))
    <3>1. i - Len(a) \in 1..Len(b)
      BY <1>1, <2>2
    <3>. QED
      BY <1>1, <1>2, <2>2, <3>1
  <2>. QED
    BY <2>1, <2>2
<1>. QED
  BY <1>1, <1>3 DEF Released, Fits

LEMMA ReleaseKeeps ==
  ASSUME ConstantsAssumption, NEW K \in SUBSET Checkouts, NEW k \in K,
         NEW taken \in SUBSET Released(K)
  PROVE  Release(taken, k) \in SUBSET Released(K)
<1>. SUFFICES ASSUME NEW l \in Release(taken, k)
              PROVE  l \in Released(K)
  OBVIOUS
<1>1. PICK a \in taken \odot {<<Row("term", k)>>}, b \in NoneOr(OneOf("coupon", {CouponOf[k]})) :
        l = a \o b
  BY Joined DEF Release
<1>2. PICK c \in taken, d \in {<<Row("term", k)>>} : a = c \o d
  BY DEF \odot
<1>3. Row("term", k) \in Lock /\ Row("coupon", CouponOf[k]) \in Lock /\ CouponOf[k] \in Coupons
  BY LockTypes DEF Ids, ConstantsAssumption
<1>4. <<Row("term", k)>> \in Released(K)
  BY <1>3 DEF Released
<1>5. b \in Released(K)
  <2>1. <<Row("coupon", CouponOf[k])>> \in Released(K)
    BY <1>3 DEF Released
  <2>2. <<>> \in Released(K)
    BY EmptySeq DEF Released
  <2>. QED
    BY <2>1, <2>2 DEF NoneOr, OneOf
<1>. QED
  BY <1>1, <1>2, <1>4, <1>5, ReleasedJoined

\* The checkouts are taken in their order: the last of some positions, and what is folded up
\* to them.  The library's fold is that function.
Last1(s) == Max(s)

Folds(g, ks, S) ==
  g = [s \in SUBSET S |->
         IF s = {} THEN {<<>>} ELSE Release(g[s \ {Last1(s)}], ks[Last1(s)])]

\* Some positions of a sequence.
Positions(s) == \E n \in Nat : s \subseteq 1..n

LEMMA PositionsAreFinite ==
  ASSUME NEW s, Positions(s)
  PROVE  IsFiniteSet(s) /\ \A t \in SUBSET s : Positions(t)
<1>1. PICK n \in Nat : s \subseteq 1..n
  BY DEF Positions
<1>2. IsFiniteSet(1..n)
  BY FS_Interval
<1>. QED
  BY <1>1, <1>2, FS_Subset DEF Positions

LEMMA LastIsIn ==
  ASSUME NEW s, Positions(s), s # {}
  PROVE  Last1(s) \in s
<1>. PICK n \in Nat : s \subseteq 1..n
  BY DEF Positions
<1>. DEFINE D == {d \in Nat : \E i \in s : d = n - i}
<1>1. D \subseteq Nat /\ D # {}
  <2>1. PICK i \in s : TRUE
    OBVIOUS
  <2>2. n - i \in Nat
    OBVIOUS
  <2>. QED
    BY <2>2
<1>2. PICK x \in D : \A y \in D : ~ (<<y, x>> \in OpToRel(<, Nat))
  <2>. HIDE DEF D
  <2>. QED
    BY <1>1, NatLessThanWellFounded, WFMin
<1>3. PICK m \in s : x = n - m
  OBVIOUS
<1>4. \A j \in s : m >= j
  <2>. SUFFICES ASSUME NEW j \in s, ~ (m >= j) PROVE FALSE
    OBVIOUS
  <2>1. n - j \in D /\ x \in Nat /\ n - j < x
    BY <1>3
  <2>. QED
    BY <1>2, <2>1 DEF OpToRel
<1>. QED
  BY <1>4 DEF Last1, Max

\* Induction on the positions of a sequence, told of a set of them.
LEMMA SmallestPart ==
  ASSUME NEW S, IsFiniteSet(S), NEW Bad, Bad \subseteq SUBSET S, Bad # {}
  PROVE  \E T \in Bad : \A U \in SUBSET T : U # T => U \notin Bad
<1>1. IsWellFoundedOn(StrictSubsetOrdering(S), SUBSET S)
  BY FS_StrictSubsetOrderingWellFounded, FS_FiniteSubsetsOfFinite
<1>2. \E x \in Bad : \A y \in Bad : ~ (<<y, x>> \in StrictSubsetOrdering(S))
  BY <1>1, WFMin
<1>. QED
  BY <1>2 DEF StrictSubsetOrdering

LEMMA FoldsAgree ==
  ASSUME NEW g, NEW h, NEW ks, NEW U, NEW V, Positions(V), V \subseteq U,
         Folds(g, ks, U), Folds(h, ks, V)
  PROVE  \A W \in SUBSET V : g[W] = h[W]
<1>. DEFINE Bad == {W \in SUBSET V : g[W] # h[W]}
<1>. SUFFICES ASSUME Bad # {} PROVE FALSE
  OBVIOUS
<1>1. PICK W \in Bad : \A T \in SUBSET W : T # W => T \notin Bad
  <2>1. IsFiniteSet(V)
    BY PositionsAreFinite
  <2>2. Bad \subseteq SUBSET V /\ Bad # {}
    OBVIOUS
  <2>. HIDE DEF Bad
  <2>. QED
    BY <2>1, <2>2, SmallestPart
<1>2. /\ g[W] = IF W = {} THEN {<<>>} ELSE Release(g[W \ {Last1(W)}], ks[Last1(W)])
      /\ h[W] = IF W = {} THEN {<<>>} ELSE Release(h[W \ {Last1(W)}], ks[Last1(W)])
  BY DEF Folds
<1>3. W # {}
  BY <1>2
<1>4. W \ {Last1(W)} \notin Bad
  BY <1>1, <1>3, LastIsIn, PositionsAreFinite
<1>. QED
  BY <1>2, <1>3, <1>4

LEMMA FoldExists ==
  ASSUME NEW S, Positions(S), NEW ks
  PROVE  \E g : Folds(g, ks, S)
<1>. DEFINE Bad == {T \in SUBSET S : ~ \E g : Folds(g, ks, T)}
<1>. SUFFICES ASSUME Bad # {} PROVE FALSE
  OBVIOUS
<1>1. PICK T \in Bad : \A U \in SUBSET T : U # T => U \notin Bad
  <2>1. IsFiniteSet(S)
    BY PositionsAreFinite
  <2>2. Bad \subseteq SUBSET S /\ Bad # {}
    OBVIOUS
  <2>. HIDE DEF Bad
  <2>. QED
    BY <2>1, <2>2, SmallestPart
<1>. DEFINE piece(U) == CHOOSE g : Folds(g, ks, U)
            rest(s) == s \ {Last1(s)}
            whole == [s \in SUBSET T |->
                        IF s = {} THEN {<<>>} ELSE Release(piece(rest(s))[rest(s)], ks[Last1(s)])]
<1>2. \A U \in SUBSET T : U # T => Folds(piece(U), ks, U)
  BY <1>1
<1>3. ASSUME NEW U \in SUBSET T, U # {}
      PROVE  rest(U) \in SUBSET U /\ rest(U) # U /\ rest(U) \in SUBSET T /\ rest(U) # T
  BY <1>3, LastIsIn, PositionsAreFinite
<1>4. ASSUME NEW U \in SUBSET T, U # T
      PROVE  whole[U] = piece(U)[U]
  <2>1. piece(U)[U] = IF U = {} THEN {<<>>} ELSE Release(piece(U)[rest(U)], ks[Last1(U)])
    <3>. DEFINE p == piece(U)
    <3>1. Folds(p, ks, U)
      BY <1>2, <1>4
    <3>. HIDE DEF p
    <3>2. p[U] = IF U = {} THEN {<<>>} ELSE Release(p[rest(U)], ks[Last1(U)])
      BY <3>1 DEF Folds
    <3>. QED
      BY <3>2 DEF p
  <2>2. CASE U = {}
    BY <2>1, <2>2
  <2>3. CASE U # {}
    <3>. DEFINE V == rest(U)
    <3>1. V \in SUBSET U /\ V \in SUBSET T /\ V # T
      BY <1>3, <2>3
    <3>2. Folds(piece(V), ks, V) /\ Folds(piece(U), ks, U)
      BY <1>2, <1>4, <3>1
    <3>3. V \subseteq U /\ Positions(V)
      BY <3>1, PositionsAreFinite
    <3>. DEFINE g == piece(U)
                h == piece(V)
    <3>4. Folds(g, ks, U) /\ Folds(h, ks, V)
      BY <3>2
    <3>. HIDE DEF g, h, V
    <3>5. \A W \in SUBSET V : g[W] = h[W]
      BY <3>3, <3>4, FoldsAgree
    <3>6. piece(U)[V] = piece(V)[V]
      BY <3>5 DEF g, h
    <3>. QED
      BY <2>1, <2>3, <3>6 DEF V
  <2>. QED
    BY <2>2, <2>3
<1>5. Folds(whole, ks, T)
  <2>1. ASSUME NEW s \in SUBSET T, s # {}
        PROVE  whole[rest(s)] = piece(rest(s))[rest(s)]
    BY <1>3, <1>4, <2>1
  <2>. HIDE DEF piece
  <2>2. whole = [s \in SUBSET T |->
                   IF s = {} THEN {<<>>} ELSE Release(whole[rest(s)], ks[Last1(s)])]
    BY <2>1
  <2>. QED
    BY <2>2 DEF Folds
<1>. QED
  BY <1>5

\* Whatever checkouts expire, what is taken after them are their terms, and coupons.
LEMMA FoldReleases ==
  ASSUME ConstantsAssumption, NEW K \in SUBSET Checkouts, NEW n \in Nat, NEW ks \in [1..n -> K]
  PROVE  FoldLeft(Release, {<<>>}, ks) \in SUBSET Released(K)
<1>. DEFINE it == CHOOSE g : Folds(g, ks, 1..n)
<1>1. Folds(it, ks, 1..n)
  BY FoldExists DEF Positions
<1>2. DOMAIN ks = 1..n
  OBVIOUS
<1>3. FoldLeft(Release, {<<>>}, ks) = it[1..n]
  BY <1>2, Zenon DEF FoldLeft, MapThenFoldSet, Folds, Last1
<1>. HIDE DEF it
<1>. DEFINE Bad == {T \in SUBSET (1..n) : it[T] \notin SUBSET Released(K)}
<1>. SUFFICES ASSUME Bad # {} PROVE FALSE
  BY <1>3
<1>4. PICK T \in Bad : \A U \in SUBSET T : U # T => U \notin Bad
  <2>1. IsFiniteSet(1..n)
    BY FS_Interval
  <2>2. Bad \subseteq SUBSET (1..n) /\ Bad # {}
    OBVIOUS
  <2>. HIDE DEF Bad
  <2>. QED
    BY <2>1, <2>2, SmallestPart
<1>5. it[T] = IF T = {} THEN {<<>>} ELSE Release(it[T \ {Last1(T)}], ks[Last1(T)])
  BY <1>1 DEF Folds
<1>6. CASE T = {}
  <2>1. <<>> \in Released(K)
    BY EmptySeq DEF Released
  <2>. QED
    BY <1>4, <1>5, <1>6, <2>1
<1>7. CASE T # {}
  <2>1. Last1(T) \in T /\ Last1(T) \in 1..n
    BY <1>7, LastIsIn DEF Positions
  <2>2. T \ {Last1(T)} \notin Bad /\ ks[Last1(T)] \in K
    BY <1>4, <2>1
  <2>3. it[T \ {Last1(T)}] \in SUBSET Released(K)
    BY <2>2
  <2>4. it[T] \in SUBSET Released(K)
    <3>. DEFINE r == it[T \ {Last1(T)}]
                k == ks[Last1(T)]
    <3>1. r \in SUBSET Released(K) /\ k \in K /\ it[T] = Release(r, k)
      BY <1>5, <1>7, <2>2, <2>3
    <3>. HIDE DEF r, k
    <3>. QED
      BY <3>1, ReleaseKeeps
  <2>. QED
    BY <1>4, <2>4
<1>. QED
  BY <1>6, <1>7

LEMMA ListsOf ==
  ASSUME NEW S, IsFiniteSet(S), NEW ids \in AnyOf(S)
  PROVE  \E n \in Nat : ids \in [1..n -> S]
<1>1. PICK T \in SUBSET S : ids \in SetToSeqs(T)
  BY DEF AnyOf
<1>2. Cardinality(T) \in Nat
  BY FS_Subset, FS_CardinalityType
<1>. QED
  BY <1>1, <1>2 DEF SetToSeqs

\* An expiry's locks: some checkouts, then terms of these and coupons.
LEMMA ExpiryShape ==
  ASSUME ConstantsAssumption, NEW K \in SUBSET Checkouts, NEW e \in Expiries(K)
  PROVE  \E n \in Nat : \E ks \in [1..n -> K], a \in Seq(Lock), r \in Seq(Lock) :
           /\ e = a \o r
           /\ Len(a) = n /\ \A i \in 1..n : a[i] = Row("checkout", ks[i])
           /\ \A i \in 1..Len(r) : \/ \E j \in 1..n : r[i] = Row("term", ks[j])
                                   \/ \E c \in Coupons : r[i] = Row("coupon", c)
<1>1. PICK ks \in AnyOf(K) :
        e \in {[i \in DOMAIN ks |-> Row("checkout", ks[i])]} \odot FoldLeft(Release, {<<>>}, ks)
  BY DEF Expiries
<1>2. IsFiniteSet(K)
  BY FS_Subset DEF ConstantsAssumption
<1>3. PICK n \in Nat : ks \in [1..n -> K]
  BY <1>2, ListsOf
<1>. DEFINE a == [i \in 1..n |-> Row("checkout", ks[i])]
            taken == {ks[i] : i \in 1..n}
<1>4. taken \in SUBSET Checkouts /\ ks \in [1..n -> taken]
  BY <1>3
<1>5. PICK r \in FoldLeft(Release, {<<>>}, ks) : e = a \o r
  BY <1>1, <1>3 DEF \odot
<1>6. r \in Released(taken)
  <2>. HIDE DEF taken
  <2>. QED
    BY <1>4, <1>5, FoldReleases
<1>7. a \in Seq(Lock) /\ Len(a) = n
  <2>1. \A i \in 1..n : Row("checkout", ks[i]) \in Lock
    BY <1>3, LockTypes DEF Ids
  <2>2. a \in [1..n -> Lock]
    BY <2>1
  <2>. QED
    BY <2>2
<1>8. \A i \in 1..Len(r) : \/ \E j \in 1..n : r[i] = Row("term", ks[j])
                           \/ \E c \in Coupons : r[i] = Row("coupon", c)
  BY <1>6 DEF Released
<1>. QED
  BY <1>3, <1>5, <1>6, <1>7, <1>8 DEF Released

-----------------------------------------------------------------------------
(* Every handler obeys.                                                    *)

OfClasses(l, C) == \A i \in 1..Len(l) : l[i].class \in C

\* A beginning of handler h's sequence, of locks of some classes.
Runs(h, l, C) == Obeys(h, l) /\ OfClasses(l, C) /\ Len(l) > 0

\* Classes that h may ask for while it holds some of C.
MayFollow(h, C, D) == \A c \in C, d \in D : <<h, <<c, d>>>> \in Orders

\* Locks that need nothing but their place in the order.
LEMMA MoreObey ==
  ASSUME NEW h, NEW l, NEW C, Runs(h, l, C),
         NEW q \in Seq(Lock), NEW D, OfClasses(q, D), MayFollow(h, C \union D, D),
         D \cap {"checkout", "term"} = {}, h \notin {"free", "name"},
         \A j \in 1..Len(q) : q[j].shared => h \in {"coupon", "save"}
  PROVE  Runs(h, l \o q, C \union D)
<1>. DEFINE k == l \o q
<1>1. /\ k \in Seq(Lock) /\ Len(k) = Len(l) + Len(q) /\ Len(l) \in Nat /\ Len(q) \in Nat
      /\ \A i \in 1..Len(l) : k[i] = l[i]
      /\ \A i \in 1..Len(k) : ~(i <= Len(l)) => k[i] = q[i - Len(l)]
  BY ConcatProperties DEF Runs, Obeys
<1>. HIDE DEF k
<1>2. \A i \in 1..Len(k) : ~(i <= Len(l)) => i - Len(l) \in 1..Len(q)
  BY <1>1
<1>3. \A i \in 1..Len(k) : k[i].class \in C \union D
  BY <1>1, <1>2 DEF Runs, OfClasses
<1>4. ASSUME NEW p \in 1..Len(k)
      PROVE  Asks(h, k, p - 1, k[p])
  <2>1. CASE p <= Len(l)
    <3>1. p - 1 \in Nat /\ \A i \in 1..(p - 1) : k[i] = l[i]
      BY <1>1, <2>1
    <3>2. Asks(h, l, p - 1, k[p])
      BY <1>1, <2>1 DEF Runs, Obeys
    <3>. QED
      BY <3>1, <3>2, AsksOfThePrefix
  <2>2. CASE ~(p <= Len(l))
    <3>1. k[p].class \in D /\ k[p].class \notin {"checkout", "term"}
      BY <1>1, <1>2, <2>2 DEF OfClasses
    <3>2. \A i \in 1..(p - 1) : <<h, <<k[i].class, k[p].class>>>> \in Orders
      BY <1>3, <3>1 DEF MayFollow
    <3>3. k[p].shared => h \in {"coupon", "save"}
      BY <1>1, <1>2, <2>2
    <3>. QED
      BY <3>1, <3>2, <3>3 DEF Asks
  <2>. QED
    BY <2>1, <2>2
<1>. QED
  BY <1>1, <1>3, <1>4 DEF Runs, Obeys, OfClasses, k

LEMMA OneObeys ==
  ASSUME NEW h, NEW l, NEW C, Runs(h, l, C), NEW w \in Lock, MayFollow(h, C, {w.class}),
         w.class \notin {"checkout", "term"}, h \notin {"free", "name"},
         w.shared => h = "save"
  PROVE  Runs(h, l \o <<w>>, C \union {w.class})
<1>1. Asks(h, l, Len(l), w)
  BY DEF Asks, Runs, OfClasses, MayFollow
<1>2. l \in Seq(Lock) /\ Len(l) \in Nat
  BY DEF Runs, Obeys
<1>3. /\ Obeys(h, l \o <<w>>)
      /\ Len(l \o <<w>>) = Len(l) + 1
      /\ (l \o <<w>>)[Len(l) + 1] = w
      /\ \A i \in 1..Len(l) : (l \o <<w>>)[i] = l[i]
  BY <1>1, OneMoreObeys DEF Runs
<1>. DEFINE k == l \o <<w>>
<1>. HIDE DEF k
<1>4. \A i \in 1..Len(k) : k[i].class \in C \union {w.class}
  BY <1>2, <1>3 DEF k, Runs, OfClasses
<1>. QED
  BY <1>2, <1>3, <1>4 DEF Runs, OfClasses, k

LEMMA RowObeys ==
  ASSUME NEW h, NEW l, NEW C, Runs(h, l, C), NEW class, NEW ids,
         \A id \in ids : Row(class, id) \in Lock,
         MayFollow(h, C, {class}), class \notin {"checkout", "term"}, h \notin {"free", "name"}
  PROVE  \A b \in OneOf(class, ids) : Runs(h, l \o b, C \union {class})
<1>. SUFFICES ASSUME NEW id \in ids
              PROVE  Runs(h, l \o <<Row(class, id)>>, C \union {class})
  BY DEF OneOf
<1>1. /\ Row(class, id) \in Lock /\ Row(class, id).class = class /\ ~Row(class, id).shared
  BY LockTypes
<1>. QED
  BY <1>1, OneObeys

LEMMA NoneObeys ==
  ASSUME NEW h, NEW l, NEW C, NEW D, Runs(h, l, C)
  PROVE  Runs(h, l \o <<>>, C \union D)
<1>1. l \o <<>> = l
  BY ConcatEmptySeq DEF Runs, Obeys
<1>. QED
  BY <1>1 DEF Runs, OfClasses

LEMMA MaybeRowObeys ==
  ASSUME NEW h, NEW l, NEW C, Runs(h, l, C), NEW class, NEW ids,
         \A id \in ids : Row(class, id) \in Lock,
         MayFollow(h, C, {class}), class \notin {"checkout", "term"}, h \notin {"free", "name"}
  PROVE  \A b \in NoneOr(OneOf(class, ids)) : Runs(h, l \o b, C \union {class})
BY RowObeys, NoneObeys DEF NoneOr

\* The first lock.
LEMMA StartObeys ==
  ASSUME NEW h, NEW class, NEW ids, \A id \in ids : Row(class, id) \in Lock,
         class \notin {"checkout", "term"} \/ h = "single", h # "name"
  PROVE  \A l \in OneOf(class, ids) : Runs(h, l, {class}) /\ \E id \in ids : l = <<Row(class, id)>>
<1>. SUFFICES ASSUME NEW id \in ids
              PROVE  Runs(h, <<Row(class, id)>>, {class})
  BY DEF OneOf
<1>. DEFINE w == Row(class, id)
<1>2. w \in Lock /\ w.class = class /\ ~w.shared
  BY LockTypes
<1>. HIDE DEF w
<1>3. Asks(h, <<>>, 0, w)
  BY <1>2 DEF Asks
<1>4. Obeys(h, <<w>>) /\ Len(<<w>>) = 1 /\ <<w>>[1] = w
  BY <1>2, <1>3, FirstObeys
<1>5. Runs(h, <<w>>, {class})
  BY <1>2, <1>4 DEF Runs, OfClasses
<1>. QED
  BY <1>5 DEF w

\* Rows named: nothing, or locks shared of one class.
LEMMA NamedRows ==
  ASSUME NEW class, NEW S, IsFiniteSet(S), NEW q \in SomeShared(class, S),
         \A id \in S : Shared(class, id) \in Lock
  PROVE  q \in Seq(Lock) /\ OfClasses(q, {class}) /\ \A j \in 1..Len(q) : q[j].shared
<1>1. PICK ids \in AnyOf(S) : q = [i \in DOMAIN ids |-> Shared(class, ids[i])]
  BY DEF SomeShared
<1>2. PICK n \in Nat : ids \in [1..n -> S]
  BY ListsOf
<1>3. q \in [1..n -> Lock] /\ \A j \in 1..n : q[j] = Shared(class, ids[j])
  BY <1>1, <1>2
<1>4. q \in Seq(Lock) /\ Len(q) = n
  BY <1>3
<1>. QED
  BY <1>3, <1>4, LockTypes DEF OfClasses

LEMMA NamingObeys ==
  ASSUME ConstantsAssumption, NEW l \in Naming
  PROVE  Obeys("name", l) /\ l # <<>>
<1>1. \A id \in Ids : Shared("subscriber", id) \in Lock /\ Shared("plan", id) \in Lock
  BY LockTypes
<1>2. ASSUME NEW class \in {"subscriber", "plan"}, NEW S \in SUBSET Ids, IsFiniteSet(S),
             l \in SomeShared(class, S)
      PROVE  Obeys("name", l)
  <2>1. l \in Seq(Lock) /\ OfClasses(l, {class}) /\ \A j \in 1..Len(l) : l[j].shared
    BY <1>1, <1>2, NamedRows
  <2>2. \A p \in 1..Len(l) : Asks("name", l, p - 1, l[p])
    BY <2>1 DEF Asks, OfClasses, Orders
  <2>. QED
    BY <2>1, <2>2 DEF Obeys
<1>. QED
  BY <1>2 DEF Naming, Ids, ConstantsAssumption

LEMMA SingleRuns ==
  ASSUME NEW l \in Single
  PROVE  Obeys("single", l) /\ Len(l) > 0
<1>1. \A c \in {"subscriber", "checkout", "term"}, id \in Ids : Row(c, id) \in Lock
  BY LockTypes
<1>2. /\ \A id \in Subscribers : Row("subscriber", id) \in Lock
      /\ \A id \in Checkouts : Row("checkout", id) \in Lock
      /\ \A id \in Subscribers \union Checkouts : Row("term", id) \in Lock
  BY <1>1 DEF Ids
<1>3. CASE l \in OneOf("subscriber", Subscribers)
  BY <1>2, <1>3, StartObeys DEF Runs
<1>4. CASE l \in OneOf("checkout", Checkouts)
  BY <1>2, <1>4, StartObeys DEF Runs
<1>5. CASE l \in OneOf("term", Subscribers \union Checkouts)
  BY <1>2, <1>5, StartObeys DEF Runs
<1>. QED
  BY <1>3, <1>4, <1>5 DEF Single

LEMMA CreationRuns ==
  ASSUME NEW s \in Subscribers, NEW l \in Creation(s)
  PROVE  Runs("create", l, {"subscriber", "plan", "coupon"})
<1>1. PICK a \in OneOf("subscriber", {s}) \odot OneOf("plan", Plans),
           c \in NoneOr(OneOf("coupon", Coupons)) : l = a \o c
  BY Joined DEF Creation
<1>2. PICK b \in OneOf("subscriber", {s}), p \in OneOf("plan", Plans) : a = b \o p
  BY Joined
<1>3. /\ \A id \in {s} : Row("subscriber", id) \in Lock
      /\ \A id \in Plans : Row("plan", id) \in Lock
      /\ \A id \in Coupons : Row("coupon", id) \in Lock
  BY LockTypes DEF Ids
<1>4. /\ MayFollow("create", {"subscriber"}, {"plan"})
      /\ MayFollow("create", {"subscriber", "plan"}, {"coupon"})
  BY DEF MayFollow, Orders
<1>5. Runs("create", b, {"subscriber"})
  BY <1>3, StartObeys
<1>6. Runs("create", a, {"subscriber"} \union {"plan"})
  BY <1>2, <1>3, <1>4, <1>5, RowObeys
<1>7. {"subscriber"} \union {"plan"} = {"subscriber", "plan"}
  OBVIOUS
<1>8. Runs("create", l, {"subscriber", "plan"} \union {"coupon"})
  BY <1>1, <1>3, <1>4, <1>6, <1>7, MaybeRowObeys
<1>9. {"subscriber", "plan"} \union {"coupon"} = {"subscriber", "plan", "coupon"}
  OBVIOUS
<1>. QED
  BY <1>8, <1>9

LEMMA PlanEditRuns ==
  ASSUME NEW p \in Plans, NEW l \in PlanEdit(p)
  PROVE  Runs("plan", l, {"plan", "item", "storefront"})
<1>. DEFINE Plan == OneOf("plan", {p})
            Item == NoneOr(OneOf("item", {p}))
            Config == NoneOr(OneOf("storefront", {"config"}))
<1>0. l \in (Plan \odot Item) \odot Config
  BY DEF PlanEdit
<1>. HIDE DEF Plan, Item, Config
<1>1. PICK a \in Plan \odot Item, c \in Config : l = a \o c
  BY <1>0, Joined
<1>2. PICK b \in Plan, i \in Item : a = b \o i
  BY Joined
<1>3. /\ \A id \in {p} : Row("plan", id) \in Lock /\ Row("item", id) \in Lock
      /\ \A id \in {"config"} : Row("storefront", id) \in Lock
  BY LockTypes DEF Ids
<1>4. /\ MayFollow("plan", {"plan"}, {"item"})
      /\ MayFollow("plan", {"plan", "item"}, {"storefront"})
  BY DEF MayFollow, Orders
<1>5. Runs("plan", b, {"plan"})
  BY <1>3, StartObeys DEF Plan
<1>6. Runs("plan", a, {"plan"} \union {"item"})
  BY <1>2, <1>3, <1>4, <1>5, MaybeRowObeys DEF Item
<1>7. {"plan"} \union {"item"} = {"plan", "item"}
  OBVIOUS
<1>8. Runs("plan", l, {"plan", "item"} \union {"storefront"})
  BY <1>1, <1>3, <1>4, <1>6, <1>7, MaybeRowObeys DEF Config
<1>9. {"plan", "item"} \union {"storefront"} = {"plan", "item", "storefront"}
  OBVIOUS
<1>. QED
  BY <1>8, <1>9

LEMMA CouponEditRuns ==
  ASSUME ConstantsAssumption, NEW g \in Coupons, NEW l \in CouponEdit(g)
  PROVE  Runs("coupon", l, {"coupon"} \union {"plan"})
<1>1. PICK a \in OneOf("coupon", {g}), q \in SomeShared("plan", Plans) : l = a \o q
  BY Joined DEF CouponEdit
<1>2. /\ \A id \in {g} : Row("coupon", id) \in Lock
      /\ \A id \in Plans : Shared("plan", id) \in Lock
  BY LockTypes DEF Ids
<1>3. Runs("coupon", a, {"coupon"})
  BY <1>2, StartObeys
<1>4. q \in Seq(Lock) /\ OfClasses(q, {"plan"})
  BY <1>2, NamedRows DEF ConstantsAssumption
<1>5. MayFollow("coupon", {"coupon"} \union {"plan"}, {"plan"})
  BY DEF MayFollow, Orders
<1>6. {"plan"} \cap {"checkout", "term"} = {}
  OBVIOUS
<1>. QED
  BY <1>1, <1>3, <1>4, <1>5, <1>6, MoreObey

LEMMA StorefrontSaveRuns ==
  ASSUME ConstantsAssumption, NEW l \in StorefrontSave
  PROVE  Obeys("save", l) /\ Len(l) > 0
<1>. DEFINE Items == {[i \in DOMAIN ps |-> Row("item", ps[i])] : ps \in AnyOf(Plans)}
            C == {"storefront", "plan", "item"}
            Config == OneOf("storefront", {"config"})
            Recommended == NoneOr({<<Shared("plan", p)>> : p \in Plans})
<1>1. l \in ((Config \odot Recommended) \odot Items) \odot SomeShared("plan", Plans)
  BY DEF StorefrontSave
<1>. HIDE DEF Config, Recommended, Items
<1>2. PICK c \in (Config \odot Recommended) \odot Items, q \in SomeShared("plan", Plans) :
        l = c \o q
  BY <1>1, Joined
<1>3. PICK b \in Config \odot Recommended, t \in Items : c = b \o t
  BY Joined
<1>4. PICK a \in Config, r \in Recommended : b = a \o r
  BY Joined
<1>5. /\ \A id \in {"config"} : Row("storefront", id) \in Lock
      /\ \A id \in Plans : /\ Shared("plan", id) \in Lock /\ Shared("plan", id).class = "plan"
                           /\ Row("item", id) \in Lock
                           /\ Row("item", id).class = "item" /\ ~Row("item", id).shared
  BY LockTypes DEF Ids
<1>6. /\ MayFollow("save", {"storefront"}, {"plan"})
      /\ \A D \in {{"plan"}, {"item"}} : MayFollow("save", C \union D, D)
  BY DEF MayFollow, Orders
<1>7. Runs("save", a, {"storefront"})
  BY <1>5, StartObeys DEF Config
<1>8. Runs("save", b, C)
  <2>1. Runs("save", b, {"storefront"} \union {"plan"})
    <3>1. CASE r = <<>>
      BY <1>4, <1>7, <3>1, NoneObeys
    <3>2. ASSUME NEW p \in Plans, r = <<Shared("plan", p)>>
          PROVE  Runs("save", b, {"storefront"} \union {"plan"})
      BY <1>4, <1>5, <1>6, <1>7, <3>2, OneObeys
    <3>. QED
      BY <3>1, <3>2 DEF NoneOr, Recommended
  <2>. QED
    BY <2>1 DEF Runs, OfClasses
<1>9. Runs("save", c, C \union {"item"})
  <2>1. PICK ps \in AnyOf(Plans) : t = [i \in DOMAIN ps |-> Row("item", ps[i])]
    BY DEF Items
  <2>2. PICK n \in Nat : ps \in [1..n -> Plans]
    BY ListsOf DEF ConstantsAssumption
  <2>3. t \in [1..n -> Lock] /\ \A j \in 1..n : t[j].class = "item" /\ ~t[j].shared
    BY <1>5, <2>1, <2>2
  <2>4. t \in Seq(Lock) /\ OfClasses(t, {"item"}) /\ \A j \in 1..Len(t) : ~t[j].shared
    <3>1. t \in Seq(Lock) /\ Len(t) = n
      BY <2>3
    <3>. QED
      BY <2>3, <3>1 DEF OfClasses
  <2>5. {"item"} \cap {"checkout", "term"} = {}
    OBVIOUS
  <2>. HIDE DEF C
  <2>. QED
    BY <1>3, <1>6, <1>8, <2>4, <2>5, MoreObey
<1>10. Runs("save", l, C \union {"plan"})
  <2>1. C \union {"item"} = C /\ {"plan"} \cap {"checkout", "term"} = {}
    OBVIOUS
  <2>2. q \in Seq(Lock) /\ OfClasses(q, {"plan"})
    BY <1>5, NamedRows DEF ConstantsAssumption
  <2>. HIDE DEF C
  <2>. QED
    BY <1>2, <1>6, <1>9, <2>1, <2>2, MoreObey
<1>. QED
  BY <1>10 DEF Runs

\* Subscriber before checkout before terms.
LEMMA SettlementRuns ==
  ASSUME ConstantsAssumption, NEW k \in Checkouts, NEW l \in Settlement(k)
  PROVE  Obeys("settle", l) /\ Len(l) > 0
<1>. DEFINE s == OwnerOf[k]
            w1 == Row("subscriber", s)
            w2 == Row("checkout", k)
            w3 == Row("term", k)
            w4 == Row("term", s)
            a == <<w1, w2, w3>>
            Current == NoneOr(OneOf("term", {s}))
<1>1. l \in {a} \odot Current
  BY DEF Settlement
<1>2. PICK c \in {a}, b \in Current : l = c \o b
  <2>. DEFINE A == {a}
  <2>. HIDE DEF A, Current
  <2>1. l \in A \odot Current
    BY <1>1 DEF A
  <2>2. \E c \in A, b \in Current : l = c \o b
    BY <2>1, Joined
  <2>. QED
    BY <2>2 DEF A
<1>. HIDE DEF Current
<1>3. s \in Subscribers
  BY DEF ConstantsAssumption
<1>4. w1 \in Lock /\ w2 \in Lock /\ w3 \in Lock /\ w4 \in Lock
  BY <1>3, LockTypes DEF Ids
<1>5. /\ w1.class = "subscriber" /\ w2.class = "checkout" /\ w3.class = "term" /\ w4.class = "term"
      /\ w2.id = k /\ w3.id = k /\ w4.id = s
      /\ ~w1.shared /\ ~w2.shared /\ ~w3.shared /\ ~w4.shared
  BY LockTypes
<1>6. w1 = Row("subscriber", OwnerOf[k]) /\ w2 = Row("checkout", k) /\ w1 = Row("subscriber", s)
  OBVIOUS
<1>. HIDE DEF w1, w2, w3, w4, s
<1>7. Obeys("settle", a) /\ Len(a) = 3
  <2>1. a \in Seq(Lock) /\ Len(a) = 3 /\ a[1] = w1 /\ a[2] = w2 /\ a[3] = w3
    BY <1>4
  <2>. HIDE DEF a
  <2>2. Asks("settle", a, 0, w1)
    BY <1>5 DEF Asks
  <2>3. Asks("settle", a, 1, w2)
    BY <1>5, <1>6, <2>1 DEF Asks, Among, Orders
  <2>4. Asks("settle", a, 2, w3)
    <3>1. \A i \in 1..2 : <<"settle", <<a[i].class, "term">>>> \in Orders
      BY <1>5, <2>1 DEF Orders
    <3>2. Among(a, 2, Row("checkout", k))
      BY <1>6, <2>1 DEF Among
    <3>. QED
      BY <1>5, <3>1, <3>2 DEF Asks
  <2>5. \A p \in 1..Len(a) : p = 1 \/ p = 2 \/ p = 3
    BY <2>1
  <2>. QED
    BY <2>1, <2>2, <2>3, <2>4, <2>5 DEF Obeys
<1>8. CASE b = <<>>
  <2>1. l = a
    BY <1>2, <1>7, <1>8, ConcatEmptySeq DEF Obeys
  <2>. QED
    BY <1>7, <2>1
<1>9. CASE b = <<w4>>
  <2>1. a[1] = w1 /\ a[2] = w2 /\ a[3] = w3
    OBVIOUS
  <2>. HIDE DEF a
  <2>2. \A i \in 1..3 : <<"settle", <<a[i].class, "term">>>> \in Orders
    BY <1>5, <2>1 DEF Orders
  <2>3. Among(a, 3, Row("subscriber", s))
    BY <1>6, <2>1 DEF Among
  <2>4. Asks("settle", a, Len(a), w4)
    BY <1>3, <1>5, <1>7, <2>2, <2>3 DEF Asks
  <2>5. /\ Obeys("settle", a \o <<w4>>)
        /\ Len(a \o <<w4>>) = Len(a) + 1
    BY <1>4, <1>7, <2>4, OneMoreObeys
  <2>. QED
    BY <1>2, <1>7, <1>9, <2>5
<1>. QED
  BY <1>8, <1>9 DEF NoneOr, OneOf, w4, Current

\* The subscriber before its term.
LEMMA ReplacementRuns ==
  ASSUME ConstantsAssumption, NEW s \in Subscribers, NEW l \in Replacement(s)
  PROVE  Obeys("replace", l) /\ Len(l) > 0
<1>. DEFINE w1 == Row("subscriber", s)
            w2 == Row("term", s)
            a == <<w1, w2>>
            Start == {a}
            Plan == OneOf("plan", Plans)
<1>1. l \in Start \odot Plan
  BY DEF Replacement
<1>. HIDE DEF Start, Plan
<1>2. PICK c \in Start, b \in Plan : l = c \o b
  BY <1>1, Joined
<1>3. /\ w1 \in Lock /\ w2 \in Lock
      /\ w1.class = "subscriber" /\ ~w1.shared /\ w2.class = "term" /\ w2.id = s /\ ~w2.shared
      /\ w1 = Row("subscriber", s)
  BY LockTypes DEF Ids
<1>4. \A id \in Plans : Row("plan", id) \in Lock
  BY LockTypes DEF Ids
<1>. HIDE DEF w1, w2
<1>5. a \in Seq(Lock) /\ Len(a) = 2 /\ a[1] = w1 /\ a[2] = w2
  BY <1>3
<1>6. c = a
  BY DEF Start
<1>. HIDE DEF a
<1>7. Runs("replace", a, {"subscriber", "term"})
  <2>1. Asks("replace", a, 0, w1)
    BY <1>3 DEF Asks
  <2>2. Asks("replace", a, 1, w2)
    BY <1>3, <1>5 DEF Asks, Among, Orders
  <2>3. \A p \in 1..Len(a) : p = 1 \/ p = 2
    BY <1>5
  <2>. QED
    BY <1>3, <1>5, <2>1, <2>2, <2>3 DEF Runs, Obeys, OfClasses
<1>8. MayFollow("replace", {"subscriber", "term"}, {"plan"})
  BY DEF MayFollow, Orders
<1>9. Runs("replace", l, {"subscriber", "term"} \union {"plan"})
  BY <1>2, <1>4, <1>6, <1>7, <1>8, RowObeys DEF Plan
<1>. QED
  BY <1>9 DEF Runs

\* The term before its subscriber.
LEMMA FreeActivationRuns ==
  ASSUME NEW s \in Subscribers, NEW l \in FreeActivation(s)
  PROVE  Obeys("free", l) /\ Len(l) > 0
<1>. DEFINE w1 == Row("term", s)
            w2 == Row("subscriber", s)
            a == <<w1, w2>>
            Start == {a}
            Plan == OneOf("plan", Plans)
<1>1. l \in Start \odot Plan
  BY DEF FreeActivation
<1>. HIDE DEF Start, Plan
<1>2. PICK c \in Start, b \in Plan : l = c \o b
  BY <1>1, Joined
<1>3. /\ w1 \in Lock /\ w2 \in Lock
      /\ w1.class = "term" /\ w1.id = s /\ ~w1.shared /\ w2.class = "subscriber" /\ ~w2.shared
      /\ w2 = Row("subscriber", s)
  BY LockTypes DEF Ids
<1>4. PICK p \in Plans : b = <<Row("plan", p)>>
  BY DEF Plan, OneOf
<1>5. /\ Row("plan", p) \in Lock /\ Row("plan", p).class = "plan" /\ ~Row("plan", p).shared
  BY LockTypes DEF Ids
<1>. HIDE DEF w1, w2
<1>6. a \in Seq(Lock) /\ Len(a) = 2 /\ a[1] = w1 /\ a[2] = w2
  BY <1>3
<1>7. c = a
  BY DEF Start
<1>. HIDE DEF a
<1>8. Obeys("free", a)
  <2>1. Asks("free", a, 0, w1)
    BY <1>3 DEF Asks
  <2>2. Asks("free", a, 1, w2)
    BY <1>3, <1>6 DEF Asks, Orders
  <2>3. \A i \in 1..Len(a) : i = 1 \/ i = 2
    BY <1>6
  <2>. QED
    BY <1>6, <2>1, <2>2, <2>3 DEF Obeys
<1>9. Asks("free", a, 2, Row("plan", p))
  <2>1. \A i \in 1..2 : <<"free", <<a[i].class, "plan">>>> \in Orders
    BY <1>3, <1>6 DEF Orders
  <2>. QED
    BY <1>5, <2>1 DEF Asks
<1>10. /\ Obeys("free", a \o <<Row("plan", p)>>)
       /\ Len(a \o <<Row("plan", p)>>) = Len(a) + 1
  <2>. DEFINE w == Row("plan", p)
  <2>1. w \in Lock /\ Asks("free", a, Len(a), w)
    BY <1>5, <1>6, <1>9
  <2>. HIDE DEF w
  <2>2. Obeys("free", a \o <<w>>) /\ Len(a \o <<w>>) = Len(a) + 1
    BY <1>8, <2>1, OneMoreObeys
  <2>. QED
    BY <2>2 DEF w
<1>. QED
  BY <1>2, <1>4, <1>6, <1>7, <1>10

\* The expiry of some checkouts, by the sweep or after their subscriber's lock.
LEMMA ExpiryRuns ==
  ASSUME ConstantsAssumption, NEW K \in SUBSET Checkouts, NEW e \in Expiries(K),
         NEW h, NEW b \in Seq(Lock), Obeys(h, b), OfClasses(b, {"subscriber"}),
         \/ h = "sweep" /\ Len(b) = 0
         \/ h = "order" /\ \A k \in K : Among(b, Len(b), Row("subscriber", OwnerOf[k]))
  PROVE  /\ Obeys(h, b \o e) /\ Len(b \o e) >= Len(b)
         /\ OfClasses(b \o e, {"subscriber", "checkout", "term", "coupon"})
         /\ \A i \in 1..Len(b) : (b \o e)[i] = b[i]
<1>0. PICK n \in Nat : \E ks \in [1..n -> K], a \in Seq(Lock), r \in Seq(Lock) :
           /\ e = a \o r
           /\ Len(a) = n /\ \A i \in 1..n : a[i] = Row("checkout", ks[i])
           /\ \A i \in 1..Len(r) : \/ \E j \in 1..n : r[i] = Row("term", ks[j])
                                   \/ \E c \in Coupons : r[i] = Row("coupon", c)
  BY ExpiryShape
<1>1. PICK ks \in [1..n -> K], a \in Seq(Lock), r \in Seq(Lock) :
        /\ e = a \o r
        /\ Len(a) = n /\ \A i \in 1..n : a[i] = Row("checkout", ks[i])
        /\ \A i \in 1..Len(r) : \/ \E j \in 1..n : r[i] = Row("term", ks[j])
                                \/ \E c \in Coupons : r[i] = Row("coupon", c)
  BY <1>0
<1>. DEFINE m == Len(b)
            l == b \o e
<1>2. /\ e \in Seq(Lock) /\ Len(e) = n + Len(r) /\ Len(r) \in Nat /\ m \in Nat
      /\ \A i \in 1..n : e[i] = a[i]
      /\ \A i \in 1..Len(e) : ~(i <= n) => e[i] = r[i - n]
  <2>1. /\ a \o r \in Seq(Lock) /\ Len(a \o r) = Len(a) + Len(r)
        /\ Len(a) \in Nat /\ Len(r) \in Nat /\ Len(b) \in Nat
        /\ \A i \in 1..Len(a) + Len(r) :
             (a \o r)[i] = IF i <= Len(a) THEN a[i] ELSE r[i - Len(a)]
    BY ConcatProperties
  <2>2. e = a \o r /\ Len(a) = n
    BY <1>1
  <2>. QED
    BY <2>1, <2>2
<1>3. /\ l \in Seq(Lock) /\ Len(l) = m + Len(e)
      /\ \A i \in 1..m : l[i] = b[i]
      /\ \A i \in 1..Len(l) : ~(i <= m) => l[i] = e[i - m]
  <2>1. /\ b \o e \in Seq(Lock) /\ Len(b \o e) = Len(b) + Len(e)
        /\ Len(b) \in Nat /\ Len(e) \in Nat
        /\ \A i \in 1..Len(b) + Len(e) :
             (b \o e)[i] = IF i <= Len(b) THEN b[i] ELSE e[i - Len(b)]
    <3>1. e \in Seq(Lock)
      BY <1>2
    <3>. QED
      BY <3>1, ConcatProperties
  <2>. QED
    BY <2>1
<1>. HIDE DEF l, m
<1>4. \A i \in 1..m : l[i].class = "subscriber" /\ h = "order"
  <2>1. m = Len(b)
    BY DEF m
  <2>. QED
    BY <1>2, <1>3, <2>1 DEF OfClasses
<1>5. \A i \in 1..n : m + i \in 1..Len(l) /\ l[m + i] = Row("checkout", ks[i])
  <2>. SUFFICES ASSUME NEW i \in 1..n
                PROVE  m + i \in 1..Len(l) /\ l[m + i] = Row("checkout", ks[i])
    OBVIOUS
  <2>1. m + i \in 1..Len(l) /\ ~(m + i <= m) /\ (m + i) - m = i
    BY <1>2, <1>3
  <2>2. l[m + i] = e[i]
    BY <1>3, <2>1
  <2>. QED
    BY <1>1, <1>2, <2>1, <2>2
<1>6. \A i \in 1..Len(l) :
        \/ i <= m
        \/ ~(i <= m) /\ i <= m + n /\ i - m \in 1..n /\ l[i] = Row("checkout", ks[i - m])
        \/ ~(i <= m + n) /\ (\/ \E j \in 1..n : l[i] = Row("term", ks[j])
                             \/ \E c \in Coupons : l[i] = Row("coupon", c))
  <2>. SUFFICES ASSUME NEW i \in 1..Len(l), ~(i <= m)
                PROVE  \/ i <= m + n /\ i - m \in 1..n /\ l[i] = Row("checkout", ks[i - m])
                       \/ ~(i <= m + n) /\ (\/ \E j \in 1..n : l[i] = Row("term", ks[j])
                                            \/ \E c \in Coupons : l[i] = Row("coupon", c))
    OBVIOUS
  <2>1. CASE i <= m + n
    <3>1. i - m \in 1..n /\ m + (i - m) = i
      BY <1>2, <2>1
    <3>. QED
      BY <1>5, <2>1, <3>1
  <2>2. CASE ~(i <= m + n)
    <3>0. /\ m \in Nat /\ Len(r) \in Nat
          /\ Len(e) = n + Len(r) /\ Len(l) = m + Len(e)
      BY <1>2, <1>3
    <3>1. i - m \in 1..Len(e) /\ ~(i - m <= n) /\ (i - m) - n \in 1..Len(r)
      <4>. DEFINE x == Len(r)
                  y == Len(e)
                  z == Len(l)
      <4>1. x \in Nat /\ y = n + x /\ z = m + y /\ i \in 1..z /\ m \in Nat
        BY <3>0
      <4>. HIDE DEF x, y, z
      <4>2. i - m \in 1..y /\ ~(i - m <= n) /\ (i - m) - n \in 1..x
        BY <4>1, <2>2
      <4>. QED
        BY <4>2 DEF x, y
    <3>2. l[i] = r[(i - m) - n]
      BY <1>2, <1>3, <3>1
    <3>. QED
      BY <1>1, <2>2, <3>1, <3>2
  <2>. QED
    BY <2>1, <2>2
<1>7. \A c, id : /\ Row(c, id).class = c /\ Row(c, id).id = id /\ ~Row(c, id).shared
  BY LockTypes
<1>8. OfClasses(l, {"subscriber", "checkout", "term", "coupon"})
  BY <1>4, <1>6, <1>7 DEF OfClasses
<1>9. ASSUME NEW p \in 1..Len(l)
      PROVE  Asks(h, l, p - 1, l[p])
  <2>0. p - 1 \in Nat
    OBVIOUS
  <2>1. CASE p <= m
    <3>1. \A i \in 1..(p - 1) : l[i] = b[i]
      BY <1>2, <1>3, <2>1
    <3>2. Asks(h, b, p - 1, l[p])
      BY <1>2, <1>3, <2>1 DEF Obeys, m
    <3>. QED
      BY <2>0, <3>1, <3>2, AsksOfThePrefix
  <2>2. CASE ~(p <= m) /\ p <= m + n
    <3>. DEFINE k == ks[p - m]
    <3>1. l[p] = Row("checkout", k) /\ k \in K
      BY <1>6, <2>2
    <3>2. /\ l[p].class = "checkout" /\ l[p].id = k /\ ~l[p].shared
      BY <1>7, <3>1
    <3>3. \A i \in 1..(p - 1) : i <= m + n /\ i \in 1..Len(l)
      BY <1>2, <2>2
    <3>4. ASSUME NEW i \in 1..(p - 1)
          PROVE  l[i].class = "checkout" \/ (h = "order" /\ l[i].class = "subscriber")
      <4>1. CASE i <= m
        <5>1. i \in 1..m
          BY <1>2, <4>1
        <5>. QED
          BY <1>4, <5>1
      <4>2. CASE ~(i <= m)
        <5>1. l[i] = Row("checkout", ks[i - m])
          BY <1>6, <3>3, <4>2
        <5>. QED
          BY <1>7, <5>1
      <4>. QED
        BY <4>1, <4>2
    <3>5. \A i \in 1..(p - 1) : <<h, <<l[i].class, "checkout">>>> \in Orders
      BY <3>4 DEF Orders
    <3>6. h = "order" => Among(l, p - 1, Row("subscriber", OwnerOf[k]))
      <4>. SUFFICES ASSUME h = "order"
                    PROVE  Among(l, p - 1, Row("subscriber", OwnerOf[k]))
        OBVIOUS
      <4>1. Among(b, m, Row("subscriber", OwnerOf[k]))
        BY <3>1 DEF m
      <4>2. PICK i \in 1..m : b[i] = Row("subscriber", OwnerOf[k])
        BY <4>1 DEF Among
      <4>3. i \in 1..(p - 1) /\ l[i] = b[i]
        BY <1>2, <1>3, <2>2
      <4>. QED
        BY <4>2, <4>3 DEF Among
    <3>. HIDE DEF k
    <3>. QED
      BY <3>1, <3>2, <3>5, <3>6 DEF Asks
  <2>3. CASE ~(p <= m + n)
    <3>1. \A i \in 1..(p - 1) :
            \/ l[i].class \in {"checkout", "term", "coupon"}
            \/ h = "order" /\ l[i].class = "subscriber"
      <4>. SUFFICES ASSUME NEW i \in 1..(p - 1)
                    PROVE  \/ l[i].class \in {"checkout", "term", "coupon"}
                           \/ h = "order" /\ l[i].class = "subscriber"
        OBVIOUS
      <4>1. i \in 1..Len(l)
        BY <1>2, <1>3
      <4>2. CASE i <= m
        <5>1. i \in 1..m
          BY <1>2, <4>2
        <5>. QED
          BY <1>4, <5>1
      <4>3. CASE ~(i <= m)
        BY <1>6, <1>7, <4>1, <4>3
      <4>. QED
        BY <4>2, <4>3
    <3>2. \A d \in {"term", "coupon"} : \A i \in 1..(p - 1) : <<h, <<l[i].class, d>>>> \in Orders
      BY <3>1 DEF Orders
    <3>3. ASSUME NEW j \in 1..n, l[p] = Row("term", ks[j])
          PROVE  Asks(h, l, p - 1, l[p])
      <4>1. l[p].class = "term" /\ l[p].id = ks[j] /\ ~l[p].shared /\ ks[j] \in Checkouts
        BY <1>7, <3>3
      <4>2. m + j \in 1..(p - 1) /\ l[m + j] = Row("checkout", ks[j])
        BY <1>2, <1>5, <2>3
      <4>3. Among(l, p - 1, Row("checkout", ks[j]))
        BY <4>2 DEF Among
      <4>. QED
        BY <3>2, <4>1, <4>3 DEF Asks
    <3>4. ASSUME NEW c \in Coupons, l[p] = Row("coupon", c)
          PROVE  Asks(h, l, p - 1, l[p])
      <4>1. l[p].class = "coupon" /\ ~l[p].shared
        BY <1>7, <3>4
      <4>. QED
        BY <3>2, <4>1 DEF Asks
    <3>. QED
      <4>1. ~(p <= m)
        BY <1>2, <2>3
      <4>2. \/ \E j \in 1..n : l[p] = Row("term", ks[j])
            \/ \E c \in Coupons : l[p] = Row("coupon", c)
        BY <1>6, <2>3, <4>1
      <4>. QED
        BY <3>3, <3>4, <4>2
  <2>. QED
    BY <2>1, <2>2, <2>3
<1>10. Obeys(h, l) /\ Len(l) >= m /\ \A i \in 1..m : l[i] = b[i]
  BY <1>2, <1>3, <1>9 DEF Obeys
<1>. QED
  BY <1>8, <1>10 DEF l, m

\* The subscriber, what has lapsed of its checkouts, its term, a plan, a coupon.
LEMMA OrderRuns ==
  ASSUME ConstantsAssumption, NEW s \in Subscribers, NEW l \in Order(s)
  PROVE  Obeys("order", l) /\ Len(l) > 0
<1>. DEFINE K == {k \in Checkouts : OwnerOf[k] = s}
            w == Row("subscriber", s)
            v == Row("term", s)
            C == {"subscriber", "checkout", "term", "coupon"}
            Anchor == OneOf("subscriber", {s})
            Lapsed == Expiries(K)
            Current == NoneOr(OneOf("term", {s}))
            Plan == OneOf("plan", Plans)
            Coupon == NoneOr(OneOf("coupon", Coupons))
            Cleared == Anchor \odot Lapsed
            Closed == Cleared \odot Current
            Chosen == Closed \odot Plan
<1>1. l \in Chosen \odot Coupon
  BY DEF Order
<1>2. K \in SUBSET Checkouts /\ \A k \in K : Row("subscriber", OwnerOf[k]) = w
  OBVIOUS
<1>3. /\ w \in Lock /\ v \in Lock /\ w.class = "subscriber" /\ ~w.shared
      /\ v.class = "term" /\ v.id = s /\ ~v.shared
  BY LockTypes DEF Ids
<1>4. /\ \A id \in Plans : Row("plan", id) \in Lock
      /\ \A id \in Coupons : Row("coupon", id) \in Lock
      /\ \A id \in {s} : Row("subscriber", id) \in Lock
  BY LockTypes DEF Ids
<1>5. /\ \A a \in Anchor : Runs("order", a, {"subscriber"}) /\ a = <<w>>
      /\ \A t \in Current : t = <<>> \/ t = <<v>>
  BY <1>4, StartObeys DEF NoneOr, OneOf
<1>6. v = Row("term", s) /\ w = Row("subscriber", s)
  OBVIOUS
<1>. HIDE DEF Anchor, Lapsed, Current, Plan, Coupon, K, w, v, Cleared, Closed, Chosen
<1>7. PICK d \in Chosen, g \in Coupon : l = d \o g
  BY <1>1, Joined
<1>8. PICK c \in Closed, p \in Plan : d = c \o p
  BY Joined DEF Chosen
<1>9. PICK b \in Cleared, t \in Current : c = b \o t
  BY Joined DEF Closed
<1>10. PICK a \in Anchor, e \in Lapsed : b = a \o e
  BY Joined DEF Cleared
<1>11. /\ Obeys("order", a) /\ OfClasses(a, {"subscriber"}) /\ a \in Seq(Lock)
       /\ Len(a) = 1 /\ a[1] = w
  BY <1>3, <1>5 DEF Runs, Obeys
<1>12. /\ Obeys("order", b) /\ Len(b) >= 1 /\ OfClasses(b, C) /\ b[1] = w
       /\ b \in Seq(Lock) /\ Len(b) \in Nat
  <2>1. \A k \in K : Among(a, Len(a), Row("subscriber", OwnerOf[k]))
    BY <1>2, <1>11 DEF Among
  <2>2. e \in Expiries(K)
    BY DEF Lapsed
  <2>3. /\ Obeys("order", a \o e) /\ Len(a \o e) >= Len(a) /\ OfClasses(a \o e, C)
        /\ \A i \in 1..Len(a) : (a \o e)[i] = a[i]
    BY <1>2, <1>11, <2>1, <2>2, ExpiryRuns
  <2>. QED
    BY <1>10, <1>11, <2>3 DEF Obeys
<1>13. Runs("order", c, C)
  <2>1. CASE t = <<>>
    BY <1>9, <1>12, <2>1, ConcatEmptySeq DEF Runs
  <2>2. CASE t = <<v>>
    <3>1. Among(b, Len(b), Row("subscriber", s))
      BY <1>6, <1>12 DEF Among
    <3>2. \A i \in 1..Len(b) : <<"order", <<b[i].class, "term">>>> \in Orders
      BY <1>12 DEF OfClasses, Orders
    <3>3. Asks("order", b, Len(b), v)
      BY <1>3, <3>1, <3>2 DEF Asks
    <3>. DEFINE q == b \o <<v>>
    <3>4. /\ Obeys("order", q) /\ Len(q) = Len(b) + 1 /\ q[Len(b) + 1] = v
          /\ \A i \in 1..Len(b) : q[i] = b[i]
      BY <1>3, <1>12, <3>3, OneMoreObeys
    <3>5. q = c
      BY <1>9, <2>2
    <3>. HIDE DEF q
    <3>6. \A i \in 1..Len(q) : q[i].class \in C
      BY <1>3, <1>12, <3>4 DEF OfClasses
    <3>. QED
      BY <1>12, <3>4, <3>5, <3>6 DEF Runs, OfClasses
  <2>. QED
    BY <1>5, <2>1, <2>2
<1>14. MayFollow("order", C, {"plan"}) /\ MayFollow("order", C \union {"plan"}, {"coupon"})
  BY DEF MayFollow, Orders
<1>. HIDE DEF C
<1>15. Runs("order", d, C \union {"plan"})
  BY <1>4, <1>8, <1>13, <1>14, RowObeys DEF Plan
<1>16. Runs("order", l, (C \union {"plan"}) \union {"coupon"})
  BY <1>4, <1>7, <1>14, <1>15, MaybeRowObeys DEF Coupon
<1>. QED
  BY <1>16 DEF Runs

LEMMA SweepRuns ==
  ASSUME ConstantsAssumption, NEW e \in Expiries(Checkouts)
  PROVE  Obeys("sweep", e)
<1>. DEFINE K == Checkouts
<1>1. <<>> \in Seq(Lock) /\ Len(<<>>) = 0 /\ OfClasses(<<>>, {"subscriber"})
  BY EmptySeq DEF OfClasses
<1>2. K \in SUBSET Checkouts /\ e \in Expiries(K)
  OBVIOUS
<1>. HIDE DEF K
<1>3. Obeys("sweep", <<>> \o e)
  BY <1>1, <1>2, NothingObeys, ExpiryRuns
<1>4. e \in Seq(Lock)
  <2>1. \E n \in Nat : \E ks \in [1..n -> K], a \in Seq(Lock), r \in Seq(Lock) :
          /\ e = a \o r
          /\ Len(a) = n /\ \A i \in 1..n : a[i] = Row("checkout", ks[i])
          /\ \A i \in 1..Len(r) : \/ \E j \in 1..n : r[i] = Row("term", ks[j])
                                  \/ \E c \in Coupons : r[i] = Row("coupon", c)
    BY <1>2, ExpiryShape
  <2>2. PICK a \in Seq(Lock), r \in Seq(Lock) : e = a \o r
    BY <2>1
  <2>. QED
    BY <2>2, ConcatProperties
<1>. QED
  BY <1>3, <1>4, ConcatEmptySeq

\* What every handler keeps to, and that each takes something.
LEMMA JobsObey ==
  ASSUME ConstantsAssumption, NEW j \in Jobs
  PROVE  Obeys(j.handler, j.locks) /\ Len(j.locks) > 0
<1>. DEFINE Fine(h, l) == Obeys(h, l) /\ Len(l) > 0
<1>1. /\ \A k \in Checkouts : \A l \in Settlement(k) : Fine("settle", l)
      /\ \A s \in Subscribers : \A l \in Creation(s) : Fine("create", l)
      /\ \A s \in Subscribers : \A l \in Replacement(s) : Fine("replace", l)
      /\ \A s \in Subscribers : \A l \in Order(s) : Fine("order", l)
      /\ \A s \in Subscribers : \A l \in FreeActivation(s) : Fine("free", l)
      /\ \A c \in Coupons : \A l \in CouponEdit(c) : Fine("coupon", l)
      /\ \A p \in Plans : \A l \in PlanEdit(p) : Fine("plan", l)
      /\ \A l \in StorefrontSave : Fine("save", l)
      /\ \A l \in Single : Fine("single", l)
  BY SettlementRuns, CreationRuns, ReplacementRuns, OrderRuns, FreeActivationRuns,
     CouponEditRuns, PlanEditRuns, StorefrontSaveRuns, SingleRuns DEF Runs
<1>2. /\ \A l \in Expiries(Checkouts) \ {<<>>} : Fine("sweep", l)
      /\ \A l \in Naming : Fine("name", l)
  <2>1. ASSUME NEW h, NEW l, Obeys(h, l), l # <<>>
        PROVE  Len(l) > 0
    BY <2>1, EmptySeq DEF Obeys
  <2>. QED
    BY <2>1, SweepRuns, NamingObeys
<1>. HIDE DEF Fine
<1>3. Fine(j.handler, j.locks)
  BY <1>1, <1>2 DEF Jobs
<1>. QED
  BY <1>3 DEF Fine

-----------------------------------------------------------------------------
(* The invariant: a transaction is on its way through a handler, and no two *)
(* hold what conflicts.                                                    *)

Handlers ==
  {"settle", "create", "replace", "order", "free", "coupon", "plan", "sweep", "save", "name",
   "single"}

Transaction == [handler : Handlers, locks : Seq(Lock), wants : Seq(Lock)]

Exclusive ==
  \A x \in open : \A y \in open : x # y => \A i \in 1..Len(x.locks) : ~Conflicts(y, x.locks[i])

LocksInv ==
  /\ open \subseteq Transaction
  /\ \A x \in open : Len(x.locks) > 0
  /\ TypeOK
  /\ Exclusive

\* A handler begins with locks: these are its first, and it is not through if there are more.
LEMMA PrefixIsPointwise ==
  ASSUME NEW s \in Seq(Lock), NEW t \in Seq(Lock)
  PROVE  /\ IsPrefix(s, t) <=> Len(s) <= Len(t) /\ \A i \in 1..Len(s) : s[i] = t[i]
         /\ IsStrictPrefix(s, t) => IsPrefix(s, t) /\ Len(s) < Len(t)
<1>1. /\ Len(s) \in Nat /\ Len(t) \in Nat
      /\ SubSeq(s, 1, Len(s)) = s
      /\ Len(s) <= Len(t) =>
           /\ SubSeq(t, 1, Len(s)) \in Seq(Lock)
           /\ Len(SubSeq(t, 1, Len(s))) = Len(s)
           /\ \A i \in 1..Len(s) : SubSeq(t, 1, Len(s))[i] = t[i]
  OBVIOUS
<1>2. ASSUME Len(s) <= Len(t)
      PROVE  s = SubSeq(t, 1, Len(s)) <=> \A i \in 1..Len(s) : s[i] = t[i]
  <2>. DEFINE u == SubSeq(t, 1, Len(s))
  <2>1. u \in Seq(Lock) /\ Len(u) = Len(s) /\ \A i \in 1..Len(s) : u[i] = t[i]
    BY <1>1, <1>2
  <2>. HIDE DEF u
  <2>2. (\A i \in 1..Len(s) : s[i] = u[i]) => s = u
    BY <2>1, SeqEqual
  <2>. QED
    BY <2>1, <2>2 DEF u
<1>3. IsPrefix(s, t) <=> Len(s) <= Len(t) /\ \A i \in 1..Len(s) : s[i] = t[i]
  BY <1>1, <1>2 DEF IsPrefix
<1>4. ASSUME IsPrefix(s, t), Len(s) = Len(t)
      PROVE  s = t
  BY <1>3, <1>4, SeqEqual
<1>. QED
  BY <1>1, <1>3, <1>4 DEF IsStrictPrefix

LEMMA JobsAreHandlers ==
  ASSUME ConstantsAssumption, NEW j \in Jobs
  PROVE  j.handler \in Handlers /\ j.locks \in Seq(Lock) /\ Len(j.locks) > 0
<1>1. j.handler \in Handlers
  BY DEF Jobs, Handlers
<1>. QED
  BY <1>1, JobsObey DEF Obeys

\* One transaction x comes to y, whose locks are x's or one more that nobody else holds.
LEMMA BecomingKeeps ==
  ASSUME ConstantsAssumption, LocksInv, NEW x, NEW y \in Transaction, Len(y.locks) > 0,
         open' = (open \ {x}) \union {y},
         Len(y.wants) <= 1,
         \E j \in Jobs : j.handler = y.handler /\ IsPrefix(y.locks \o y.wants, j.locks),
         \A z \in open \ {x} : \A i \in 1..Len(y.locks) : ~Conflicts(z, y.locks[i])
  PROVE  LocksInv'
<1>1. /\ open' \subseteq Transaction
      /\ \A z \in open' : Len(z.locks) > 0
  BY DEF LocksInv
<1>2. \A z \in open' :
        /\ Len(z.wants) <= 1
        /\ \E j \in Jobs : j.handler = z.handler /\ IsPrefix(z.locks \o z.wants, j.locks)
  BY DEF LocksInv, TypeOK
<1>3. ASSUME NEW u \in open', NEW v \in open', u # v, NEW i \in 1..Len(u.locks)
      PROVE  ~Conflicts(v, u.locks[i])
  <2>1. CASE u \in open \ {x} /\ v \in open \ {x}
    BY <1>3, <2>1 DEF LocksInv, Exclusive
  <2>2. CASE u = y
    BY <1>3, <2>2
  <2>3. CASE v = y /\ u \in open \ {x}
    <3>1. \A p \in 1..Len(y.locks) : ~Conflicts(u, y.locks[p])
      BY <2>3
    <3>2. /\ DOMAIN u.locks = 1..Len(u.locks)
          /\ DOMAIN y.locks = 1..Len(y.locks)
      BY <1>1, <1>3 DEF Transaction
    <3>. QED
      BY <2>3, <3>1, <3>2 DEF Conflicts, Conflict
  <2>. QED
    BY <2>1, <2>2, <2>3
<1>. QED
  BY <1>1, <1>2, <1>3 DEF LocksInv, TypeOK, Exclusive

LEMMA TakingKeeps ==
  ASSUME ConstantsAssumption, LocksInv, NEW x \in open, NEW lock, Take(x, lock),
         NEW j \in Jobs, j.handler = x.handler, IsPrefix(x.locks, j.locks),
         Len(x.locks) < Len(j.locks), lock = j.locks[Len(x.locks) + 1]
  PROVE  LocksInv'
<1>1. /\ j.locks \in Seq(Lock) /\ x \in Transaction /\ x.locks \in Seq(Lock)
      /\ Len(x.locks) \in Nat /\ Len(j.locks) \in Nat
  BY JobsAreHandlers DEF LocksInv, Transaction
<1>2. lock \in Lock
  BY <1>1
<1>. DEFINE l == Append(x.locks, lock)
            y == [x EXCEPT !.locks = l, !.wants = <<>>]
<1>3. /\ l \in Seq(Lock) /\ Len(l) = Len(x.locks) + 1
      /\ \A i \in 1..Len(x.locks) : l[i] = x.locks[i]
      /\ l[Len(x.locks) + 1] = lock
  BY <1>1, <1>2
<1>4. open' = (open \ {x}) \union {y}
  BY DEF Take, Becomes
<1>5. /\ y \in Transaction /\ y.handler = x.handler /\ y.locks = l /\ y.wants = <<>>
  <2>. HIDE DEF l
  <2>1. <<>> \in Seq(Lock)
    BY EmptySeq
  <2>. QED
    BY <1>1, <1>3, <2>1 DEF Transaction
<1>. HIDE DEF l, y
<1>6. IsPrefix(y.locks \o y.wants, j.locks)
  <2>1. \A i \in 1..Len(x.locks) : x.locks[i] = j.locks[i]
    BY <1>1, PrefixIsPointwise
  <2>2. \A i \in 1..Len(l) : l[i] = j.locks[i]
    BY <1>1, <1>3, <2>1
  <2>3. IsPrefix(l, j.locks)
    BY <1>1, <1>3, <2>2, PrefixIsPointwise
  <2>4. l \o <<>> = l
    BY <1>3, ConcatEmptySeq
  <2>. QED
    BY <1>5, <2>3, <2>4
<1>7. ASSUME NEW z \in open \ {x}, NEW i \in 1..Len(y.locks)
      PROVE  ~Conflicts(z, y.locks[i])
  <2>1. CASE i = Len(x.locks) + 1
    BY <1>3, <1>5, <2>1 DEF Take, Unlocked
  <2>2. CASE i # Len(x.locks) + 1
    <3>1. i \in 1..Len(x.locks) /\ y.locks[i] = x.locks[i]
      BY <1>1, <1>3, <1>5, <2>2
    <3>. QED
      BY <3>1 DEF LocksInv, Exclusive
  <2>. QED
    BY <2>1, <2>2
<1>8. Len(y.locks) > 0 /\ Len(y.wants) <= 1
  BY <1>1, <1>3, <1>5
<1>. QED
  BY <1>4, <1>5, <1>6, <1>7, <1>8, BecomingKeeps

LEMMA WaitingKeeps ==
  ASSUME ConstantsAssumption, LocksInv, NEW x \in open, NEW lock, Wait(x, lock),
         NEW j \in Jobs, j.handler = x.handler, IsPrefix(x.locks, j.locks),
         Len(x.locks) < Len(j.locks), lock = j.locks[Len(x.locks) + 1]
  PROVE  LocksInv'
<1>1. /\ j.locks \in Seq(Lock) /\ x \in Transaction /\ x.locks \in Seq(Lock)
      /\ Len(x.locks) \in Nat /\ Len(j.locks) \in Nat
  BY JobsAreHandlers DEF LocksInv, Transaction
<1>2. lock \in Lock
  BY <1>1
<1>. DEFINE y == [x EXCEPT !.locks = x.locks, !.wants = <<lock>>]
            l == x.locks \o <<lock>>
<1>3. open' = (open \ {x}) \union {y}
  BY DEF Wait, Becomes
<1>4. /\ <<lock>> \in Seq(Lock) /\ Len(<<lock>>) = 1
      /\ y \in Transaction /\ y.handler = x.handler /\ y.locks = x.locks /\ y.wants = <<lock>>
  <2>1. <<lock>> \in Seq(Lock) /\ Len(<<lock>>) = 1
    BY <1>2
  <2>. DEFINE q == <<lock>>
  <2>2. q \in Seq(Lock) /\ y = [x EXCEPT !.locks = x.locks, !.wants = q]
    BY <2>1
  <2>. HIDE DEF q, y
  <2>3. y \in Transaction /\ y.handler = x.handler /\ y.locks = x.locks /\ y.wants = q
    BY <1>1, <2>2 DEF Transaction
  <2>. QED
    BY <2>1, <2>3 DEF q
<1>5. /\ l \in Seq(Lock) /\ Len(l) = Len(x.locks) + 1
      /\ \A i \in 1..Len(x.locks) : l[i] = x.locks[i]
      /\ l[Len(x.locks) + 1] = lock
  <2>1. <<lock>>[1] = lock
    OBVIOUS
  <2>. QED
    BY <1>1, <1>4, <2>1, ConcatProperties
<1>6. y.locks \o y.wants = l
  BY <1>4
<1>. HIDE DEF l, y
<1>7. IsPrefix(y.locks \o y.wants, j.locks)
  <2>1. \A i \in 1..Len(x.locks) : x.locks[i] = j.locks[i]
    BY <1>1, PrefixIsPointwise
  <2>2. \A i \in 1..Len(l) : l[i] = j.locks[i]
    BY <1>1, <1>5, <2>1
  <2>3. IsPrefix(l, j.locks)
    BY <1>1, <1>5, <2>2, PrefixIsPointwise
  <2>. QED
    BY <1>6, <2>3
<1>8. \A z \in open \ {x} : \A i \in 1..Len(y.locks) : ~Conflicts(z, y.locks[i])
  BY <1>4 DEF LocksInv, Exclusive
<1>9. Len(y.locks) > 0 /\ Len(y.wants) <= 1
  BY <1>4 DEF LocksInv
<1>. QED
  BY <1>3, <1>4, <1>7, <1>8, <1>9, BecomingKeeps

LEMMA BeginKeeps ==
  ASSUME ConstantsAssumption, LocksInv, NEW job \in Jobs, Begin(job)
  PROVE  LocksInv'
<1>. DEFINE w == Head(job.locks)
            y == [handler |-> job.handler, locks |-> <<w>>, wants |-> <<>>]
<1>1. /\ job.handler \in Handlers /\ job.locks \in Seq(Lock) /\ Len(job.locks) > 0
      /\ Len(job.locks) \in Nat
  BY JobsAreHandlers
<1>2. w \in Lock /\ w = job.locks[1]
  BY <1>1
<1>3. open' = (open \ {y}) \union {y} /\ \A z \in open \ {y} : ~Conflicts(z, w)
  BY DEF Begin, Unlocked
<1>. HIDE DEF w
<1>4. /\ <<w>> \in Seq(Lock) /\ Len(<<w>>) = 1 /\ <<w>>[1] = w
      /\ <<>> \in Seq(Lock) /\ Len(<<>>) = 0
  BY <1>2, EmptySeq
<1>5. y \in Transaction /\ y.handler = job.handler /\ y.locks = <<w>> /\ y.wants = <<>>
  BY <1>1, <1>4 DEF Transaction
<1>. HIDE DEF y
<1>6. IsPrefix(y.locks \o y.wants, job.locks)
  <2>1. <<w>> \o <<>> = <<w>>
    BY <1>4, ConcatEmptySeq
  <2>2. \A i \in 1..Len(<<w>>) : <<w>>[i] = job.locks[i]
    BY <1>2, <1>4
  <2>3. IsPrefix(<<w>>, job.locks)
    <3>. DEFINE v == <<w>>
    <3>1. v \in Seq(Lock) /\ Len(v) <= Len(job.locks) /\ \A i \in 1..Len(v) : v[i] = job.locks[i]
      BY <1>1, <1>4, <2>2
    <3>. HIDE DEF v
    <3>2. IsPrefix(v, job.locks)
      BY <1>1, <3>1, PrefixIsPointwise
    <3>. QED
      BY <3>2 DEF v
  <2>. QED
    BY <1>5, <2>1, <2>3
<1>7. \A z \in open \ {y} : \A i \in 1..Len(y.locks) : ~Conflicts(z, y.locks[i])
  BY <1>3, <1>4, <1>5
<1>8. Len(y.locks) > 0 /\ Len(y.wants) <= 1
  BY <1>4, <1>5
<1>. QED
  BY <1>3, <1>5, <1>6, <1>7, <1>8, BecomingKeeps

LEMMA LocksInit == Init => LocksInv
BY DEF Init, LocksInv, TypeOK, Exclusive

LEMMA LocksStep ==
  ASSUME ConstantsAssumption, LocksInv, [Next]_open
  PROVE  LocksInv'
<1>1. ASSUME NEW job \in Jobs, Begin(job)
      PROVE  LocksInv'
  BY <1>1, BeginKeeps
<1>2. ASSUME NEW x \in open, NEW lock \in Continuations(x), Take(x, lock) \/ Wait(x, lock)
      PROVE  LocksInv'
  <2>1. PICK j \in Jobs : /\ j.handler = x.handler /\ IsStrictPrefix(x.locks, j.locks)
                          /\ lock = j.locks[Len(x.locks) + 1]
    BY DEF Continuations
  <2>2. x.locks \in Seq(Lock) /\ j.locks \in Seq(Lock)
    BY JobsAreHandlers DEF LocksInv, Transaction
  <2>3. IsPrefix(x.locks, j.locks) /\ Len(x.locks) < Len(j.locks)
    BY <2>1, <2>2, PrefixIsPointwise
  <2>. QED
    BY <1>2, <2>1, <2>3, TakingKeeps, WaitingKeeps
<1>3. ASSUME NEW x \in open, Granted(x)
      PROVE  LocksInv'
  <2>. DEFINE w == Head(x.wants)
              l == x.locks \o <<w>>
  <2>1. /\ x.wants \in Seq(Lock) /\ x.locks \in Seq(Lock) /\ x.wants # <<>>
        /\ Len(x.wants) <= 1 /\ Take(x, w)
    BY <1>3 DEF LocksInv, Transaction, TypeOK, Granted
  <2>2. x.wants = <<w>> /\ w \in Lock
    BY <2>1
  <2>3. PICK j \in Jobs : j.handler = x.handler /\ IsPrefix(l, j.locks)
    BY <2>2 DEF LocksInv, TypeOK
  <2>. HIDE DEF w
  <2>4. /\ <<w>> \in Seq(Lock) /\ Len(<<w>>) = 1 /\ <<w>>[1] = w
    BY <2>2
  <2>5. /\ l \in Seq(Lock) /\ Len(l) = Len(x.locks) + 1 /\ Len(x.locks) \in Nat
        /\ \A i \in 1..Len(x.locks) : l[i] = x.locks[i]
        /\ l[Len(x.locks) + 1] = w
    BY <2>1, <2>4, ConcatProperties
  <2>. HIDE DEF l
  <2>6. j.locks \in Seq(Lock) /\ Len(j.locks) \in Nat
    BY JobsAreHandlers
  <2>7. Len(l) <= Len(j.locks) /\ \A i \in 1..Len(l) : l[i] = j.locks[i]
    BY <2>3, <2>5, <2>6, PrefixIsPointwise
  <2>8. /\ Len(x.locks) < Len(j.locks) /\ w = j.locks[Len(x.locks) + 1]
        /\ \A i \in 1..Len(x.locks) : x.locks[i] = j.locks[i]
    BY <2>5, <2>6, <2>7
  <2>9. IsPrefix(x.locks, j.locks)
    BY <2>1, <2>5, <2>6, <2>8, PrefixIsPointwise
  <2>. QED
    BY <2>1, <2>3, <2>8, <2>9, TakingKeeps
<1>4. ASSUME NEW x \in open, End(x)
      PROVE  LocksInv'
  <2>1. open' \subseteq open
    BY <1>4 DEF End
  <2>. QED
    BY <2>1 DEF LocksInv, TypeOK, Exclusive
<1>5. CASE UNCHANGED open
  BY <1>5 DEF LocksInv, TypeOK, Exclusive
<1>. QED
  BY <1>1, <1>2, <1>3, <1>4, <1>5 DEF Next

LEMMA LocksInvHolds ==
  ASSUME ConstantsAssumption
  PROVE  Spec => []LocksInv
<1>1. LocksInv /\ [Next]_open => LocksInv'
  BY LocksStep
<1>. QED
  BY <1>1, LocksInit, PTL DEF Spec

\* A transaction is on its way through a handler.
THEOREM LocksAreTaken == ASSUME ConstantsAssumption PROVE Spec => []TypeOK
<1>1. LocksInv => TypeOK
  BY DEF LocksInv
<1>. QED
  BY <1>1, LocksInvHolds, PTL

-----------------------------------------------------------------------------
(* Circles.  S is a circle in which nobody waits backwards.                 *)

Wanted(x) == Head(x.wants)

\* What each of S has and waits for.
Waiters(S) ==
  \A x \in S :
    /\ Obeys(x.handler, x.locks) /\ Len(x.locks) \in Nat /\ Len(x.locks) > 0
    /\ Wanted(x) \in Lock
    /\ Asks(x.handler, x.locks, Len(x.locks), Wanted(x))
    /\ \E y \in S : x # y /\ \E p \in 1..Len(y.locks) : Conflict(y.locks[p], Wanted(x))

Forwards(S) == \A x \in S : <<x.handler, Wanted(x).class>> \notin Backwards

\* Two that hold one row are one.
Apart(S) ==
  \A x \in S : \A y \in S : \A p \in 1..Len(x.locks) : \A q \in 1..Len(y.locks) :
    Conflict(x.locks[p], y.locks[q]) => x = y

LEMMA OnTheWay ==
  ASSUME ConstantsAssumption, LocksInv, NEW x \in open
  PROVE  /\ Obeys(x.handler, x.locks) /\ Len(x.locks) \in Nat /\ Len(x.locks) > 0
         /\ x.wants # <<>> =>
              /\ Wanted(x) \in Lock
              /\ x.wants = <<Wanted(x)>>
              /\ Asks(x.handler, x.locks, Len(x.locks), Wanted(x))
<1>. DEFINE l == x.locks
            w == x.wants
            n == Len(x.locks)
<1>1. /\ l \in Seq(Lock) /\ w \in Seq(Lock) /\ n \in Nat /\ n > 0 /\ n = Len(l)
      /\ Len(w) <= 1 /\ Len(w) \in Nat
  BY DEF LocksInv, Transaction, TypeOK
<1>2. PICK j \in Jobs : j.handler = x.handler /\ IsPrefix(l \o w, j.locks)
  BY DEF LocksInv, TypeOK
<1>3. Obeys(x.handler, j.locks) /\ j.locks \in Seq(Lock)
  BY <1>2, JobsObey DEF Obeys
<1>. DEFINE k == j.locks
            a == l \o w
            h == x.handler
<1>. HIDE DEF l, w, n
<1>4. /\ a \in Seq(Lock) /\ Len(a) = n + Len(w)
      /\ \A i \in 1..Len(a) : a[i] = IF i <= n THEN l[i] ELSE w[i - n]
  BY <1>1, ConcatProperties
<1>5. /\ k \in Seq(Lock) /\ Obeys(h, k) /\ IsPrefix(a, k) /\ Len(k) \in Nat
  BY <1>2, <1>3
<1>. HIDE DEF a, k, h
<1>6. Len(a) <= Len(k) /\ \A i \in 1..Len(a) : a[i] = k[i]
  BY <1>4, <1>5, PrefixIsPointwise
<1>7. n <= Len(k) /\ \A i \in 1..n : l[i] = k[i]
  BY <1>1, <1>4, <1>6
<1>8. Obeys(h, l)
  <2>. SUFFICES ASSUME NEW p \in 1..n
                PROVE  Asks(h, l, p - 1, l[p])
    BY <1>1 DEF Obeys
  <2>1. p - 1 \in Nat /\ \A i \in 1..(p - 1) : l[i] = k[i]
    BY <1>1, <1>7
  <2>2. Asks(h, k, p - 1, l[p])
    BY <1>1, <1>5, <1>7 DEF Obeys
  <2>. QED
    BY <2>1, <2>2, AsksOfThePrefix
<1>9. ASSUME w # <<>>
      PROVE  Head(w) \in Lock /\ w = <<Head(w)>> /\ Asks(h, l, n, Head(w))
  <2>0. Len(w) = 1
    <3>. DEFINE m == Len(w)
    <3>1. m \in Nat /\ m <= 1 /\ m # 0
      BY <1>1, <1>9, EmptySeq
    <3>. HIDE DEF m
    <3>2. m = 1
      BY <3>1
    <3>. QED
      BY <3>2 DEF m
  <2>1. Len(w) = 1 /\ Head(w) \in Lock /\ w = <<Head(w)>> /\ Head(w) = w[1]
    <3>. DEFINE v == w[1]
                q == <<v>>
    <3>1. w \in Seq(Lock) /\ Len(w) = 1
      BY <1>1, <2>0
    <3>2. Head(w) = v /\ v \in Lock
      BY <3>1
    <3>3. q \in Seq(Lock) /\ Len(q) = 1 /\ q[1] = v
      BY <3>2
    <3>4. w = q
      <4>. HIDE DEF q
      <4>. QED
        BY <3>1, <3>3, SeqEqual
    <3>. QED
      BY <2>0, <3>2, <3>4
  <2>2. n + 1 \in 1..Len(k) /\ k[n + 1] = Head(w)
    <3>1. n + 1 \in 1..Len(a) /\ ~(n + 1 <= n) /\ (n + 1) - n = 1
      BY <1>1, <1>4, <2>1
    <3>2. a[n + 1] = w[1]
      BY <1>4, <3>1
    <3>. QED
      BY <1>1, <1>5, <1>6, <2>1, <3>1, <3>2
  <2>3. Asks(h, k, n, Head(w))
    <3>1. (n + 1) - 1 = n
      BY <1>1
    <3>. QED
      BY <1>5, <2>2, <3>1 DEF Obeys
  <2>. QED
    BY <1>1, <1>7, <2>1, <2>3, AsksOfThePrefix
<1>. QED
  BY <1>1, <1>8, <1>9 DEF l, w, n, h, Wanted

LEMMA StuckWait ==
  ASSUME ConstantsAssumption, LocksInv, NEW S \in SUBSET open, Stuck(S)
  PROVE  Waiters(S) /\ Apart(S)
<1>1. ASSUME NEW x \in S
      PROVE  /\ Obeys(x.handler, x.locks) /\ Len(x.locks) \in Nat /\ Len(x.locks) > 0
             /\ Wanted(x) \in Lock
             /\ Asks(x.handler, x.locks, Len(x.locks), Wanted(x))
             /\ \E y \in S : x # y /\ \E p \in 1..Len(y.locks) : Conflict(y.locks[p], Wanted(x))
  <2>1. PICK y \in S : WaitsFor(x, y)
    BY DEF Stuck
  <2>2. PICK i \in DOMAIN x.wants : Conflicts(y, x.wants[i])
    BY <2>1 DEF WaitsFor
  <2>3. x \in Transaction /\ y \in Transaction
    BY DEF LocksInv
  <2>4. x.wants # <<>>
    BY <2>2, <2>3 DEF Transaction
  <2>5. /\ Obeys(x.handler, x.locks) /\ Len(x.locks) \in Nat /\ Len(x.locks) > 0
        /\ Wanted(x) \in Lock
        /\ x.wants = <<Wanted(x)>>
        /\ Asks(x.handler, x.locks, Len(x.locks), Wanted(x))
    BY <2>4, OnTheWay
  <2>6. x.wants[i] = Wanted(x)
    BY <2>2, <2>5
  <2>7. \E p \in 1..Len(y.locks) : Conflict(y.locks[p], Wanted(x))
    BY <2>2, <2>3, <2>6 DEF Conflicts, Transaction
  <2>. QED
    BY <2>1, <2>5, <2>7 DEF WaitsFor
<1>2. ASSUME NEW x \in S, NEW y \in S, NEW p \in 1..Len(x.locks), NEW q \in 1..Len(y.locks),
             Conflict(x.locks[p], y.locks[q])
      PROVE  x = y
  <2>1. Conflict(y.locks[q], x.locks[p])
    BY <1>2 DEF Conflict
  <2>2. q \in DOMAIN y.locks
    BY DEF LocksInv, Transaction
  <2>3. Conflicts(y, x.locks[p])
    BY <2>1, <2>2 DEF Conflicts
  <2>. QED
    BY <2>3 DEF LocksInv, Exclusive
<1>. QED
  BY <1>1, <1>2 DEF Waiters, Apart

\* A term is held by who holds its anchor, or by a free plan on its way to it.
LEMMA NoTermIsAwaited ==
  ASSUME ConstantsAssumption, NEW S, Waiters(S), Apart(S), Forwards(S), NEW x \in S
  PROVE  Wanted(x).class # "term"
<1>. SUFFICES ASSUME Wanted(x).class = "term"
              PROVE  FALSE
  OBVIOUS
<1>. DEFINE w == Wanted(x)
            n == Len(x.locks)
<1>1. /\ w \in Lock /\ n \in Nat /\ n > 0 /\ Asks(x.handler, x.locks, n, w) /\ w.class = "term"
  BY DEF Waiters
<1>0. PICK y \in S : x # y /\ \E p \in 1..Len(y.locks) : Conflict(y.locks[p], w)
  BY DEF Waiters
<1>2. PICK p \in 1..Len(y.locks) : x # y /\ Conflict(y.locks[p], w)
  BY <1>0
<1>. DEFINE t == y.locks[p]
<1>3. /\ Obeys(y.handler, y.locks) /\ Len(y.locks) \in Nat /\ Len(y.locks) > 0
      /\ Asks(y.handler, y.locks, Len(y.locks), Wanted(y))
      /\ <<y.handler, Wanted(y).class>> \notin Backwards
  BY DEF Waiters, Forwards
<1>4. Asks(y.handler, y.locks, p - 1, t) /\ p \in Nat /\ p > 0
  BY <1>3 DEF Obeys
<1>5. t.class = "term" /\ t.id = w.id
  BY <1>1, <1>2 DEF Conflict
<1>. HIDE DEF w, n, t
<1>6. /\ x.handler # "single"
      /\ y.handler # "single"
  <2>1. \A c, d : <<"single", <<c, d>>>> \notin Orders
    BY DEF Orders
  <2>2. 1 \in 1..n /\ 1 \in 1..Len(y.locks)
    BY <1>1, <1>3
  <2>. QED
    BY <1>1, <1>3, <2>1, <2>2 DEF Asks
<1>7. \E c \in {"checkout", "subscriber"} : \E a :
        /\ Among(x.locks, n, Row(c, a)) /\ a = w.id
        /\ (c = "checkout" /\ a \in Checkouts) \/ (c = "subscriber" /\ a \in Subscribers)
  BY <1>1, <1>6 DEF Asks
<1>8. PICK c \in {"checkout", "subscriber"}, i \in 1..n :
        /\ x.locks[i] = Row(c, w.id)
        /\ (c = "checkout" /\ w.id \in Checkouts) \/ (c = "subscriber" /\ w.id \in Subscribers)
  BY <1>7 DEF Among
<1>9. \E d \in {"checkout", "subscriber"}, q \in 1..Len(y.locks) :
        /\ y.locks[q] = Row(d, w.id)
        /\ (d = "checkout" /\ w.id \in Checkouts) \/ (d = "subscriber" /\ w.id \in Subscribers)
  <2>1. CASE t.id \in Checkouts /\ Among(y.locks, p - 1, Row("checkout", t.id))
    <3>1. PICK q \in 1..(p - 1) : y.locks[q] = Row("checkout", t.id)
      BY <2>1 DEF Among
    <3>2. q \in 1..Len(y.locks)
      BY <1>3, <1>4
    <3>. QED
      BY <1>5, <2>1, <3>1, <3>2
  <2>2. CASE t.id \in Subscribers /\ Among(y.locks, p - 1, Row("subscriber", t.id))
    <3>1. PICK q \in 1..(p - 1) : y.locks[q] = Row("subscriber", t.id)
      BY <2>2 DEF Among
    <3>2. q \in 1..Len(y.locks)
      BY <1>3, <1>4
    <3>. QED
      BY <1>5, <2>2, <3>1, <3>2
  <2>3. CASE t.id \in Subscribers /\ y.handler = "free" /\ p - 1 = 0
    <3>1. p = 1 /\ t = y.locks[1]
      BY <1>4, <2>3 DEF t
    <3>2. CASE Len(y.locks) = 1
      <4>1. Wanted(y) = Row("subscriber", y.locks[1].id)
        BY <1>3, <2>3, <3>2 DEF Asks
      <4>2. <<y.handler, Wanted(y).class>> \in Backwards
        BY <2>3, <4>1, LockTypes DEF Backwards
      <4>. QED
        BY <1>3, <4>2
    <3>3. CASE Len(y.locks) # 1
      <4>1. 2 \in 1..Len(y.locks) /\ 2 - 1 = 1
        <5>. DEFINE m == Len(y.locks)
        <5>1. m \in Nat /\ m > 0 /\ m # 1
          BY <1>3, <3>3
        <5>. HIDE DEF m
        <5>2. 2 \in 1..m /\ 2 - 1 = 1
          BY <5>1
        <5>. QED
          BY <5>2 DEF m
      <4>2. Asks("free", y.locks, 1, y.locks[2])
        BY <1>3, <2>3, <4>1 DEF Obeys
      <4>3. y.locks[2] = Row("subscriber", t.id)
        BY <3>1, <4>2 DEF Asks
      <4>. QED
        BY <1>5, <2>3, <4>1, <4>3
    <3>. QED
      BY <3>2, <3>3
  <2>. QED
    BY <1>4, <1>5, <1>6, <2>1, <2>2, <2>3 DEF Asks
<1>10. PICK d \in {"checkout", "subscriber"}, q \in 1..Len(y.locks) :
         /\ y.locks[q] = Row(d, w.id)
         /\ (d = "checkout" /\ w.id \in Checkouts) \/ (d = "subscriber" /\ w.id \in Subscribers)
  BY <1>9
<1>11. c = d
  BY <1>8, <1>10 DEF ConstantsAssumption
<1>12. Conflict(x.locks[i], y.locks[q])
  BY <1>8, <1>10, <1>11, LockTypes DEF Conflict
<1>13. i \in 1..Len(x.locks)
  BY DEF n
<1>. QED
  BY <1>2, <1>12, <1>13 DEF Apart

\* A checkout is held by who holds its subscriber, or by a sweep that waits for its term.
LEMMA NoCheckoutIsAwaited ==
  ASSUME ConstantsAssumption, NEW S, Waiters(S), Apart(S), Forwards(S), NEW x \in S
  PROVE  Wanted(x).class # "checkout"
<1>. SUFFICES ASSUME Wanted(x).class = "checkout"
              PROVE  FALSE
  OBVIOUS
<1>. DEFINE w == Wanted(x)
            n == Len(x.locks)
<1>1. /\ w \in Lock /\ n \in Nat /\ n > 0 /\ Asks(x.handler, x.locks, n, w)
      /\ w.class = "checkout" /\ <<x.handler, "checkout">> \notin Backwards
  BY DEF Waiters, Forwards
<1>0. PICK y \in S : x # y /\ \E p \in 1..Len(y.locks) : Conflict(y.locks[p], w)
  BY DEF Waiters
<1>2. PICK p \in 1..Len(y.locks) : x # y /\ Conflict(y.locks[p], w)
  BY <1>0
<1>. DEFINE t == y.locks[p]
            v == Wanted(y)
<1>3. /\ Obeys(y.handler, y.locks) /\ Len(y.locks) \in Nat /\ Len(y.locks) > 0
      /\ v \in Lock
      /\ Asks(y.handler, y.locks, Len(y.locks), v)
      /\ <<y.handler, v.class>> \notin Backwards /\ v.class # "term"
  BY NoTermIsAwaited DEF Waiters, Forwards
<1>4. Asks(y.handler, y.locks, p - 1, t) /\ p \in Nat /\ p > 0
  BY <1>3 DEF Obeys
<1>5. t.class = "checkout" /\ t.id = w.id
  BY <1>1, <1>2 DEF Conflict
<1>6. <<y.handler, <<"checkout", v.class>>>> \in Orders
  BY <1>3, <1>5 DEF Asks
<1>. HIDE DEF w, n, t, v
<1>7. x.handler \in {"settle", "order"}
  <2>1. 1 \in 1..n
    BY <1>1
  <2>2. <<x.handler, <<x.locks[1].class, "checkout">>>> \in Orders
    BY <1>1, <2>1 DEF Asks
  <2>. QED
    BY <1>1, <2>2 DEF Orders, Backwards
<1>8. y.handler \in {"settle", "order"}
  BY <1>3, <1>6 DEF Orders, Backwards
<1>9. PICK i \in 1..n : x.locks[i] = Row("subscriber", OwnerOf[w.id])
  BY <1>1, <1>7 DEF Asks, Among
<1>10. PICK q \in 1..(p - 1) : y.locks[q] = Row("subscriber", OwnerOf[w.id])
  BY <1>4, <1>5, <1>8 DEF Asks, Among
<1>11. i \in 1..Len(x.locks) /\ q \in 1..Len(y.locks)
  BY <1>3, <1>4 DEF n
<1>12. Conflict(x.locks[i], y.locks[q])
  BY <1>9, <1>10, LockTypes DEF Conflict
<1>. QED
  BY <1>2, <1>11, <1>12 DEF Apart

\* What is left is waited for upwards, a shared lock above the same one.
Height(lock) ==
  (CASE lock.class = "subscriber" -> 0
     [] lock.class = "plan" -> 2
     [] lock.class = "coupon" -> 4
     [] lock.class = "item" -> 4
     [] OTHER -> 6)
  + (IF lock.shared THEN 1 ELSE 0)

LEMMA HeightsRise ==
  ASSUME ConstantsAssumption, NEW S, Waiters(S), Apart(S), Forwards(S), NEW x \in S
  PROVE  /\ Height(Wanted(x)) \in 0..7
         /\ \E y \in S : Height(Wanted(x)) < Height(Wanted(y))
<1>. DEFINE w == Wanted(x)
<1>1. w \in Lock
  BY DEF Waiters
<1>0. PICK y \in S : x # y /\ \E p \in 1..Len(y.locks) : Conflict(y.locks[p], w)
  BY DEF Waiters
<1>2. PICK p \in 1..Len(y.locks) : x # y /\ Conflict(y.locks[p], w)
  BY <1>0
<1>. DEFINE t == y.locks[p]
            v == Wanted(y)
            h == y.handler
<1>3. /\ Obeys(h, y.locks) /\ Len(y.locks) \in Nat /\ Len(y.locks) > 0
      /\ v \in Lock
      /\ Asks(h, y.locks, Len(y.locks), v)
      /\ <<h, v.class>> \notin Backwards /\ v.class \notin {"term", "checkout"}
  BY NoTermIsAwaited, NoCheckoutIsAwaited DEF Waiters, Forwards
<1>4. w.class \notin {"term", "checkout"}
  BY NoTermIsAwaited, NoCheckoutIsAwaited
<1>5. t.class = w.class /\ ~(t.shared /\ w.shared)
  BY <1>2 DEF Conflict
<1>6. /\ Asks(h, y.locks, p - 1, t)
      /\ <<h, <<w.class, v.class>>>> \in Orders
      /\ h = "name" => v.shared
  BY <1>3, <1>5 DEF Obeys, Asks
<1>7. h = "name" => ~w.shared
  BY <1>5, <1>6 DEF Asks
<1>. HIDE DEF w, t, v, h
<1>8. /\ w.class \in {"subscriber", "plan", "coupon", "item", "storefront"} /\ w.shared \in BOOLEAN
      /\ v.class \in {"subscriber", "plan", "coupon", "item", "storefront"} /\ v.shared \in BOOLEAN
  BY <1>1, <1>3, <1>4 DEF Lock
<1>9. \/ h = "name" /\ v.class = w.class
      \/ w.class = "subscriber" /\ v.class \in {"plan", "coupon", "item", "storefront"}
      \/ w.class = "plan" /\ v.class \in {"coupon", "item", "storefront"}
      \/ w.class = "item" /\ v.class = "storefront"
  BY <1>3, <1>4, <1>6, <1>8 DEF Orders, Backwards
<1>10. Height(w) \in 0..7 /\ Height(w) < Height(v)
  BY <1>6, <1>7, <1>8, <1>9 DEF Height
<1>. QED
  BY <1>10 DEF w, v

LEMMA SomeoneWaitsBackwards ==
  ASSUME ConstantsAssumption, LocksInv, NEW S \in SUBSET open, Stuck(S)
  PROVE  ~Forwards(S)
<1>. SUFFICES ASSUME Forwards(S) PROVE FALSE
  OBVIOUS
<1>1. Waiters(S) /\ Apart(S)
  BY StuckWait
<1>2. ASSUME NEW x \in S
      PROVE  Height(Wanted(x)) \in 0..7 /\ \E y \in S : Height(Wanted(x)) < Height(Wanted(y))
  BY <1>1, HeightsRise
<1>. DEFINE D == {d \in Nat : \E x \in S : d = 7 - Height(Wanted(x))}
<1>3. D \subseteq Nat /\ D # {}
  <2>1. PICK x \in S : TRUE
    BY DEF Stuck
  <2>2. 7 - Height(Wanted(x)) \in Nat
    BY <1>2
  <2>. QED
    BY <2>2
<1>4. PICK d \in D : \A e \in D : ~ (<<e, d>> \in OpToRel(<, Nat))
  <2>. HIDE DEF D
  <2>. QED
    BY <1>3, NatLessThanWellFounded, WFMin
<1>5. PICK x \in S : d = 7 - Height(Wanted(x))
  OBVIOUS
<1>6. PICK y \in S : Height(Wanted(x)) < Height(Wanted(y))
  BY <1>2
<1>7. 7 - Height(Wanted(y)) \in D /\ d \in Nat /\ 7 - Height(Wanted(y)) < d
  BY <1>2, <1>5, <1>6
<1>. QED
  BY <1>4, <1>7 DEF OpToRel

LEMMA KnownCircles ==
  ASSUME ConstantsAssumption, LocksInv
  PROVE  CirclesAreKnown
<1>. SUFFICES ASSUME NEW S \in SUBSET open, Circle(S)
              PROVE  \E x \in S : <<x.handler, Head(x.wants).class>> \in Backwards
  BY DEF CirclesAreKnown
<1>. QED
  BY SomeoneWaitsBackwards DEF Circle, Forwards, Wanted

\* In every circle of transactions that wait for each other one waits backwards: nobody but
\* the free plan, the expiry and the edits of coupon and storefront need ever be aborted.
THEOREM CirclesStayKnown == ASSUME ConstantsAssumption PROVE Spec => []CirclesAreKnown
<1>1. LocksInv => CirclesAreKnown
  BY KnownCircles
<1>. QED
  BY <1>1, LocksInvHolds, PTL

-----------------------------------------------------------------------------
(* Notifications.                                                          *)

\* The instance's copies of the library's operators are the library's.
LEMMA SameOperators ==
  /\ \A S : Notify!IsFiniteSet(S) <=> IsFiniteSet(S)
  /\ \A S : Notify!Cardinality(S) = Cardinality(S)
  /\ \A S : Notify!Min(S) = Min(S)
  /\ \A S : Notify!SetToSeqs(S) = SetToSeqs(S)
<1>1. \A S : Notify!IsFiniteSet(S) <=> IsFiniteSet(S)
  BY Zenon DEF Notify!IsFiniteSet, IsFiniteSet
<1>2. \A S : Notify!Cardinality(S) = Cardinality(S)
  BY Zenon DEF Notify!Cardinality, Cardinality
<1>3. \A S : Notify!Min(S) = Min(S)
  BY Zenon DEF Notify!Min, Min
<1>4. \A S : Notify!SetToSeqs(S) = SetToSeqs(S)
  BY <1>2, Zenon DEF Notify!SetToSeqs, SetToSeqs
<1>. QED
  BY <1>1, <1>2, <1>3, <1>4

\* What a dispatch may rely on between reading the recipients and its commit: the notice is
\* locked by it alone, and has still to be sent.
Dispatching(a) ==
  LET n == sending[a].notice
  IN  /\ n \in Notices
      /\ Notify!Dispatchable(n)
      /\ \A b \in Notify!Actors : sending[b].notice = n => b = a

OpenDispatches == \A a \in Notify!Actors : sending[a] # Notify!Idle => Dispatching(a)

\* Nobody has a delivery of a notice that was not sent.
UnsentIsEmpty ==
  \A n \in Notices :
    notice[n].status \notin {"processing", "sent"} => deliveries[n] = {}

NoticesInv ==
  /\ Notify!TypeOK /\ OpenDispatches /\ UnsentIsEmpty
  /\ Notify!AnnouncedOnce /\ Notify!CancelledIsSilent

-----------------------------------------------------------------------------
\* The recipients of a notice can be counted.
LEMMA CountType ==
  ASSUME Notify!ConstantsAssumption, NEW n \in Notices, NEW S \in SUBSET Audience
  PROVE  [notice |-> n, count |-> Notify!Cardinality(S)] \in Notify!Counts
<1>0. IsFiniteSet(Audience)
  BY SameOperators DEF Notify!ConstantsAssumption
<1>1. /\ IsFiniteSet(S) /\ Cardinality(S) <= Cardinality(Audience)
  BY <1>0, FS_Subset
<1>2. Cardinality(S) \in Nat /\ Cardinality(Audience) \in Nat
  BY <1>0, <1>1, FS_CardinalityType
<1>. QED
  BY <1>1, <1>2, SameOperators DEF Notify!Counts

\* A list of some of a set, cut at a limit, is a list of that set.
LEMMA CutList ==
  ASSUME NEW S, NEW k \in Nat, NEW D \in SUBSET S, NEW s \in [1..k -> D],
         NEW limit \in Nat
  PROVE  SubSeq(s, 1, Min({Len(s), limit})) \in Seq(S)
<1>1. s \in Seq(D) /\ Len(s) = k
  BY SeqDef
<1>. DEFINE m == Min({k, limit})
<1>2. m \in 0..k
  <2>1. \E x \in {k, limit} : \A y \in {k, limit} : x <= y
    OBVIOUS
  <2>2. m \in {k, limit} /\ m <= k
    BY <2>1 DEF Min
  <2>. QED BY <2>2
<1>. HIDE DEF m
<1>3. \A i \in 1..m : s[i] \in S
  BY <1>2
<1>4. SubSeq(s, 1, m) \in Seq(S)
  BY <1>2, <1>3, SubSeqProperties
<1>. QED
  BY <1>1, <1>4 DEF m

\* The job's list is a list of notices.
LEMMA ListType ==
  ASSUME Notify!ConstantsAssumption, NEW list \in Notify!DueLists
  PROVE  list \in Seq(Notices)
<1>. DEFINE D == {n \in Notices : Notify!Due(n)}
<1>1. PICK s \in SetToSeqs(D) : list = SubSeq(s, 1, Min({Len(s), Limit}))
  BY SameOperators DEF Notify!DueLists
<1>2. Cardinality(D) \in Nat
  <2>1. IsFiniteSet(Notices)
    BY SameOperators DEF Notify!ConstantsAssumption
  <2>. QED
    BY <2>1, FS_Subset, FS_CardinalityType
<1>3. s \in [1..Cardinality(D) -> D]
  BY DEF SetToSeqs
<1>4. Limit \in Nat /\ D \in SUBSET Notices
  BY DEF Notify!ConstantsAssumption
<1>. HIDE DEF D
<1>. QED
  BY <1>1, <1>2, <1>3, <1>4, CutList

LEMMA NoticesInit ==
  ASSUME Notify!ConstantsAssumption
  PROVE  Notify!Init => NoticesInv
BY DEF Notify!ConstantsAssumption, Notify!Init, NoticesInv, UnsentIsEmpty, Notify!TypeOK,
       OpenDispatches, Notify!AnnouncedOnce, Notify!CancelledIsSilent, Notify!Times,
       Notify!Statuses, Notify!Idle

\* A dispatch that begins locks a notice nobody has locked, and writes nothing.
LEMMA DispatchKeeps ==
  ASSUME Notify!ConstantsAssumption, NoticesInv, NEW a \in Notify!Actors, NEW n \in Notices,
         Notify!Begin(a, n),
         due' \in Seq(Notices)
  PROVE  NoticesInv'
<1>. USE DEF NoticesInv
<1>. DEFINE x == [notice |-> n, to |-> Notify!Recipients(n)]
<1>1. /\ sending' = [sending EXCEPT ![a] = x]
      /\ sending'[a] = x
      /\ \A b \in Notify!Actors : b # a => sending'[b] = sending[b]
      /\ UNCHANGED <<now, notice, deliveries, announced, active, holders, crashes>>
      /\ Notify!Unlocked(n) /\ Notify!Dispatchable(n)
  BY DEF Notify!Begin, Notify!TypeOK
<1>2. Notify!Recipients(n) \in SUBSET Audience
  BY DEF Notify!Recipients, Notify!TypeOK
<1>3. Notify!TypeOK'
  BY <1>1, <1>2 DEF Notify!TypeOK
<1>4. OpenDispatches'
  <2>. SUFFICES ASSUME NEW b \in Notify!Actors, sending'[b] # Notify!Idle
                PROVE  Dispatching(b)'
    BY DEF OpenDispatches
  <2>1. CASE b = a
    BY <2>1, <1>1 DEF Dispatching, Notify!Dispatchable, Notify!Unlocked
  <2>2. CASE b # a
    BY <2>2, <1>1 DEF OpenDispatches, Dispatching, Notify!Dispatchable, Notify!Unlocked
  <2>. QED BY <2>1, <2>2
<1>5. Notify!CancelledIsSilent'
  BY <1>1 DEF Notify!CancelledIsSilent, Notify!Unlocked, Notify!Dispatchable
<1>. QED
  BY <1>1, <1>3, <1>4, <1>5 DEF Notify!AnnouncedOnce, UnsentIsEmpty

\* The commit sends what has still to be sent, once.
LEMMA SendKeeps ==
  ASSUME Notify!ConstantsAssumption, NoticesInv, NEW a \in Notify!Actors, Notify!Commit(a)
  PROVE  NoticesInv'
<1>. USE DEF NoticesInv
<1>. DEFINE n == sending[a].notice
            to == sending[a].to
            e == [notice |-> n, count |-> Notify!Cardinality(to)]
<1>1. /\ Dispatching(a) /\ n \in Notices /\ to \in SUBSET Audience
  BY DEF Notify!Commit, OpenDispatches, Dispatching, Notify!TypeOK
<1>2. /\ deliveries' = [deliveries EXCEPT ![n] = to]
      /\ notice' = [notice EXCEPT ![n].status = Notify!StatusAfter(to)]
      /\ announced' = announced \union {e}
      /\ sending' = [sending EXCEPT ![a] = Notify!Idle]
      /\ UNCHANGED <<now, active, holders, due, crashes>>
  BY DEF Notify!Commit
<1>3. Notify!StatusAfter(to) \in {"processing", "sent"}
  BY DEF Notify!StatusAfter
<1>4. /\ deliveries'[n] = to
      /\ notice'[n].status = Notify!StatusAfter(to)
      /\ \A m \in Notices : m # n => deliveries'[m] = deliveries[m] /\ notice'[m] = notice[m]
      /\ sending'[a] = Notify!Idle
      /\ \A b \in Notify!Actors : b # a => sending'[b] = sending[b]
  BY <1>1, <1>2 DEF Notify!TypeOK
<1>5. e \in Notify!Counts
  BY <1>1, CountType
<1>6. Notify!TypeOK'
  <2>1. notice' \in [Notices -> [status : Notify!Statuses, at : Notify!Times]]
    BY <1>1, <1>2, <1>3 DEF Notify!TypeOK, Notify!Statuses
  <2>2. sending' \in [Notify!Actors -> [notice : Notices \union {NoNotice}, to : SUBSET Audience]]
    BY <1>2 DEF Notify!TypeOK, Notify!Idle
  <2>. QED
    BY <1>1, <1>2, <1>5, <2>1, <2>2 DEF Notify!TypeOK
<1>7. OpenDispatches'
  <2>. SUFFICES ASSUME NEW b \in Notify!Actors, sending'[b] # Notify!Idle
                PROVE  Dispatching(b)'
    BY DEF OpenDispatches
  <2>1. b # a /\ sending'[b] = sending[b] /\ Dispatching(b)
    BY <1>4 DEF OpenDispatches
  <2>2. sending[b].notice \in Notices /\ sending[b].notice # n
    BY <1>1, <2>1 DEF Dispatching
  <2>3. NoNotice \notin Notices
    BY DEF Notify!ConstantsAssumption
  <2>. QED
    BY <1>4, <2>1, <2>2, <2>3 DEF Dispatching, Notify!Dispatchable, Notify!Idle
<1>8. \A f \in announced : f.notice # n
  BY <1>1 DEF Notify!AnnouncedOnce, Dispatching, Notify!Dispatchable
<1>9. Notify!AnnouncedOnce'
  <2>1. \A f \in announced : f.notice \in Notices
    BY DEF Notify!TypeOK, Notify!Counts
  <2>2. \A f \in announced' : f.count = Notify!Cardinality(deliveries'[f.notice])
    BY <1>2, <1>4, <1>8, <2>1 DEF Notify!AnnouncedOnce
  <2>3. \A m \in Notices :
          notice'[m].status \in {"processing", "sent"} <=> \E f \in announced' : f.notice = m
    <3>. TAKE m \in Notices
    <3>1. CASE m = n
      <4>1. e \in announced' /\ e.notice = m
        BY <3>1, <1>2
      <4>2. notice'[m].status \in {"processing", "sent"}
        BY <3>1, <1>3, <1>4
      <4>. QED BY <4>1, <4>2
    <3>2. CASE m # n
      BY <3>2, <1>2, <1>4 DEF Notify!AnnouncedOnce
    <3>. QED BY <3>1, <3>2
  <2>. QED
    BY <2>2, <2>3 DEF Notify!AnnouncedOnce
<1>10. Notify!CancelledIsSilent'
  <2>. SUFFICES ASSUME NEW m \in Notices, notice'[m].status = "cancelled"
                PROVE  /\ deliveries'[m] = {}
                       /\ \A f \in announced' : f.notice # m
                       /\ Notify!Unlocked(m)'
    BY DEF Notify!CancelledIsSilent
  <2>1. m # n
    BY <1>3, <1>4
  <2>2. NoNotice # m
    BY DEF Notify!ConstantsAssumption
  <2>. QED
    BY <1>2, <1>4, <2>1, <2>2 DEF Notify!CancelledIsSilent, Notify!Unlocked, Notify!Idle
<1>11. UnsentIsEmpty'
  BY <1>3, <1>4 DEF UnsentIsEmpty
<1>. QED
  BY <1>6, <1>7, <1>9, <1>10, <1>11

\* A dispatch that fails gives its lock back.
LEMMA FailureKeeps ==
  ASSUME Notify!ConstantsAssumption, NoticesInv, NEW a \in Notify!Actors, Notify!Fail(a)
  PROVE  NoticesInv'
<1>. USE DEF NoticesInv
<1>1. /\ sending' = [sending EXCEPT ![a] = Notify!Idle]
      /\ sending'[a] = Notify!Idle
      /\ \A b \in Notify!Actors : b # a => sending'[b] = sending[b]
      /\ crashes' \in 0..MaxCrashes /\ due' \in Seq(Notices)
      /\ UNCHANGED <<now, notice, deliveries, announced, active, holders>>
  BY DEF Notify!Fail, Notify!TypeOK, Notify!ConstantsAssumption
<1>2. \A n \in Notices : Notify!Idle.notice # n
  BY DEF Notify!Idle, Notify!ConstantsAssumption
<1>3. Notify!TypeOK'
  BY <1>1 DEF Notify!TypeOK, Notify!Idle
<1>4. OpenDispatches'
  <2>. SUFFICES ASSUME NEW b \in Notify!Actors, sending'[b] # Notify!Idle
                PROVE  Dispatching(b)'
    BY DEF OpenDispatches
  <2>1. b # a /\ sending'[b] = sending[b] /\ Dispatching(b)
    BY <1>1 DEF OpenDispatches
  <2>. QED
    BY <1>1, <1>2, <2>1 DEF Dispatching, Notify!Dispatchable
<1>5. Notify!CancelledIsSilent'
  BY <1>1, <1>2 DEF Notify!CancelledIsSilent, Notify!Unlocked
<1>. QED
  BY <1>1, <1>3, <1>4, <1>5 DEF Notify!AnnouncedOnce, UnsentIsEmpty

\* A notice nobody has locked, and not announced, changes to a status that is not sent.
LEMMA NewStatusKeeps ==
  ASSUME Notify!ConstantsAssumption, NoticesInv, NEW n \in Notices,
         NEW s \in {"draft", "scheduled", "cancelled"}, NEW t \in Notify!Times,
         Notify!Unlocked(n), notice[n].status \in {"none", "draft", "scheduled"},
         notice' = [notice EXCEPT ![n] = [status |-> s, at |-> t]],
         UNCHANGED <<now, deliveries, announced, active, holders, sending, due, crashes>>
  PROVE  NoticesInv'
<1>. USE DEF NoticesInv
<1>1. /\ notice'[n].status = s
      /\ \A m \in Notices : m # n => notice'[m] = notice[m]
  BY DEF Notify!TypeOK
<1>2. Notify!TypeOK'
  BY DEF Notify!TypeOK, Notify!Statuses
<1>3. OpenDispatches'
  <2>. SUFFICES ASSUME NEW b \in Notify!Actors, sending[b] # Notify!Idle
                PROVE  Dispatching(b)'
    BY DEF OpenDispatches
  <2>1. Dispatching(b) /\ sending[b].notice # n
    BY DEF OpenDispatches, Notify!Unlocked
  <2>. QED
    BY <1>1, <2>1 DEF Dispatching, Notify!Dispatchable
<1>4. \A f \in announced : f.notice # n
  BY DEF Notify!AnnouncedOnce
<1>5. Notify!AnnouncedOnce' /\ Notify!CancelledIsSilent' /\ UnsentIsEmpty'
  BY <1>1, <1>4 DEF Notify!AnnouncedOnce, Notify!CancelledIsSilent, UnsentIsEmpty, Notify!Unlocked
<1>. QED
  BY <1>2, <1>3, <1>5

\* Steps that touch neither notices nor dispatches.
LEMMA QuietStepKeeps ==
  ASSUME NoticesInv, UNCHANGED <<notice, deliveries, announced, sending, crashes>>,
         now' \in Notify!Times, active' \in SUBSET Audience, holders' \in SUBSET Audience,
         due' \in Seq(Notices)
  PROVE  NoticesInv'
BY DEF NoticesInv, Notify!TypeOK, OpenDispatches, Dispatching, Notify!Dispatchable,
       UnsentIsEmpty, Notify!AnnouncedOnce,
       Notify!CancelledIsSilent, Notify!Unlocked

LEMMA NoticesStep ==
  ASSUME Notify!ConstantsAssumption, NoticesInv, Notify!Next \/ UNCHANGED noticeVars
  PROVE  NoticesInv'
<1>. USE DEF NoticesInv
<1>1. ASSUME NEW n \in Notices, Notify!Create(n)
      PROVE  NoticesInv'
  <2>1. /\ Notify!Unlocked(n) /\ notice[n].at \in Notify!Times /\ 0 \in Notify!Times
    <3>1. notice[n].status = "none"
      BY <1>1 DEF Notify!Create
    <3>2. ASSUME NEW a \in Notify!Actors
          PROVE  sending[a].notice # n
      <4>1. CASE sending[a] = Notify!Idle
        BY <4>1 DEF Notify!Idle, Notify!ConstantsAssumption
      <4>2. CASE sending[a] # Notify!Idle
        BY <3>1, <4>2 DEF OpenDispatches, Dispatching, Notify!Dispatchable
      <4>. QED
        BY <4>1, <4>2
    <3>3. notice[n].at \in Notify!Times /\ 0 \in Notify!Times
      BY DEF Notify!TypeOK, Notify!ConstantsAssumption, Notify!Times
    <3>. QED
      BY <3>2, <3>3 DEF Notify!Unlocked
  <2>2. PICK s \in {"draft", "scheduled"}, t \in Notify!Times :
          notice' = [notice EXCEPT ![n] = [status |-> s, at |-> t]]
    BY <1>1, <2>1 DEF Notify!Create, Notify!TypeOK
  <2>. QED
    BY <1>1, <2>1, <2>2, NewStatusKeeps DEF Notify!Create
<1>2. ASSUME NEW n \in Notices, Notify!Cancel(n)
      PROVE  NoticesInv'
  <2>. DEFINE x == [notice[n] EXCEPT !.status = "cancelled"]
  <2>1. notice[n] \in [status : Notify!Statuses, at : Notify!Times]
    BY DEF Notify!TypeOK
  <2>2. x = [status |-> "cancelled", at |-> notice[n].at]
    BY <2>1
  <2>3. notice' = [notice EXCEPT ![n] = x]
    BY <1>2 DEF Notify!Cancel
  <2>. QED
    BY <1>2, <2>1, <2>2, <2>3, NewStatusKeeps DEF Notify!Cancel
<1>3. ASSUME NEW c \in Clerks, NEW n \in Notices, Notify!Request(c, n)
      PROVE  NoticesInv'
  BY <1>3, DispatchKeeps DEF Notify!Request, Notify!Actors, Notify!TypeOK
<1>4. CASE Notify!JobList
  BY <1>4, ListType, QuietStepKeeps DEF Notify!JobList, Notify!TypeOK
<1>5. CASE Notify!JobBegin
  <2>1. Head(due) \in Notices /\ due' \in Seq(Notices)
    BY <1>5, HeadTailProperties DEF Notify!JobBegin, Notify!TypeOK
  <2>. QED
    BY <1>5, <2>1, DispatchKeeps DEF Notify!JobBegin, Notify!Actors
<1>6. CASE Notify!JobReplay \/ Notify!JobRefused
  <2>1. due \in Seq(Notices) /\ due # <<>>
    BY <1>6 DEF Notify!JobReplay, Notify!JobRefused, Notify!TypeOK
  <2>2. Tail(due) \in Seq(Notices) /\ <<>> \in Seq(Notices)
    BY <2>1, HeadTailProperties, EmptySeq
  <2>3. due' \in Seq(Notices)
    BY <1>6, <2>2 DEF Notify!JobReplay, Notify!JobRefused
  <2>. QED
    BY <1>6, <2>3, QuietStepKeeps DEF Notify!JobReplay, Notify!JobRefused, Notify!TypeOK
<1>7. ASSUME NEW a \in Notify!Actors, Notify!Commit(a) \/ Notify!Fail(a)
      PROVE  NoticesInv'
  BY <1>7, SendKeeps, FailureKeeps
<1>8. CASE Notify!SubscribersChange
  BY <1>8, QuietStepKeeps DEF Notify!SubscribersChange, Notify!TypeOK
<1>9. CASE Notify!Tick
  BY <1>9, QuietStepKeeps DEF Notify!Tick, Notify!TypeOK, Notify!Times, Notify!ConstantsAssumption
<1>10. CASE UNCHANGED noticeVars
  BY <1>10, QuietStepKeeps DEF noticeVars, Notify!TypeOK
<1>. QED
  BY <1>1, <1>2, <1>3, <1>4, <1>5, <1>6, <1>7, <1>8, <1>9, <1>10 DEF Notify!Next

-----------------------------------------------------------------------------
(* Payouts.                                                                *)

\* What a request may rely on from its first statement to its commit: the affiliate's row is
\* its own, the partner is not archived, and a payout is still covered.
Requesting(c) ==
  LET e == writing[c]
  IN  /\ \A d \in Callers :
           writing[d] # NoEntry /\ writing[d].affiliate = e.affiliate => d = c
      /\ status[e.affiliate] # "archived"
      /\ e.type = "paid" => e.amount <= Pay!Available(e.affiliate, e.currency)

OpenRequests == \A c \in Callers : writing[c] # NoEntry => Requesting(c)

PayoutsInv == Pay!TypeOK /\ OpenRequests /\ Pay!AnsweredIsRecorded

\* The entries of one affiliate in one currency are what its balance is made of.
OfAffiliate(S, a) == {e \in S : e.affiliate = a}

-----------------------------------------------------------------------------
\* A balance does not change as long as nothing is entered for its affiliate.
LEMMA BalanceIsLocal ==
  ASSUME NEW a, NEW cur, OfAffiliate(entries', a) = OfAffiliate(entries, a)
  PROVE  Pay!Available(a, cur)' = Pay!Available(a, cur)
<1>. DEFINE of(S, type) == {e \in S : e.affiliate = a /\ e.currency = cur /\ e.type = type}
<1>1. \A type : of(entries', type) = of(entries, type)
  BY DEF OfAffiliate
<1>. QED
  BY <1>1 DEF Pay!Available

\* What settlements enter is an entry.
LEMMA SettlementEntries ==
  ASSUME Pay!ConstantsAssumption, NEW r \in Redemptions
  PROVE  /\ Pay!EntryOf(r, "earned", Commission) \in Pay!Entries
         /\ Pay!EntryOf(r, "adjustment", -Commission) \in Pay!Entries
BY DEF Pay!ConstantsAssumption, Pay!EntryOf, Pay!Entries, Pay!Entry

LEMMA PayoutsInit == Pay!Init => PayoutsInv
BY DEF Pay!Init, PayoutsInv, Pay!TypeOK, OpenRequests, Pay!AnsweredIsRecorded

\* A request that begins takes a row nobody holds, and writes nothing.
LEMMA RecordKeeps ==
  ASSUME PayoutsInv, NEW c \in Callers, NEW e \in Pay!Requests, Pay!Record(c, e)
  PROVE  PayoutsInv'
<1>. USE DEF PayoutsInv
<1>1. /\ writing' = [writing EXCEPT ![c] = e]
      /\ writing'[c] = e
      /\ \A d \in Callers : d # c => writing'[d] = writing[d]
      /\ UNCHANGED <<status, entries, answers>>
  BY DEF Pay!Record, Pay!TypeOK
<1>2. Pay!TypeOK'
  BY <1>1 DEF Pay!TypeOK
<1>3. \A a, cur : Pay!Available(a, cur)' = Pay!Available(a, cur)
  BY <1>1, BalanceIsLocal DEF OfAffiliate
<1>4. OpenRequests'
  <2>. SUFFICES ASSUME NEW d \in Callers, writing'[d] # NoEntry
                PROVE  Requesting(d)'
    BY DEF OpenRequests
  <2>1. CASE d = c
    BY <2>1, <1>1, <1>3 DEF Requesting, Pay!Record, Pay!Unlocked
  <2>2. CASE d # c
    <3>1. writing[d] # NoEntry /\ writing'[d] = writing[d] /\ Requesting(d)
      BY <2>2, <1>1 DEF OpenRequests
    <3>2. writing[d].affiliate # e.affiliate
      BY <3>1 DEF Pay!Record, Pay!Unlocked
    <3>. QED
      BY <3>1, <3>2, <1>1, <1>3 DEF Requesting
  <2>. QED BY <2>1, <2>2
<1>. QED
  BY <1>1, <1>2, <1>4 DEF Pay!AnsweredIsRecorded

\* A request that ends without an entry gives its row back.
LEMMA RollbackKeeps ==
  ASSUME PayoutsInv, NEW c \in Callers, Pay!Rollback(c)
  PROVE  PayoutsInv'
<1>. USE DEF PayoutsInv
<1>1. /\ writing' = [writing EXCEPT ![c] = NoEntry]
      /\ writing'[c] = NoEntry
      /\ \A d \in Callers : d # c => writing'[d] = writing[d]
      /\ UNCHANGED <<status, entries, answers>>
  BY DEF Pay!Rollback, Pay!TypeOK
<1>2. Pay!TypeOK'
  BY <1>1 DEF Pay!TypeOK
<1>3. \A a, cur : Pay!Available(a, cur)' = Pay!Available(a, cur)
  BY <1>1, BalanceIsLocal DEF OfAffiliate
<1>4. OpenRequests'
  <2>. SUFFICES ASSUME NEW d \in Callers, writing'[d] # NoEntry
                PROVE  Requesting(d)'
    BY DEF OpenRequests
  <2>1. d # c /\ writing'[d] = writing[d] /\ Requesting(d)
    BY <1>1 DEF OpenRequests
  <2>. QED
    BY <2>1, <1>1, <1>3 DEF Requesting
<1>. QED
  BY <1>1, <1>2, <1>4 DEF Pay!AnsweredIsRecorded

\* An entry with a free key, for an affiliate no other request holds.
LEMMA EntryKeeps ==
  ASSUME PayoutsInv, NEW e \in Pay!Entries, Pay!SameKey(e) = {}, entries' = entries \union {e},
         UNCHANGED status,
         writing' \in [Callers -> Pay!Requests \union {NoEntry}],
         \A d \in Callers : writing'[d] # NoEntry =>
           writing'[d] = writing[d] /\ writing[d].affiliate # e.affiliate,
         answers' \subseteq answers \union {e},
         answers' \in SUBSET Pay!Requests
  PROVE  PayoutsInv'
<1>. USE DEF PayoutsInv
<1>1. Pay!TypeOK'
  BY DEF Pay!TypeOK
<1>2. OpenRequests'
  <2>. SUFFICES ASSUME NEW d \in Callers, writing'[d] # NoEntry
                PROVE  Requesting(d)'
    BY DEF OpenRequests
  <2>. DEFINE a == writing[d].affiliate
  <2>1. /\ writing'[d] = writing[d] /\ a # e.affiliate /\ Requesting(d)
    BY DEF OpenRequests
  <2>2. OfAffiliate(entries', a) = OfAffiliate(entries, a)
    BY <2>1 DEF OfAffiliate
  <2>3. \A cur : Pay!Available(a, cur)' = Pay!Available(a, cur)
    BY <2>2, BalanceIsLocal
  <2>4. \A b \in Callers : writing'[b] # NoEntry /\ writing'[b].affiliate = a => b = d
    BY <2>1 DEF Requesting
  <2>. QED
    BY <2>1, <2>3, <2>4 DEF Requesting
<1>3. Pay!AnsweredIsRecorded'
  <2>1. \A f \in entries : ~ (f.reference = e.reference /\ f.type = e.type)
    BY DEF Pay!SameKey
  <2>. QED
    BY <2>1 DEF Pay!AnsweredIsRecorded
<1>. QED
  BY <1>1, <1>2, <1>3

LEMMA PayKeeps ==
  ASSUME PayoutsInv, NEW c \in Callers, Pay!Commit(c)
  PROVE  PayoutsInv'
<1>. DEFINE e == writing[c]
<1>1. /\ e # NoEntry /\ e \in Pay!Requests /\ e \in Pay!Entries
      /\ Pay!SameKey(e) = {} /\ entries' = entries \union {e} /\ UNCHANGED status
  BY DEF Pay!Commit, PayoutsInv, Pay!TypeOK, Pay!Entries
<1>2. Requesting(c)
  BY <1>1 DEF PayoutsInv, OpenRequests
<1>3. writing' \in [Callers -> Pay!Requests \union {NoEntry}]
  BY DEF Pay!Commit, PayoutsInv, Pay!TypeOK
<1>4. \A d \in Callers : writing'[d] # NoEntry =>
        writing'[d] = writing[d] /\ writing[d].affiliate # e.affiliate
  BY <1>2 DEF Pay!Commit, PayoutsInv, Pay!TypeOK, Requesting
<1>5. answers' \subseteq answers \union {e} /\ answers' \in SUBSET Pay!Requests
  BY <1>1 DEF Pay!Commit, PayoutsInv, Pay!TypeOK
<1>. QED
  BY <1>1, <1>3, <1>4, <1>5, EntryKeeps

\* A settlement's entry waits for whoever holds its affiliate.
LEMMA InsertKeeps ==
  ASSUME PayoutsInv, NEW e \in Pay!Entries, Pay!Insert(e)
  PROVE  PayoutsInv'
<1>1. /\ Pay!SameKey(e) = {} /\ entries' = entries \union {e}
      /\ UNCHANGED <<status, writing, answers>>
  BY DEF Pay!Insert
<1>2. \A d \in Callers : writing'[d] # NoEntry =>
        writing'[d] = writing[d] /\ writing[d].affiliate # e.affiliate
  BY <1>1 DEF Pay!Insert, Pay!Unlocked
<1>3. /\ writing' \in [Callers -> Pay!Requests \union {NoEntry}]
      /\ answers' \subseteq answers \union {e} /\ answers' \in SUBSET Pay!Requests
  BY <1>1 DEF PayoutsInv, Pay!TypeOK
<1>. QED
  BY <1>1, <1>2, <1>3, EntryKeeps

\* The status of an affiliate changes while nobody holds it.
LEMMA SetStatusKeeps ==
  ASSUME PayoutsInv, NEW a \in Affiliates, NEW s \in {"active", "disabled", "archived"},
         Pay!SetStatus(a, s)
  PROVE  PayoutsInv'
<1>. USE DEF PayoutsInv
<1>1. /\ status' = [status EXCEPT ![a] = s] /\ Pay!Unlocked(a)
      /\ UNCHANGED <<entries, writing, answers>>
  BY DEF Pay!SetStatus
<1>2. Pay!TypeOK'
  BY <1>1 DEF Pay!TypeOK
<1>3. \A b, cur : Pay!Available(b, cur)' = Pay!Available(b, cur)
  BY <1>1, BalanceIsLocal DEF OfAffiliate
<1>4. OpenRequests'
  <2>. SUFFICES ASSUME NEW d \in Callers, writing'[d] # NoEntry
                PROVE  Requesting(d)'
    BY DEF OpenRequests
  <2>1. /\ Requesting(d) /\ writing'[d] = writing[d] /\ writing[d].affiliate # a
    BY <1>1 DEF OpenRequests, Pay!Unlocked
  <2>2. status'[writing[d].affiliate] = status[writing[d].affiliate]
    BY <2>1, <1>1 DEF Pay!TypeOK
  <2>. QED
    BY <2>1, <2>2, <1>1, <1>3 DEF Requesting
<1>. QED
  BY <1>1, <1>2, <1>4 DEF Pay!AnsweredIsRecorded

\* An answer repeated is the entry that is there.
LEMMA RepeatKeeps ==
  ASSUME PayoutsInv, NEW e \in Pay!Requests, Pay!Repeat(e)
  PROVE  PayoutsInv'
<1>. USE DEF PayoutsInv
<1>1. /\ e \in entries /\ answers' = answers \union {e}
      /\ UNCHANGED <<status, entries, writing>>
  BY DEF Pay!Repeat, Pay!Recorded
<1>2. \A a, cur : Pay!Available(a, cur)' = Pay!Available(a, cur)
  BY <1>1, BalanceIsLocal DEF OfAffiliate
<1>3. OpenRequests'
  BY <1>1, <1>2 DEF OpenRequests, Requesting
<1>4. Pay!TypeOK' /\ Pay!AnsweredIsRecorded'
  BY <1>1 DEF Pay!TypeOK, Pay!AnsweredIsRecorded
<1>. QED
  BY <1>3, <1>4

LEMMA PayoutsStep ==
  ASSUME Pay!ConstantsAssumption, PayoutsInv, Pay!Next \/ UNCHANGED payoutVars
  PROVE  PayoutsInv'
<1>1. ASSUME NEW c \in Callers, Pay!Commit(c) \/ Pay!Rollback(c)
      PROVE  PayoutsInv'
  BY <1>1, PayKeeps, RollbackKeeps
<1>2. ASSUME NEW c \in Callers, NEW e \in Pay!Requests, Pay!Record(c, e)
      PROVE  PayoutsInv'
  BY <1>2, RecordKeeps
<1>3. ASSUME NEW e \in Pay!Requests, Pay!Repeat(e)
      PROVE  PayoutsInv'
  BY <1>3, RepeatKeeps
<1>4. ASSUME NEW r \in Redemptions, Pay!Earn(r) \/ Pay!Reverse(r)
      PROVE  PayoutsInv'
  BY <1>4, SettlementEntries, InsertKeeps DEF Pay!Earn, Pay!Reverse, Pay!Earned
<1>5. ASSUME NEW a \in Affiliates, NEW s \in {"active", "disabled", "archived"},
             Pay!SetStatus(a, s)
      PROVE  PayoutsInv'
  BY <1>5, SetStatusKeeps
<1>6. CASE UNCHANGED payoutVars
  <2>1. \A a, cur : Pay!Available(a, cur)' = Pay!Available(a, cur)
    BY <1>6, BalanceIsLocal DEF OfAffiliate, payoutVars
  <2>. QED
    BY <1>6, <2>1
    DEF payoutVars, PayoutsInv, Pay!TypeOK, OpenRequests, Requesting, Pay!AnsweredIsRecorded
<1>. QED
  BY <1>1, <1>2, <1>3, <1>4, <1>5, <1>6 DEF Pay!Next

-----------------------------------------------------------------------------
(* The office.                                                             *)

\* The inductive invariant: the part that moves keeps its own, and the others stay.
OfficeInv == NoticesInv /\ PayoutsInv /\ LocksInv

LEMMA OfficeInvHolds == OfficeSpec => []OfficeInv
<1>1. OfficeInit => OfficeInv
  BY OfficeAssumption, NoticesInit, PayoutsInit, LocksInit DEF OfficeInit, OfficeInv
<1>2. OfficeInv /\ [OfficeNext]_vars => OfficeInv'
  <2>. SUFFICES ASSUME OfficeInv, [OfficeNext]_vars
                PROVE  OfficeInv'
    OBVIOUS
  <2>1. Notify!Next \/ UNCHANGED noticeVars
    BY DEF OfficeNext, NotifyStep, vars
  <2>2. Pay!Next \/ UNCHANGED payoutVars
    BY DEF OfficeNext, NotifyStep, vars
  <2>3. [Next]_open
    BY DEF OfficeNext, NotifyStep, vars
  <2>. QED
    BY <2>1, <2>2, <2>3, OfficeAssumption, NoticesStep, PayoutsStep, LocksStep DEF OfficeInv
<1>. QED
  BY <1>1, <1>2, PTL DEF OfficeSpec

\* Every variable has its type, and a transaction is on its way through a handler.
THEOREM OfficeTypes == OfficeSpec => []OfficeTypeOK
<1>1. OfficeInv => OfficeTypeOK
  BY DEF OfficeInv, NoticesInv, PayoutsInv, LocksInv, OfficeTypeOK
<1>. QED
  BY <1>1, OfficeInvHolds, PTL

\* A notice is announced once, with the number of its deliveries, a cancelled one has gone to
\* nobody, and what was answered is in the ledger as it was asked for, whatever clerks and
\* job, requests, partners and settlements were at work together.
THEOREM AnswersStand == OfficeSpec => []AnswersHold
<1>1. OfficeInv => AnswersHold
  BY DEF OfficeInv, NoticesInv, PayoutsInv, AnswersHold
<1>. QED
  BY <1>1, OfficeInvHolds, PTL

\* In every circle of waiting transactions one waits against the order of the others.
THEOREM OfficeCirclesAreKnown == OfficeSpec => []CirclesAreKnown
<1>1. OfficeInv => CirclesAreKnown
  BY OfficeAssumption, KnownCircles DEF OfficeInv
<1>. QED
  BY <1>1, OfficeInvHolds, PTL

\* No payout is written beyond its balance or to an archived partner, although the balance
\* was read before, and settlements never lock the partner.
THEOREM PayoutsStayCovered == OfficeSpec => PayoutsAreCovered
<1>. DEFINE Lawful ==
       \A e \in entries' \ entries :
         e.type = "paid" => /\ e.amount <= Pay!Available(e.affiliate, e.currency)
                            /\ status[e.affiliate] # "archived"
<1>1. OfficeInv /\ [OfficeNext]_vars => [Lawful]_<<status, entries, writing, answers>>
  <2>. SUFFICES ASSUME PayoutsInv, Pay!Next PROVE Lawful
    BY DEF OfficeInv, OfficeNext, NotifyStep, vars, payoutVars
  <2>1. ASSUME NEW c \in Callers, Pay!Commit(c)
        PROVE  Lawful
    <3>1. writing[c] # NoEntry /\ entries' = entries \union {writing[c]}
      BY <2>1 DEF Pay!Commit
    <3>2. Requesting(c)
      BY <3>1 DEF PayoutsInv, OpenRequests
    <3>. QED BY <3>1, <3>2 DEF Requesting
  <2>2. ASSUME NEW r \in Redemptions, Pay!Earn(r) \/ Pay!Reverse(r)
        PROVE  Lawful
    BY <2>2 DEF Pay!Earn, Pay!Reverse, Pay!Insert, Pay!Earned, Pay!EntryOf
  <2>3. ASSUME UNCHANGED entries
        PROVE  Lawful
    BY <2>3
  <2>. QED
    BY <2>1, <2>2, <2>3 DEF Pay!Next, Pay!Record, Pay!Repeat, Pay!Rollback, Pay!SetStatus
<1>2. [Lawful]_<<status, entries, writing, answers>> <=> [Lawful]_(Pay!vars)
  BY DEF Pay!vars
<1>. QED
  BY <1>1, <1>2, OfficeInvHolds, PTL DEF OfficeSpec, PayoutsAreCovered, Pay!PayoutsAreCovered
=============================================================================
