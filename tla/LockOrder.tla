----------------------------- MODULE LockOrder -----------------------------
(***************************************************************************)
(* The row locks of the Control API's transactions, and who waits for whom. *)
(* A transaction takes its locks one at a time and holds them to its end;   *)
(* of a circle of waiting ones PostgreSQL aborts one.                       *)
(*                                                                         *)
(* What a transaction does to the rows is in Billing and the other modules, *)
(* where it is a step; here it is the locks it takes, in their order.  Rows *)
(* whose holders wait for nobody's (applications, affiliates, features,     *)
(* notices, counters) close no circle and are left out.                     *)
(***************************************************************************)
EXTENDS Integers, Sequences, FiniteSets, SequencesExt

CONSTANTS
  Subscribers,  \* each with one current term, or a lapsed one
  Checkouts,    \* unpaid, each with its pending term
  OwnerOf,      \* [Checkouts -> Subscribers]
  CouponOf,     \* [Checkouts -> Coupons]
  Coupons,
  Plans,
  MaxOpen       \* bound: transactions that hold a lock at the same time

ConstantsAssumption ==
  /\ IsFiniteSet(Subscribers) /\ IsFiniteSet(Checkouts) /\ IsFiniteSet(Plans)
  /\ OwnerOf \in [Checkouts -> Subscribers]
  /\ CouponOf \in [Checkouts -> Coupons]
  \* A checkout's pending term and a subscriber's current one are two rows.
  /\ Subscribers \cap Checkouts = {}
  /\ MaxOpen \in Nat

\* The transactions that hold a lock.  One that waits for its first is in nobody's way, and
\* two alike hold or share the same rows, so that a set is enough.
VARIABLE open

-----------------------------------------------------------------------------
(* Locks, and what a handler may take: a set of sequences of them.         *)

\* FOR UPDATE, and the update or deletion of a row.
Row(class, id) == [class |-> class, id |-> id, shared |-> FALSE]

\* The check of a foreign key, FOR KEY SHARE.
Shared(class, id) == [class |-> class, id |-> id, shared |-> TRUE]

Conflict(a, b) == a.class = b.class /\ a.id = b.id /\ ~(a.shared /\ b.shared)

\* One of A, then one of B.
A \odot B == {a \o b : a \in A, b \in B}

OneOf(class, ids) == {<<Row(class, id)>> : id \in ids}
NoneOr(locks) == {<<>>} \union locks

\* Some of S, in any order: a statement finds its rows in the order of its plan.
AnyOf(S) == UNION {SetToSeqs(T) : T \in SUBSET S}
SomeShared(class, S) == {[i \in DOMAIN ids |-> Shared(class, ids[i])] : ids \in AnyOf(S)}

\* expire_stale_checkouts: the checkouts in one statement, then of each its term, and its
\* coupon when a redemption is released.
Release(taken, k) ==
  taken \odot {<<Row("term", k)>>} \odot NoneOr(OneOf("coupon", {CouponOf[k]}))

Expiries(K) ==
  UNION {{[i \in DOMAIN ks |-> Row("checkout", ks[i])]} \odot FoldLeft(Release, {<<>>}, ks) :
           ks \in AnyOf(K)}

\* create_subscription, and a quote, which is one rolled back: the subscriber, the plan, the
\* coupon if any.
Creation(s) ==
  OneOf("subscriber", {s}) \odot OneOf("plan", Plans) \odot NoneOr(OneOf("coupon", Coupons))

\* Mutant: the checkout as it was found, then its subscriber.
CheckoutFirst(k) ==
  {<<Row("checkout", k), Row("subscriber", OwnerOf[k]), Row("term", k)>>}
    \odot NoneOr(OneOf("term", {OwnerOf[k]}))

\* settle_payment: "Consistent subscriber -> checkout -> subscription locking" (service.py:397),
\* then the current term.
Settlement(k) ==
  {<<Row("subscriber", OwnerOf[k]), Row("checkout", k), Row("term", k)>>}
    \odot NoneOr(OneOf("term", {OwnerOf[k]}))

\* Mutant: the term as it was found, then its subscriber.
TermFirst(s) == {<<Row("term", s), Row("subscriber", s)>>} \odot OneOf("plan", Plans)

\* replace_term; the creation has its subscriber already and no coupon.
Replacement(s) == {<<Row("subscriber", s), Row("term", s)>>} \odot OneOf("plan", Plans)

\* start_checkout, up to the commit before the provider is asked.
Order(s) ==
  OneOf("subscriber", {s}) \odot Expiries({k \in Checkouts : OwnerOf[k] = s})
    \odot NoneOr(OneOf("term", {s})) \odot OneOf("plan", Plans)
    \odot NoneOr(OneOf("coupon", Coupons))

\* activate_free_plan, of a subscriber whose term has lapsed.
FreeActivation(s) == {<<Row("term", s), Row("subscriber", s)>>} \odot OneOf("plan", Plans)

\* update_coupon, with a list of plans or none.
CouponEdit(c) == OneOf("coupon", {c}) \odot SomeShared("plan", Plans)

\* update_plan and delete_plan: a plan archived or deleted takes its item and the storefront
\* that recommends it with it.
PlanEdit(p) ==
  OneOf("plan", {p}) \odot NoneOr(OneOf("item", {p})) \odot NoneOr(OneOf("storefront", {"config"}))

\* update_plan_ui: the configuration and the plan it recommends, the items there were, and
\* the plans of the new ones.
StorefrontSave ==
  OneOf("storefront", {"config"}) \odot NoneOr({<<Shared("plan", p)>> : p \in Plans})
    \odot {[i \in DOMAIN ps |-> Row("item", ps[i])] : ps \in AnyOf(Plans)}
    \odot SomeShared("plan", Plans)

\* A dispatch inserts a delivery for each recipient, a new coupon or notice names its plans.
Naming == (SomeShared("subscriber", Subscribers) \union SomeShared("plan", Plans)) \ {<<>>}

\* Handlers of one row: a restriction or a profile, the order bound to its checkout, a
\* transition of a term or usage counted on it.
Single ==
  OneOf("subscriber", Subscribers) \union OneOf("checkout", Checkouts)
    \union OneOf("term", Subscribers \union Checkouts)

Jobs ==
  LET of(handler, takes) == {[handler |-> handler, locks |-> l] : l \in takes}
      each(handler, Takes(_), S) == of(handler, UNION {Takes(x) : x \in S})
  IN  UNION {
        each("settle", Settlement, Checkouts),
        each("create", Creation, Subscribers), each("replace", Replacement, Subscribers),
        each("order", Order, Subscribers), each("free", FreeActivation, Subscribers),
        each("coupon", CouponEdit, Coupons), each("plan", PlanEdit, Plans),
        of("sweep", Expiries(Checkouts) \ {<<>>}), of("save", StorefrontSave),
        of("name", Naming), of("single", Single)}

-----------------------------------------------------------------------------
(* Transactions.                                                           *)

Conflicts(x, lock) == \E i \in DOMAIN x.locks : Conflict(x.locks[i], lock)

\* What x may ask for next, if a handler goes on as x did.
Continuations(x) ==
  {job.locks[Len(x.locks) + 1] : job \in
     {j \in Jobs : j.handler = x.handler /\ IsStrictPrefix(x.locks, j.locks)}}

WaitsFor(x, y) == x # y /\ \E i \in DOMAIN x.wants : Conflicts(y, x.wants[i])

Stuck(S) == S # {} /\ \A x \in S : \E y \in S : WaitsFor(x, y)

\* Those of S wait for each other, and none could be left out.
Circle(S) == Stuck(S) /\ \A T \in SUBSET S : Stuck(T) => T = S

Unlocked(lock, x) == \A y \in open \ {x} : ~Conflicts(y, lock)

Becomes(x, locks, wants) ==
  open' = (open \ {x}) \union {[x EXCEPT !.locks = locks, !.wants = wants]}

Init == open = {}

\* A transaction has its first lock.
Begin(job) ==
  LET x == [handler |-> job.handler, locks |-> <<Head(job.locks)>>, wants |-> <<>>]
  IN  /\ Cardinality(open) < MaxOpen
      /\ Unlocked(Head(job.locks), x)
      /\ open' = open \union {x}

\* It takes the next one, or waits for it.
Take(x, lock) == Unlocked(lock, x) /\ Becomes(x, Append(x.locks, lock), <<>>)

Wait(x, lock) == ~Unlocked(lock, x) /\ Becomes(x, x.locks, <<lock>>)

Granted(x) == x.wants # <<>> /\ Take(x, Head(x.wants))

\* Committed, or refused on the way; or aborted, for nobody else leaves while waiting.
End(x) ==
  /\ x.wants = <<>> \/ \E S \in SUBSET open : x \in S /\ Circle(S)
  /\ open' = open \ {x}

Next ==
  \/ \E job \in Jobs : Begin(job)
  \/ \E x \in open :
       \/ \E lock \in Continuations(x) : x.wants = <<>> /\ (Take(x, lock) \/ Wait(x, lock))
       \/ Granted(x)
       \/ End(x)

Spec == Init /\ [][Next]_open

-----------------------------------------------------------------------------
(* Properties.                                                             *)

\* A transaction is on its way through a handler.
TypeOK ==
  \A x \in open :
    /\ Len(x.wants) <= 1
    /\ \E j \in Jobs : j.handler = x.handler /\ IsPrefix(x.locks \o x.wants, j.locks)

\* What waits against the order of the others: the free plan for its subscriber, an expiry for
\* a second checkout or for what comes after a coupon (a second coupon when three orders have
\* lapsed), the edits of coupon and storefront for a plan or an item.
Backwards ==
  {<<"free", "subscriber">>, <<"sweep", "checkout">>, <<"sweep", "coupon">>,
   <<"order", "coupon">>, <<"order", "plan">>, <<"coupon", "plan">>,
   <<"save", "plan">>, <<"save", "item">>}

\* In every circle of transactions that wait for each other one waits backwards: settlements,
\* replacements, creations, transitions, usage and plan edits alone never block each other for
\* good, and whom the database may have to abort is known (payments/service.py:397 locks in one
\* order for that; payments/integration.py:257 does not).
CirclesAreKnown ==
  \A S \in SUBSET open :
    Circle(S) => \E x \in S : <<x.handler, Head(x.wants).class>> \in Backwards
=============================================================================
