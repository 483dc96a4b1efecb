# Charis control API: a TLA+ verification project

Charis is a control plane for applications that sell subscriptions: a FastAPI
service (`apps/control_api`) over PostgreSQL, a TypeScript adapter inside each
application (`apps/api`), an SDK (`packages/sdk`) and a web console (`apps/web`).
Money moves through Razorpay; the control API keeps who may use what, and why.

This directory holds TLA+ models of that logic, TLC runs on small instances, and
TLAPS proofs for all instances. Paths below are relative to `src/`, and
`domains/` stands for `apps/control_api/app/domains/`.

## 1. Inventory

| Component | State | Operations | What makes it hard | What makes it correct |
|---|---|---|---|---|
| Payments (`domains/payments`) | checkouts, ledger rows, payment outbox | order routes, provider call, bind, expire, settle (webhook, verify, reconcile) | the provider call lies between two transactions; callbacks come late, twice, out of order or without an answer to wait for; a job expires orders meanwhile | access follows money; the ledger follows the provider; a settled order is settled once |
| Subscriptions (`domains/subscriptions`) | terms with status and version, usage counters and events | create, transition, renew, replace, consume usage | four routes create terms; the unique index covers ACTIVE rows only | one term in force; replacement of the version seen; usage within its limit, once per key |
| Coupons (`domains/coupons`) | coupons, redemptions, count, commission entries | create, update, redeem, release, settle commission | reservation at order, commission at capture, release at expiry, reversal at refund | count = rows, within both limits; commission only for money kept |
| Affiliates (`domains/affiliates`) | commission entries, payouts | record commission, payout | sum and insert under one lock that settlements do not take | nothing paid twice, no payout beyond what was earned then |
| Users (`domains/users`) | subscriber identities, status | upsert, restrict, restore | restriction races orders in flight | a restricted subscriber starts no term |
| Applications (`domains/applications`) | application status, credentials | create, update, archive | archival races settlements that loaded the row before it | an archived application starts no term |
| Catalog (`domains/catalog`) | features, plans, entitlements | manifest sync, plan edits, archive, delete | upsert from a snapshot; delete after counting | manifests are idempotent; no plan in use is deleted |
| Settings (`domains/settings`) | adapter credentials, grace periods, storefront | rotate, test, authenticate | two rotations see different rows | old secrets die after their grace period |
| Notifications (`domains/notifications`) | notifications, deliveries | create, schedule, dispatch, due job, cancel | due job and cancel race on one row | one delivery per recipient; a cancelled one is never sent |
| Authentication (`domains/auth`, `api/v1/auth.py`) | sessions, throttle windows | login, refresh, logout | counted windows, rotation of refresh tokens | lockout after the threshold; a used token is dead |
| Governance, overview | audit rows, no state | append, read | none | nothing decides on them |
| Application adapter (`apps/api/src`) | local usage counters, coupons, subscriptions and their events, webhook deliveries, polled events | consume, validate, activate, sign, deliver, poll | read-check-write without row locks; two writes without a transaction; leases; at-least-once polling | what is within the limits is granted; a token lapses with its subscription; a delivery is never lost |
| SDK (`packages/sdk`) | cached entitlements, processed events | verify, fetch, webhooks | a cache that outlives its source; late answers; replays | no access beyond the subscription and its grace |
| Web console (`apps/web`) | session and selection stores, query cache, forms, dialogs | sign in, switch application, edit, send, pay, export | answers late, lost or out of order; two tabs, two owners; requests computed from what was listed; one save in two requests | a page shows and sends what it was opened on; a stale form overwrites nothing unseen |

Components meet in the database: one session per request, row locks taken with
`SELECT ... FOR UPDATE`, unique indexes as a last guard, and an identity map that
keeps a row as it was first loaded even when it is selected again under a lock.
The provider is reached by HTTP, inside requests and between transactions; it
calls back by webhook. A daily cron runs the jobs of `app/cli.py`.

`PROJECT.json` lists the hazards with their lines and the properties that would
catch each.

## 2. Modules

| Module | What it is |
|---|---|
| `Billing` | terms, checkouts, coupons, commission and ledger of one application, the provider, the expiry job; one action per operation |
| `BillingProperties` | its invariants, action properties, fairness, liveness, refinement mapping |
| `CheckoutContract` | the abstract specification: what a checkout promises, without locks, versions, retries or jobs |
| `Usage` | metered usage: requests in their two halves, periods, idempotency keys, the entitlement evaluator |
| `Notifications` | drafts, schedules, dispatch by clerks and by the job, cancellation |
| `Payouts` | the commission ledger: payouts and adjustments by hand against settlements' entries |
| `AppLedgers` | the adapter's own usage counters and coupon redemptions, with their unlocked reads and foreign keys |
| `EventIntake` | events of the Control Centre arriving at the adapter, by push and by poll |
| `WebhookDelivery` | their delivery to the application's endpoints by leasing workers |
| `Relay` | `EventIntake` and `WebhookDelivery` composed: they share the delivery rows, and a crash |
| `LockOrder` | the row locks every handler takes, in their order, and who waits for whom |
| `LoginThrottle` | failed logins counted by window, the lock they earn, logins that passed the check meanwhile |
| `ConsoleSession` | the tabs of one browser: access token, refresh cookie and its rotation, requests retried once |
| `ConsoleNavigation` | which application a page works on: URL, store, list, form, overview |
| `ConsoleRegistration` | registering an application; its secret is in one answer only |
| `ConsolePlans`, `ConsoleCoupons`, `ConsoleTerms` | the editors of plans, coupons and manual terms, with the server's handlers they call and other owners |
| `ConsoleUserList`, `ConsoleReports` | lists and sums: filters, pages, ranges, answers in any order, exports |
| `ConsoleUserPanel`, `ConsolePartners`, `ConsoleNotices`, `ConsolePayments` | panels that act on a row: restrict, pay out, send, open the payment window |
| `ConsoleCredentials` | rotation of the integration key and the page that shows the new secret |
| `ConsoleSettings`, `ConsoleStorefront` | forms written whole without a version; plans archived or deleted while a design is published |
| `AdapterSubscriptions` | the subscriptions kept in the application, their events, and the tokens signed from them |
| `SdkEntitlements` | the client's cache of tokens, its grace, and its webhooks |
| `Office` | `Notifications`, `Payouts` and `LockOrder` side by side |
| `Clients` | login, session, the console's modules, `AdapterSubscriptions` and the SDK side by side |
| `MCBilling`, `MCUsage`, `MCAdapter`, `MCOffice`, `MCClients` | the small instances, of `AppLedgers`, `Office` and `Clients` the last three; `Relay` is its own |
| `BillingProofs`, `BillingSteps` | proofs: types and the inductive invariants; action properties, outbox, coupons, refinement |
| `Sums`, `UsageProofs` | sums of events over finite sets; proofs of metering |
| `RelayProofs` | proofs of the event relay |
| `OfficeProofs` | proofs of notices, payouts and of the order of locks: no circle but the known ones |
| `ClientsProofs` | proofs of the login limit, the browser's session, what pages show and send, tokens, the SDK's cache, and all types of `Clients` |
| `RowsProofs` | proofs of the rows that pages and other owners write |

`Office` and `Clients` put modules that share no variable into one specification: a
variable (`part`, in `Clients` `side`), fixed initially, says which one moves, and one that does not
move waits in an initial state. The behaviours are those of each module alone, and their
interleavings would show nothing more, since no module reads another's variables. Both take
their constants as parameters, so that what is proved of them holds for every instance. Where two
programs do meet on the same rows the model is one module (`Billing`, the console's editors with
their server) or a real composition (`Relay`).

Operators whose comment begins with "Mutant" are broken forms of the helper next to them,
used by nothing in the models; `PROJECT.json` says which property each of them breaks.

### How Billing corresponds to the code

A transaction that locks its rows before it reads what it decides on is one
action. Where the code reads first and locks later, or calls the provider in
between, there are several actions and what was read is kept:

* `CustomerOrder` reads application, subscriber and the term to be replaced with no
  lock (`payments/integration.py:174-214`). `handler[t]` keeps the version read;
  the identity map means the later locked SELECT does not refresh it.
  `CustomerCheckout` or `ActivateFreePlan` then decides on it.
* `StartCheckout` is the first transaction of `start_checkout`
  (`payments/service.py:203-345`): it expires this subscriber's stale orders,
  reserves the coupon, saves the pending term and the intent. The provider's order
  (`CreateProviderOrder`) may then exist although the call timed out
  (`Abandon`), and `BindOrder` is the second transaction.
* `SweepRead` locks the stale checkouts and reads their terms unlocked
  (`payments/service.py:103-123`), `SweepCommit` writes (`:123-174`). In between,
  whatever needs a checkout row the job holds must wait (`\notin Held`), and terms may move.
* `Arrives` says which provider responses a settlement may act on: true now or at an
  earlier time (`seen <= payment[p].refunded`), for a free checkout not bound to another
  payment. `SettleRefund`, `SettleReview`, `SettlePaid` and `SettleAgain` are the
  outcomes of `settle_payment` (`payments/service.py:375-601`).
* `settle_payment` gets the application from its session (`payments/service.py:437`). For a
  webhook that is a read under the settlement's locks. A verify or reconcile request has loaded it
  with its authorization (`app/api/dependencies.py:171-176`), before it asks the provider, and
  keeps it: `LoadApplication` is that read, which needs an order to be paid for, `loaded` the
  orders with such a request in flight, and `ApplicationsHeld` what a settlement of the order may
  see. `AdminOrder` is the same read of an administrator's order.
* `Renew`, `Replace`, `Suspend`, `Resume`, `Cancel`, `CreateSubscription` are the
  administrators' commands (`subscriptions/service.py`).

Abstracted: amounts are units of a refund (`FullAmount` of them make the price),
plans differ in nothing the properties see, a checkout, its pending term, its
idempotency key and its receipt share one name, the provider's identifiers are
names. A transaction that fails rolls back and is no step. Notifications, audit
rows and the customer's lists read and never decide.

### How the other modules correspond to the code

* `Usage`: `consume_usage` (`subscriptions/service.py:604-729`) holds the subscription's row
  from its first statement, so it is `Consume` (what is read and decided) and `Commit` or
  `Rollback`. `Replay` is the retry of a key, `Deny` the refusal by the evaluator
  (`Entitled`, `Remaining`, `Allowed` are `entitlements/service.py:9-53`). `CounterAt`
  chooses the counter of the period, `Transition` suspends, resumes or cancels a term between
  two requests, and a lost answer leaves a caller that asks again.
* `Payouts`: `create_commission_entry` (`affiliates/service.py:267-382`) holds the affiliate's
  row likewise: `Record`, then `Commit` or `Rollback`. Settlements (`Earn`, `Reverse`)
  never lock that row, but PostgreSQL checks the foreign key of what they insert under
  a lock that `FOR UPDATE` excludes; `Unlocked` in `Insert` is that.
* `Notifications`: `dispatch` (`notifications/service.py:142-217`) locks the notice and
  reads the recipients unlocked: `Begin`, then `Commit` or `Fail`. The job's list
  (`JobList`) is read once without locks, and the first refusal ends it (`JobRefused`).
* `AppLedgers`: the interactive transactions of `usageService.ts` and `couponService.ts` lock
  nothing: a read half and a write half, between which others act. `Referenced` is what the
  foreign keys ask of the rows they insert (`schema.prisma:282-284`, `:370-371`); a request the
  database or the code refuses is undone as a whole (`Refuse`).
* `EventIntake`: the route and the poll worker run the same four statements, each a
  transaction: `Store`, `Create`, `Deliver`, `Mark`. Any of them may fail in a running process
  (`StatementFails`): the route answers 500, the poll drops its batch, and what was written
  before stays. `stranded` records the events whose carrier was lost past `Create`, that way or in
  a crash. `WebhookDelivery`: every database
  call and the HTTP call of `deliverWebhook` is a step, the endpoint may take a request and
  its answer be lost, and each update may fail. The lease's times are left out: a lease is
  valid until `LeaseRunsOut`, which needs the worker to be done or dead, since its request
  times out after thirty seconds and the lease after five minutes.

* `LockOrder`: a handler is the set of lock sequences it may take (`Settlement`, `Order`,
  `Expiries`, ...): `FOR UPDATE` and updates exclusively, the foreign keys of what it inserts
  shared; a statement that locks several rows may find them in any order. Everywhere else such
  a transaction is one step or two, and a deadlock victim a step not taken; here it takes
  `Begin`, `Take`, `Wait`, `Granted` and `End`, and may end wherever the code may refuse.
  Rows whose holders wait for nobody (applications, affiliates, features, notices, counters)
  are left out.
* `LoginThrottle`: `Arrive` is the check of `api/v1/auth.py:173`, which takes no lock and fixes the
  time; `Refuse` is `record_login_failure`, one upsert and so one step, with that time; `Admit` is
  `clear_login_failures` in the transaction that makes the session; `Abort` a 500.
* The console's modules: a page is a component of React with its state, a query cache and
  requests in flight. An action is an event handler, a render's effects, an answer, or a step of
  the server. What a handler sends is computed in the action that sends it, from what the page
  holds then (a listed row, a cached detail, a selected id), and what an answer does from what is
  open *then*: TanStack's `onSuccess` runs after the page is gone, the callbacks of `mutate` do
  not. A component that leaves the screen loses its state; a mutation under way does not stop. The
  server's half is read from its handlers (`catalog`, `coupons`, `subscriptions`, `settings`,
  `users`, `notifications`) and is one step where the handler locks its row first, two where it
  reads before it locks (`ConsoleCredentials`, `ConsoleStorefront`). `Elsewhere` actions are
  other owners through the same handlers. Variables such as `shaken`, `unseen`, `disturbed`,
  `blind`, `relied`, `crossed`, `crowded`, `late` only record that a named exceptional course
  was taken, and the properties quote the line at which it can be.
* `ConsoleUserList`: the server counts anew for every request (`users/service.py:268-285`), so an
  answer may carry any total, and the cache keeps the total of each answer (`counted`). The
  buttons follow the total on the screen; `relied` is the one Next was last pressed on.
* `ConsoleSession`: an answer that signs in has a number, which stands for the three tokens it
  carries; `issued` is what the server has made, `current` what it still accepts. `restoreSession`
  is shared by the requests of a tab (`restoring`), the cookie by the tabs. Tabs duplicated with
  their `sessionStorage` are left out: a new tab begins with an empty one.
* `AdapterSubscriptions`: no handler of `routes/control.ts` opens a transaction, so every `await`
  on the database is a step; a token is read in one step and signed in another.
* `SdkEntitlements`: one thread, so what interleaves are answers. A payload carries the edition of
  the subscription it was made from, an event the edition it announces.

Met on the way and left as they are, in the model as in the code: `calculateNextAttempt(0)`
is an invalid date, so the update after a first refusal throws (`RecordRefusal`); the
outcome of a delivery is written by row id, the lease token never compared; a refusal
is written `FAILED` and then `RETRYING`, and a crash in between strands the row; the control
API has an outbox, but neither a sender nor the endpoint the adapter polls, so what
arrives is chosen freely. The adapter's counters are compared with their limit and its coupons
validated before anything is locked (`usageService.ts:84`, `couponService.ts:106`), and the period
of a counter is taken from the subscription's start and never from the clock
(`usageService.ts:57`): neither shows, since the foreign keys let no counter and no redemption be
written (section 6).

In the console: a list of users that shrinks to one page while the second is on the screen says
"No users match these filters." and has no button back (`Users.tsx:186`, `:191`); a failed restore that answers after a fresh login signs it out
(`controlApi.ts:130`); a failed refetch of the applications throws the user back to the list; a
toggle pressed on an old row takes an archived partner back (`affiliates/service.py:124`); saving
the general form writes `logo_url` and `integration_config` empty (`controlApi.ts:827`); a choice
made in the storefront form is lost to the next fetch (`Settings.tsx:38`), and a plan whose item a
publish left out is visible again after the next, hidden as it had been; a publish that races an
archival lists the archived plan, which the public catalog leaves out by its status
(`subscriptions/integration.py:255`). Clearing a date of a report throws (`Reports.tsx:15`), and
the last millisecond of a day is in no range (`:16`); neither is modelled.

In the adapter and the SDK: a cancelled subscription can be activated again; the answer to a
creation is `PENDING` also after the activation (`control.ts:87`); `endsAt` is looked at by no
token; a limited entitlement without a value is unlimited for `consumeUsage`
(`usageService.ts:84`) and grants nothing in a token (`entitlementService.ts:53-57`). The SDK's
`verifyToken` takes a token of two parts (`entitlements/index.ts:35-36`) where `signEntitlement`
issues a JWS of three, so a token of this adapter is refused by this SDK, although
`routes/entitlements.ts:8-9` names it the caller; `SdkEntitlements` takes tokens of the form
the SDK verifies. `verifyToken` does not look at `exp`; `getEntitlement` does, for what is cached.

## 3. Runs

Every run finishes in two minutes on two workers. Deadlock is not checked: each of these
systems may be idle, and bounded clocks and retries stop.

| Run | Instance | What it shows |
|---|---|---|
| `terms` | 1 subscriber, 2 checkouts, 1 granted term, 2 payments | types, one term in force, one open customer order, retired terms stay retired, a payment replaces only the quoted term in the quoted version, versions advance, `CheckoutContract` is implemented |
| `settlement` | 1 checkout, 2 payments on its order, refunds of 0..2 units, restriction and archival, a coupon | access follows money, the ledger follows the provider, no outbox key is written twice, no regress of what is recorded, partial refunds keep access, no activation after refund or expiry |
| `coupons` | 2 subscribers, 1 use of 1 affiliate coupon | redemptions are accounted (count = rows within both limits, reservations follow orders), commission follows money, a full refund leaves nothing |
| `progress` | 1 checkout, 2 payments, with fairness | captured money reaches the ledger, refunds revoke, orders do not stay open |
| `usage` | 2 terms, 2 features, 2 keys, 2 callers, amounts 1 and 2, 3 instants | limits, true counts (counters equal to their events, no undeserved denial), every grant recorded, one event with one increment |
| `clients` | see below | the login, the console's pages, the adapter's subscriptions, the SDK: sessions renew themselves and guesses are limited (`SessionHolds`), pages show and send what they were opened on (`ScreensHold`), rows and versions stay consistent (`RowsHold`), steps overwrite nothing unseen and undo nothing (`StepsHold`), no access outlives its subscription (`AccessHolds`) |
| `relay` | 1 event, 1 endpoint, 2 pushes and the poll, 2 workers, 2 attempts, 1 crash, 1 failing statement | actors keep apart (one makes the deliveries, one worker at a time delivers, attempts are counted before they are made), delivered is final, nothing told safe is lost and nothing is invented; what was received is processed unless its carrier is lost between creating and marking it |
| `office` | 3 notices, a list of 2, a clerk and the job; 2 partners, 2 currencies, 2 requests; 3 transactions on 2 subscribers, 2 lapsed orders, 2 coupons, 1 plan | what is answered is what is recorded, payouts are covered, what is due is dispatched; transactions wait for each other in a circle only where one of them is known to wait backwards (`CirclesAreKnown`) |
| `archiving`, `adapter_refused`, `relay_crash` | minimal | what the documents say and the code does not do (section 6) |

Bounds, all of them constants: `MaxTime` stops the clock, `LastStart` the requests
that begin something, `MaxVersion` the suspend/resume pairs, `MaxCrashes` the crashes, `MaxFailures` the statements that
fail, `MaxAsked` and `MaxKept` the answers a list awaits and keeps,
`Restrictable` and `Archivable` who may be stopped. With `ExpiryAge = 0` and
`TermLength = 1` one or two instants are enough for every order of creation, staleness,
expiry, capture and lapse. Two names per kind are enough for what the properties relate:
two terms of one subscriber, two orders, two payments of one order, two
subscribers and one coupon, two callers and one counter, two workers and one row. Three-way
races are in `terms` (grant against checkout against checkout) and `relay` (push, repetition,
poll). `office` has three notices so that a list of two is cut and one refused notice
takes another with it, and three transactions because a third may close the circle two leave
open. Proved without bounds: section 5.

The sides of `clients`, as `MCClients` instantiates them: login: 2 logins at once, 2 attempts, a
window and a lockout of 2 minutes, 5 minutes; session: 2 tabs with a request each, 3 sign-ins, 1
lost answer or page; navigation: 2 applications whose permission comes and goes; registration: 2
slugs; plans, coupons: 1 row of 3 versions, 1 feature, 2 discounts, 2 orders; users: 2 searches, 2
filters, totals of 0 to 2 pages (so that a page empties, or the buttons go, by a new count), 2
requests at once, 2 answers kept; user: 2 changes, 3 audit rows; payments: 2 orders, 3 tries;
terms: 2 terms, 2 grants; partners: 2, one sending; credentials: 4 keys; notices: 1 notice, 2
clicks; reports: 2 days, exports of 1 row; settings: 3 edits, 2 saves at once; storefront: 1 plan,
2 versions, 2 publishes at once; adapter: 2 subscriptions of one tenant, 2 requests at once, 2 hours; SDK: 1 tenant, 2 editions, 3
instants, 2 fetches. Two of each kind are what the hazards need: the other tab, the application
switched to, the row listed before and the row now, the answer that comes first and the one that
comes late. Three sign-ins let a token be spent, renewed and presented again; four keys let three
rotations meet.

Each property of a passing run has a mutant in `PROJECT.json`: a small plausible
bug in one definition under which TLC finds that property violated.

## 4. Fairness

`Fairness` in `BillingProperties` assumes that time passes, that the job runs and
commits (`HOSTING_CHECKLIST.md:29-33` schedules it daily), and, strongly,
that the settlement of a payment with its current refund happens if it is possible
again and again: the provider repeats a webhook until it is answered with
success, and a settlement that finds its checkout locked waits for the
lock. Nothing is assumed of buyers, administrators, browser callbacks or of
`BindOrder`, which may never run.

`Relay` assumes that a running process finishes the requests it has begun or fails them, no more
than `MaxFailures` times (a failing statement is no part of the fair step), and that the
sender repeats an event until it is answered with success (the outbox pattern of
`apps/api/README.md:28`). It assumes nothing of delivery workers: no code enqueues a delivery
job, and whether the sweep runs depends on how BullMQ treats `worker.run()` in a timer; so no
property says that a delivery is ever made.

`Office` (`FairSpec`) assumes that the job runs again (every five minutes, `HOSTING_CHECKLIST.md:30`) and
that a transaction once begun ends, in a commit or a failure.

## 5. Proofs

Every theorem holds for all values of the constants that satisfy the module's
`ConstantsAssumption` (finite sets of rows, owners and orders that exist, positive
price and limits; finitely many events and workers in `Relay`; in `LockOrder`, that a pending
term and a current one are two rows; in `Clients`, the conjunction of its modules' assumptions,
`ClientsAssumption`); TLC evaluates these assumptions in the runs. Bounds such as `MaxTime` and
`MaxOpen` are arbitrary numbers. Every safety property and every action property of the passing runs
has a theorem, and so has the refinement.

`BillingProofs`, `BillingSteps`:

* `TypeCorrect`: `TypeOK` is inductive.
* `OneTermInForce`: `OneCurrentTerm` is inductive with the types: each action lets at
  most one term enter, and then none of the same subscriber is left in force.
* `Settlement`: `SettlementInv` is inductive. The properties one wants (`PaidTermIsFunded`
  and so on) are not: that a term in force is funded depends on its checkout being
  bound to a payment with a ledger row; that the ledger row's checkout is still that one
  depends on no other payment being bound; that the job never expires a paid order depends
  on rows it holds being open and unpaid, and on its stale read of a term being out of
  date only for a term already retired. `SettlementInv` is the conjunction of these links,
  one named part each. The proof has one lemma per action or family of actions:
  term moves that keep a checkout's part of the contract (`TermsMoveLawfully`), steps that
  touch none of the linked rows (`QuietStepKeeps`), the expiry of a set (`ExpiryKeeps`),
  and what every settlement writes (`RecordKeeps`).
* From it, as invariants: `FundedTerms`, `FullRefunds`, `LedgerIsTrue`,
  `CommissionIsBacked`, `OneOrderAtATime`; as action properties: `MoneyIsMonotonic`,
  `RetiredIsFinal`, `VersionsIdentify`, `ActivationIsTimely`, `ReplacementIsQuoted`,
  `PartialRefundsLeaveAccess`. `EveryStepLawful` lists the ways a term may change in
  one step, and everything about terms follows from that list.
* `BillingKeepsContract`: `Billing` implements `CheckoutContract`. `EveryStepStages` shows
  that each step is an expiry of a set with perhaps a new order, a grant, a review, a
  revocation, or moves no stage and adds no access.
* `AnnouncementsAreNew`: that no outbox key is used twice needs `OutboxFollowsLedger`: a
  checkout's announcements are of the payment it is bound to and of no larger refund than the
  ledger records, and a row with a refund agrees with its checkout's status. With `SettlementInv`,
  whatever is announced next is of a status or a refund the outbox has not seen.
* `CouponsAreKept`: `RedemptionInv` adds that only a term that exists holds a coupon. The rest is
  counting: a coupon's counter stays the cardinality of the redemptions that hold it, also when
  the expiry releases several at once after a stale read, so the lemmas are about a set that
  leaves and not about one order.

`Sums`, `UsageProofs`: `UsageInv` adds to the limits what an open request relies on (`Holds`): the
counter is as it read it, the amount is still allowed, the term still active, and the
subscription locked by nobody else. From it `LimitsHold`, `GrantsHold`, `PeriodsHold` and, for
every step, `EventsAndCountersMoveTogether`. `CountsHold` adds `CountInv`: every counter is the
sum of its events. A sum over a finite set is recursive and the library's induction cannot be
cited, so the proof takes a smallest set for which the claim fails: `StrictSubsetOrdering` is well
founded, and a smallest set without one element is no exception. That the sum exists, whatever
the order (`FoldExists`, `FoldsAgree`), and that one new event adds its delta (`TotalTakesOut`) are
proved that way in `Sums`.

`RelayProofs`: `RelayInv` is the types and three parts. `IntakeInv`: whoever is past the
creation of an event's row is alone with that event, and marks it only when every endpoint has its
delivery. `WorkInv`: at most one worker is at work on a delivery; it has counted its attempt, and
the row is open under its lease or, until the catch writes again, `FAILED`. `BudgetInv`: an
unlocked read may go on although the attempts are used up meanwhile, so they are bounded only
together with the readers still hopeful, the crashes so far, and whether the attempt at hand is
the last. From it `ActorsStayApart`, `RelayIsFaithful` and, for every step, `DeliveryIsFinal`.

`OfficeProofs` proves `Notifications` and `Payouts` as the instances that `Office` makes of
them:

* `NoticesInv`: who has read the recipients is alone on the notice, which is unsent, and what is
  unsent has no deliveries. Hence a notice is announced once and a cancelled one to nobody.
* `PayoutsInv` has the same shape: an open payout is covered by the balance *now*, because nobody
  else can enter anything for its affiliate. That needs no arithmetic of sums: a balance is a
  function of its affiliate's entries (`BalanceIsLocal`), and those do not change. Hence
  `PayoutsStayCovered`, and what was answered is in the ledger (both in `AnswersStand`).
* `OfficeTypes` and `OfficeCirclesAreKnown` carry types and lock order to the composition.
* An instance brings its own copies of the library's operators, which the provers take for
  others; `SameOperators` says once that they are the same.

The order of locks, in `OfficeProofs` too: theorem `CirclesStayKnown`, for any number of
transactions. TLC searches the circles of three; a proof has to say why no longer one exists.

* `JobsObey`: every sequence a handler may take, those of an expiry of any set included, follows a
  table. `Orders` gives the classes of lock a handler may hold when it asks for a class, `Asks`
  which row of that class it asks for. Sequences are folded over lists of any length here, and
  the argument is again by a smallest exception.
* `LocksInv`: transactions follow their handlers, hold something, and no two hold conflicting
  rows (`Exclusive`). Theorem `LocksAreTaken`.
* Suppose a circle in which nobody waits backwards. Nobody in it waits for a term: its holder
  would hold the subscriber as well, or be a transaction of one row, which waits for nothing
  (`NoTermIsAwaited`). Nor for a checkout: who holds one without its subscriber is the job, which
  from there on asks for terms or backwards (`NoCheckoutIsAwaited`). Every other wait is for a
  class higher than all its waiter has (`HeightsRise`), so whoever waits for the highest waits
  for one who waits higher (`SomeoneWaitsBackwards`): there is none.

`ClientsProofs`: the other sides of `Clients`. `SidesInv` is, like `RowsInv` below, an inductive
invariant for each of them, preserved whichever moves; from it `SessionsHold`, `ScreensAreRight`,
`AccessIsBounded` and, with `RowsInv`, `ClientsAreTyped`.

* `ThrottleInv` says that a window's counter is what it refused since the last success, and that a
  window whose counter is full is blocked until a lockout after an arrival in it. Hence whoever
  arrives later in that window is turned away if a lockout is at least a window, and what remains
  are logins past the check: `GuessesAreCapped` is then an induction on refused passwords *and*
  logins in flight together, for which the library's cardinality facts are cited. Theorem
  `ThrottleIsKept`; assumed: positive limit, window and lockout, finitely many logins at once.
* `SessionInv`, theorem `SessionIsKept`: a tab's present page has at most one request of a kind under
  way (`OneRestore`), so that its answer ends the waiting of all who wait. `SpentOnlyAfterLoss` and
  `CookieIsCurrent` speak of behaviours without loss, and need what is still travelling: every
  number on its way was issued (`NumbersAreIssued`), an answer's number is accepted and known to no
  tab, caller, cookie or other request (`AnswersAreNew`), and as long as nothing is lost each tab has
  one number, nobody else's, and the cookie is accepted or the refresh that spends it is on its
  way back (`Lossless`). The last clause is for another tab that signs in or restores meanwhile.
* Pages. Four properties are nearly inductive (`NavigationInv`, `RegistrationInv`, `PartnersInv`,
  `UserListInv`). A banner tells a sending because the answer on its way does, and what was
  sent stays sent (`NoticesPageInv`). Of the list of users, whatever totals its answers tell: a page
  past the first was reached on a total that had it (`PagesWerePromised`), so one without rows
  means that a smaller one was counted since. A form makes one order because what its list shows as
  there to be paid does not go back (`PaymentsInv`).
* User panel (`UserPanelInv`): as long as no other administrator has changed the user, no answer
  was lost, no two requests met and no panel was closed on its request, the detail is the state of
  the user, except while the answer of its one change is on the way, which is that state then
  (`AloneKnows`): a reason was given for the change it made.
* Reports (`ReportsInv`): between its two statements a summary has counted no more than is
  there now (`TrendWillHold`), because rows are only added and a sum of more is no less
  (`SumOfMore` of `Sums`).
* Adapter (`AdapterInv`): a subscription at which no two requests met and none failed half-way has
  one request at most, which records the status it has written (`Undisturbed`); a token was read
  while its subscription was active, also when it is signed later (`ActiveWhenRead`, `TokenIsRead`).
* SDK (`SdkInv`): no token on its way or in the cache expires later than its life from now
  (`ExpiriesAreNear`), and what had effect is remembered, or is older than the replay window
  admits (`EffectsAreKnown`).

`RowsProofs`: theorem `RowsAreKept` for the invariant `RowsHold`, `StepsAreKept` for the actions of
`StepsHold`. `RowsInv` is the conjunction of an inductive invariant for each side. All of them are
preserved whichever side moves: a side takes a step of its own or none (`EachMoves`). What carries
the proofs is what a page still holds while others write:

* Plans and coupons (`PlansInv`, `CouponsInv`): whatever a list, a dialog or a save has taken over is
  the row as it is, or of a version before it (`PlansAreKnown`, `CouponIsKnown`). Therefore a save
  whose version is accepted was made over the present row. A coupon is granted as shown
  because an order that holds it has a redemption, and its counter is their number.
* Manual terms (`TermsInv`): at most one term is in the way of a new one (`OneInTheWay`), and a row
  the page has seen is of an older version, or the row but for the end of its period
  (`SeenBefore`): a change whose version is accepted was made on the status as seen.
* Storefront (`StorefrontInv`): what a request names was on offer when its plans were counted, and is
  still, or was crossed by an archival, or is deleted and cannot be written (`CountedWereOffered`). A
  screen or a request of the present version hides what is hidden, but for plans retired since
  (`ScreenIsPast`, `RequestsArePast`).
* Forms without a version (`FormsArePast`): what a form was filled from is an earlier state of the
  row, and only such a form undoes what another has done.
* Keys (`KeysInv`): they are numbered without a gap, the last one is active, and every rotation
  under way has found a prefix of them. One that has found all replaces the last; one that has
  found fewer asks for a number that is taken. `Alone` is what a rotation without competitors adds.

Only model-checked:

* the liveness properties, `CaptureIsRecorded`, `RefundRevokes` and `OpenCheckoutCloses` of
  `progress`, `ReceivedIsProcessedUnlessStranded` and `DueIsDispatched`: fairness and ENABLED are
  beyond the prover;
* the violations of section 6, which are examples and need no proof.

## 6. Where documentation and code disagree

* `archiving`: RAZORPAY.md:102-103 says archiving prevents automatic activation. A verify or
  reconcile request loads the application with its authorization and then waits for the
  provider; an application archived meanwhile is not read again, and the payment activates its
  term. The webhook, which loads it under its locks, keeps the promise.
* `adapter_refused`: `apps/api/README.md:31-32` promises coupons validated and applied, and usage
  consumed within its limit. `UsageCounter.subscriber` and `CouponRedemption.subscriber`
  (`schema.prisma:284`, `:371`) are foreign keys from `subscriptionId` to the subscribers, whose
  ids are drawn apart from the subscriptions': the first use of a feature and every redemption is
  refused by the database, whatever the limits say. No other property of these two services is
  checked: with the schema as it is they write nothing.
* `relay_crash`: `routes/control.ts:188` says an event is stored idempotently; after a crash, or a
  statement that fails, between its two rows every repetition fails on the second, and the event
  stays pending.

Without a run: RAZORPAY.md:84-85 says reservations of abandoned orders are not released
automatically yet, while lines 90-92, written later, and `expire_stale_checkouts` say and do
otherwise; and a subscriber restricted between the unlocked read and the activation of a plan
without payment gets it (`payments/integration.py:183`), where RAZORPAY.md:102-103 speaks
of payments.

Two more are met in `clients` and stated there as the exceptions of its properties: the SDK's
tokens and events (section 2), and what an archival leaves in a design published meanwhile.

And one without a sentence against it: `payments/service.py:397` locks subscriber, checkout,
subscription "to serialize activation", and `LockOrder` names every wait against that order
(`Backwards`): a free plan for its subscriber (`payments/integration.py:249-275`); an expiry, by
the job or at the start of an order, that holds one checkout and waits for another, or holds a
released coupon and waits for another or for the plan; a coupon's scope and a storefront's items,
whose foreign keys wait for plans. Each can close a circle, whose victim's request fails with an
error nobody retries; without these, none closes, which is proved (section 5). In the instance of `office` each of these
waits is needed but for those of an expiry for a coupon: their circle takes a third lapsed order.

## 7. What could come next

* An abstract specification of `Relay` (an event is owed to an endpoint until it is taken
  or given up) and the refinement.

## 8. Not modelled

* Pages of `apps/web` that no route of `App.tsx` reaches (products, offers, marketing, customers,
  monitoring, dashboard, and the older lists of affiliates, subscriptions, plans, coupons,
  reports and notifications), and `productApi.ts`: they never run. Layout and wording of the others.
* `POST /auth/logout`, which no page calls; the cleaning of old login attempts, which nothing
  calls; `record_health`, whose rows are only shown; `create_subscriber` and the bootstrap of an
  owner, one insert each under a unique key.
* Governance: audit rows are written by every operation and decide nothing; permissions are
  replaced whole, and what losing one does to the console is in `ConsoleNavigation`;
  `create_team_member` writes a user and its permissions once, under the unique email.
* The figures of overview and reports: sums of what the modelled rows say.
* Migrations and schemas (generated or declarative), HTTP parsing and formatting, cryptography
  (signatures and password hashes are taken to do what they promise).
