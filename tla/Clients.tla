----------------------------- MODULE Clients -------------------------------
(***************************************************************************)
(* The programs around the Control Centre, each against its part of the    *)
(* server: its login, the pages of the console, the adapter's              *)
(* subscriptions and the SDK.  They share no variable and none reads       *)
(* another's, so a behaviour moves one of them only (`side`), and the      *)
(* others wait in an initial state: what is found is what their            *)
(* interleavings would show.                                               *)
(***************************************************************************)
EXTENDS Integers, FiniteSets

CONSTANTS
  None,                \* no row, no dialog, no answer, ...
  Refused, NotSent, NoAnswer,
  \* the login and the session
  Callers, MaxAttempts, LoginWindow, Lockout, MaxMinute, Tabs, Calls, MaxIssued, MaxLost,
  \* pages of one owner
  Apps, Slugs, Searches, Filters, Totals, MaxAsked, MaxKept, MaxAudit, MaxFlights, Orders,
  MaxTries, Partners, MaxSent, Notices, Clicks, MaxAudience, MaxDay, MaxRows, ExportLimit,
  \* rows with other owners
  Priced, Contents, MaxVersion, Discounts, MaxRevision, Terms, MaxChange, MaxGrants, MaxKey,
  Names, Urls, MaxEdit, MaxSaves, Plans, MaxEdition, MaxPublishes,
  \* the adapter's subscriptions and the SDK
  Ids, TenantOf, StartsAt, Grants, Workers, TTL, MaxHour,
  CachedTenants, Grace, Replay, Skew, LastEdition, MaxClock, MaxFetches

VARIABLES
  side,
  issued, current, cookie, store, waiting, posts, call, lost,
  granted, fetched, cached, broken, url, products, chosen, draft, asked, overview,
  registered, showForm, slugTyped, requests, pending, keyShown, copied, unseen,
  features, ticks, plan, inUse, listed, dialog, saving,
  coupon, redeemed, couponListed, couponForm, couponSave,
  searchTyped, key, usersAsked, counted, shown, failed, relied,
  restrictedAt, userAudit, detail, reading, panel, changing, flights, disturbed,
  orders, captured, ordersListed, requestKey, forms, busy, tries, tried, script,
  terms, termsListed, termChosen, assigning, changes,
  partner, listedPartner, selectedId, creating, partnerDialog, openedFor, shaken, sent,
  credential, rotations, rotated, secret, crowded,
  notices, audience, noticesListed, noticeForm, noticeCall, banner,
  today, made, range, reports, file,
  application, appList, appStore, general, generalSaves,
  offer, design, crossed, plansListed, designShown, publishing, blind,
  hour, subscribers, subscription, trail, serving, statusMoved, lastActive, token,
  minute, attempts, blockedUntil, verifying, failures,
  clock, issuer, events, cache, fetches, tokens, processed, effects, told, late, admitted

sessionVars == <<issued, current, cookie, store, waiting, posts, call, lost>>
navigationVars == <<granted, fetched, cached, broken, url, products, chosen, draft, asked,
  overview>>
registrationVars == <<registered, showForm, slugTyped, requests, pending, keyShown, copied,
  unseen>>
plansVars == <<features, ticks, plan, inUse, listed, dialog, saving>>
couponPageVars == <<coupon, redeemed, couponListed, couponForm, couponSave>>
userListVars == <<searchTyped, key, usersAsked, counted, shown, failed, relied>>
userPanelVars == <<restrictedAt, userAudit, detail, reading, panel, changing, flights, disturbed>>
paymentsVars == <<orders, captured, ordersListed, requestKey, forms, busy, tries, tried, script>>
termsVars == <<terms, termsListed, termChosen, assigning, changes>>
partnersVars == <<partner, listedPartner, selectedId, creating, partnerDialog, openedFor,
  shaken, sent>>
credentialsVars == <<credential, rotations, rotated, secret, crowded>>
noticesVars == <<notices, audience, noticesListed, noticeForm, noticeCall, banner>>
reportsVars == <<today, made, range, reports, file>>
settingsVars == <<application, appList, appStore, general, generalSaves>>
storefrontVars == <<offer, design, crossed, plansListed, designShown, publishing, blind>>
adapterVars == <<hour, subscribers, subscription, trail, serving, statusMoved, lastActive, token>>
throttleVars == <<minute, attempts, blockedUntil, verifying, failures>>
sdkVars == <<clock, issuer, events, cache, fetches, tokens, processed, effects, told, late,
  admitted>>

-----------------------------------------------------------------------------
(* The login, and the console.                                             *)

Throttle == INSTANCE LoginThrottle WITH Window <- LoginWindow, NotServed <- None

Session == INSTANCE ConsoleSession

Navigation == INSTANCE ConsoleNavigation WITH NoApp <- None, NoList <- None

Registration == INSTANCE ConsoleRegistration WITH
  NoSlug <- None, NoSecret <- None, typed <- slugTyped, secret <- keyShown

PlanEditor == INSTANCE ConsolePlans WITH
  Features <- Priced, NoRow <- None, NoDialog <- None, NoSave <- None

CouponEditor == INSTANCE ConsoleCoupons WITH
  NoCoupon <- None, NoForm <- None, NoRequest <- None

UserList == INSTANCE ConsoleUserList WITH
  NoKey <- None, typed <- searchTyped, asked <- usersAsked

UserPanel == INSTANCE ConsoleUserPanel WITH Unknown <- None

PaymentsPanel == INSTANCE ConsolePayments

TermEditor == INSTANCE ConsoleTerms WITH NoTerm <- None

PartnersPage == INSTANCE ConsolePartners WITH NoPartner <- None

Credentials == INSTANCE ConsoleCredentials WITH NoSecret <- None

NoticesPage == INSTANCE ConsoleNotices WITH NoBanner <- None

Reports == INSTANCE ConsoleReports WITH NoReport <- None, NoFile <- None

Settings == INSTANCE ConsoleSettings WITH NoPage <- None

Storefront == INSTANCE ConsoleStorefront WITH NoDesign <- None, NoPlan <- None

-----------------------------------------------------------------------------
(* The adapter's subscriptions, and the SDK.                               *)

Adapter == INSTANCE AdapterSubscriptions WITH
  NoRow <- None, NoToken <- None, disturbed <- statusMoved

Sdk == INSTANCE SdkEntitlements WITH
  Tenants <- CachedTenants, Window <- Replay, MaxEdition <- LastEdition, Nothing <- None

ASSUME ClientsAssumption ==
  /\ Throttle!ConstantsAssumption /\ Session!ConstantsAssumption
  /\ PlanEditor!ConstantsAssumption /\ CouponEditor!ConstantsAssumption
  /\ TermEditor!ConstantsAssumption /\ Credentials!ConstantsAssumption
  /\ Settings!ConstantsAssumption /\ Storefront!ConstantsAssumption
  /\ Navigation!ConstantsAssumption /\ Registration!ConstantsAssumption
  /\ UserList!ConstantsAssumption /\ UserPanel!ConstantsAssumption
  /\ PaymentsPanel!ConstantsAssumption /\ NoticesPage!ConstantsAssumption
  /\ Reports!ConstantsAssumption
  /\ Adapter!ConstantsAssumption /\ Sdk!ConstantsAssumption

-----------------------------------------------------------------------------
\* What moves on one side, and waits on the others.
Moves(s, step, its) == IF side = s THEN step ELSE UNCHANGED its

Sides ==
  {"login", "session", "navigation", "registration", "plans", "coupons", "users",
   "user", "payments", "terms", "partners", "credentials", "notices", "reports", "settings",
   "storefront", "adapter", "sdk"}

\* What is asked of the side that moves; those that wait stay where they started.
Of(s, its) == side = s => its

ClientsInit ==
  /\ side \in Sides
  /\ Throttle!Init /\ Session!Init /\ Navigation!Init /\ Registration!Init
  /\ PlanEditor!Init /\ CouponEditor!Init /\ UserList!Init /\ UserPanel!Init
  /\ PaymentsPanel!Init /\ TermEditor!Init /\ PartnersPage!Init /\ Credentials!Init
  /\ NoticesPage!Init /\ Reports!Init /\ Settings!Init /\ Storefront!Init
  /\ Adapter!Init /\ Sdk!Init

ClientsNext ==
  /\ UNCHANGED side
  /\ Moves("login", Throttle!Next, throttleVars)
  /\ Moves("session", Session!Next, sessionVars)
  /\ Moves("navigation", Navigation!Next, navigationVars)
  /\ Moves("registration", Registration!Next, registrationVars)
  /\ Moves("plans", PlanEditor!Next, plansVars)
  /\ Moves("coupons", CouponEditor!Next, couponPageVars)
  /\ Moves("users", UserList!Next, userListVars)
  /\ Moves("user", UserPanel!Next, userPanelVars)
  /\ Moves("payments", PaymentsPanel!Next, paymentsVars)
  /\ Moves("terms", TermEditor!Next, termsVars)
  /\ Moves("partners", PartnersPage!Next, partnersVars)
  /\ Moves("credentials", Credentials!Next, credentialsVars)
  /\ Moves("notices", NoticesPage!Next, noticesVars)
  /\ Moves("reports", Reports!Next, reportsVars)
  /\ Moves("settings", Settings!Next, settingsVars)
  /\ Moves("storefront", Storefront!Next, storefrontVars)
  /\ Moves("adapter", Adapter!Next, adapterVars)
  /\ Moves("sdk", Sdk!Next, sdkVars)

clientsVars == <<
  side, throttleVars, sessionVars, navigationVars, registrationVars, plansVars,
  couponPageVars, userListVars, userPanelVars, paymentsVars, termsVars, partnersVars,
  credentialsVars, noticesVars, reportsVars, settingsVars, storefrontVars, adapterVars,
  sdkVars>>

ClientsSpec == ClientsInit /\ [][ClientsNext]_clientsVars

-----------------------------------------------------------------------------
(* Properties, see the modules.                                            *)

\* Every variable has its type.
ClientsTypeOK ==
  /\ side \in Sides
  /\ Of("login", Throttle!TypeOK)
  /\ Of("session", Session!TypeOK) /\ Of("navigation", Navigation!TypeOK)
  /\ Of("registration", Registration!TypeOK) /\ Of("plans", PlanEditor!TypeOK)
  /\ Of("coupons", CouponEditor!TypeOK) /\ Of("users", UserList!TypeOK)
  /\ Of("user", UserPanel!TypeOK) /\ Of("payments", PaymentsPanel!TypeOK)
  /\ Of("terms", TermEditor!TypeOK) /\ Of("partners", PartnersPage!TypeOK)
  /\ Of("credentials", Credentials!TypeOK) /\ Of("notices", NoticesPage!TypeOK)
  /\ Of("reports", Reports!TypeOK) /\ Of("settings", Settings!TypeOK)
  /\ Of("storefront", Storefront!TypeOK) /\ Of("adapter", Adapter!TypeOK)
  /\ Of("sdk", Sdk!TypeOK)

\* Signing in: guesses are limited and locks end; and a session refreshed by several callers
\* of several tabs: no caller waits for ever, a spent cookie is left only by a lost answer, and
\* what is sent again carries the new token.
SessionHolds == Of("login", Throttle!ThrottleHolds) /\ Of("session", Session!SessionHolds)

\* What a page shows and sends belongs to what it was opened on: forms to their application,
\* rows to their filters, dialogs to their partner, a payment to one order, a banner to a
\* sending, a file to its rows, a secret to the eyes it was made for.
ScreensHold ==
  /\ Of("navigation", Navigation!NavigationHolds)
  /\ Of("registration", Registration!NoKeyUnseen)
  /\ Of("users", UserList!UserListHolds)
  /\ Of("user", UserPanel!UserPanelHolds)
  /\ Of("payments", PaymentsPanel!PaymentsPanelHolds)
  /\ Of("partners", PartnersPage!DialogsKeepTheirPartner)
  /\ Of("notices", NoticesPage!NoticesHold)
  /\ Of("reports", Reports!ReportsHold)

\* What the server keeps while pages and other owners write: versions that identify their
\* rows, coupons granted as shown, one current term, one active key, no retired plan on offer.
RowsHold ==
  /\ Of("plans", PlanEditor!VersionsIdentify)
  /\ Of("coupons", CouponEditor!CouponsHold)
  /\ Of("terms", TermEditor!OneManualTerm)
  /\ Of("storefront", Storefront!RetiredPlansAreGone)
  /\ Of("credentials", Credentials!CredentialsHold)

\* Access given by the adapter's tokens and by the SDK's cache: no more and no longer than the
\* subscription, but for the divergences their modules name.
AccessHolds == Of("adapter", Adapter!AdapterHolds) /\ Of("sdk", Sdk!SdkHolds)

\* What a step may not do: save over what was not seen, undo what another did, show a plan
\* that was hidden, change history.
StepsHold ==
  /\ PlanEditor!NothingSavedUnseen /\ PlanEditor!HistoryStays
  /\ TermEditor!DoneAsSeen
  /\ Settings!UndoneOnlyByOldForms
  /\ Storefront!HiddenStaysHidden
=============================================================================
