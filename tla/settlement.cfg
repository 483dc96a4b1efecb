SPECIFICATION Spec
CONSTANTS
  Subs = {"s1"}
  Keys = {"k1"}
  Grants = {"g1"}
  Pays = {"p1", "p3"}
  Coupons = {"c1"}
  AffiliateCoupons = {"c1"}
  Owner <- OneOwner
  PayFor <- PayOrders
  NoTerm = NoTerm
  NoPay = NoPay
  NoCoupon = NoCoupon
  FullAmount = 2
  MaxRedemptions = 2
  PerSubscriber = 1
  ExpiryAge = 0
  TermLength = 1
  MaxTime = 1
  LastStart = 1
  MaxVersion = 3
  Restrictable = {"s1"}
  Archivable = TRUE
INVARIANTS
  PaidTermIsFunded
  LedgerFollowsProvider
  OutboxKeysFresh
PROPERTIES
  MoneyNeverRegresses
  PartialRefundKeepsAccess
  NoActivationAfterRefundOrExpiry
CHECK_DEADLOCK FALSE
