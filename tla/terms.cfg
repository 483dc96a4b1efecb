SPECIFICATION Spec
CONSTANTS
  Subs = {"s1"}
  Keys = {"k1", "k2"}
  Grants = {"g1"}
  Pays = {"p1", "p2"}
  Coupons = {}
  AffiliateCoupons = {}
  Owner <- OneOwner
  PayFor <- PayOrders
  NoTerm = NoTerm
  NoPay = NoPay
  NoCoupon = NoCoupon
  FullAmount = 1
  MaxRedemptions = 1
  PerSubscriber = 1
  ExpiryAge = 0
  TermLength = 1
  MaxTime = 1
  LastStart = 1
  MaxVersion = 2
  Restrictable = {}
  Archivable = FALSE
INVARIANTS
  TypeOK
  OneCurrentTerm
  OneCustomerCheckout
PROPERTIES
  RetiredStaysRetired
  PaymentReplacesOnlyTheQuotedTerm
  VersionsAdvance
  ImplementsContract
CHECK_DEADLOCK FALSE
