SPECIFICATION FairSpec
CONSTANTS
  Subs = {"s1"}
  Keys = {"k1"}
  Grants = {"g1"}
  Pays = {"p1", "p3"}
  Coupons = {}
  AffiliateCoupons = {}
  Owner <- OneOwner
  PayFor <- PayOrders
  NoTerm = NoTerm
  NoPay = NoPay
  NoCoupon = NoCoupon
  FullAmount = 2
  MaxRedemptions = 1
  PerSubscriber = 1
  ExpiryAge = 0
  TermLength = 1
  MaxTime = 1
  LastStart = 0
  MaxVersion = 1
  Restrictable = {}
  Archivable = FALSE
PROPERTIES
  CaptureIsRecorded
  RefundRevokes
  OpenCheckoutCloses
CHECK_DEADLOCK FALSE
