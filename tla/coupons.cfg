SPECIFICATION Spec
CONSTANTS
  Subs = {"s1", "s2"}
  Keys = {"k1", "k2"}
  Grants = {"g1"}
  Pays = {"p1"}
  Coupons = {"c1"}
  AffiliateCoupons = {"c1"}
  Owner <- TwoOwners
  PayFor <- PayOrders
  NoTerm = NoTerm
  NoPay = NoPay
  NoCoupon = NoCoupon
  FullAmount = 1
  MaxRedemptions = 1
  PerSubscriber = 1
  ExpiryAge = 0
  TermLength = 1
  MaxTime = 1
  LastStart = 1
  MaxVersion = 1
  Restrictable = {}
  Archivable = FALSE
INVARIANTS
  RefundLeavesNothing
  CommissionFollowsMoney
  RedemptionsAreAccounted
CHECK_DEADLOCK FALSE
