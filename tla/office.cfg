SPECIFICATION FairSpec
CONSTANTS
  Notices = {"n1", "n2", "n3"}
  ToAll <- OneNotice
  Audience = {"s1"}
  Clerks = {"clerk"}
  Job = "job"
  Limit = 2
  MaxTime = 1
  MaxCrashes = 1
  NoNotice = NoNotice
  Affiliates = {"a1", "a2"}
  References = {"x1", "x2"}
  Payments = {2}
  Callers = {"c1", "c2"}
  NoEntry = NoEntry
  Redemptions = {"r1", "r2"}
  Currencies = {"INR", "USD"}
  PartnerOf <- EarningPartner
  CurrencyOf <- CurrencyOfEach
  Commission = 2
  Corrections <- OneCorrection
  Subscribers = {"s1", "s2"}
  Checkouts = {"k1", "k2"}
  OwnerOf <- OwnerOfEach
  CouponOf <- CouponOfEach
  Coupons = {"g1", "g2"}
  Plans = {"p1"}
  MaxOpen = 3
INVARIANTS
  OfficeTypeOK
  AnswersHold
  CirclesAreKnown
PROPERTIES
  PayoutsAreCovered
  DueIsDispatched
CHECK_DEADLOCK FALSE
