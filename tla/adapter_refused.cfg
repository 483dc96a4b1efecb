SPECIFICATION Spec
CONSTANTS
  Uuids = {"u1", "u2", "u3"}
  Plans = {"pro"}
  Features = {"scans"}
  Entitlement <- ScansAreLimited
  Amounts = {1, 2}
  Keys = {"k1", "k2"}
  Callers = {"c1", "c2"}
  CouponPlans = {"pro"}
  FirstOnly = TRUE
  Affiliate = TRUE
  Maximum = 2
  PerSubscriber = 1
  NoRow = NoRow
  NoTx = NoTx
PROPERTIES
  RefusalsAreDeserved
CHECK_DEADLOCK FALSE
