SPECIFICATION MCSpec
CONSTANTS
  Callers = {"c1", "c2"}
  None = None
  Refused = Refused
  NotSent = NotSent
  NoAnswer = NoAnswer
  MaxAttempts = 2
  LoginWindow = 2
  Lockout = 2
  MaxMinute = 4
  Tabs = {"t1", "t2"}
  Calls = {"q1"}
  MaxIssued = 3
  MaxLost = 1
  Apps = {"a1", "a2"}
  Slugs = {"a1", "a2"}
  Searches = {"s1", "s2"}
  Filters = {"f1", "f2"}
  Totals = {0, 1, 2}
  MaxAsked = 2
  MaxKept = 2
  MaxAudit = 3
  MaxFlights = 2
  Orders = {"o1", "o2"}
  MaxTries = 3
  Partners = {1, 2}
  MaxSent = 1
  Notices = {1}
  Clicks = {"c1", "c2"}
  MaxAudience = 1
  MaxDay = 1
  MaxRows = 1
  ExportLimit = 1
  Priced = {"scans"}
  Contents = {"x"}
  MaxVersion = 3
  Discounts = {"d1", "d2"}
  MaxRevision = 3
  Terms = {"t1", "t2"}
  MaxChange = 3
  MaxGrants = 2
  MaxKey = 4
  Names = {n1, n2}
  Urls = {n1}
  MaxEdit = 3
  MaxSaves = 2
  Plans = {p1}
  MaxEdition = 2
  MaxPublishes = 2
  Ids = {"i1", "i2"}
  TenantOf <- OneTenant
  StartsAt <- StartOfEach
  Grants <- GrantOfEach
  Workers = {"w1", "w2"}
  TTL = 1
  MaxHour = 1
  CachedTenants = {"t"}
  Grace = 1
  Replay = 1
  Skew = 1
  LastEdition = 1
  MaxClock = 2
  MaxFetches = 2
INVARIANTS
  ClientsTypeOK
  SessionHolds
  ScreensHold
  RowsHold
  AccessHolds
PROPERTIES
  StepsHold
CHECK_DEADLOCK FALSE
