SPECIFICATION Spec
CONSTANTS
  Subs = {"s1", "s2"}
  Features = {"scans", "exports"}
  Keys = {"k1", "k2"}
  Callers = {"c1", "c2"}
  Ops = {"scan"}
  Amounts = {1, 2}
  MaxTime = 2
  StartsAt <- MCStartsAt
  EndsAt <- MCEndsAt
  Window <- MCWindow
  Snapshot <- MCSnapshot
  NoTx = NoTx
  NoEvent = NoEvent
INVARIANTS
  TypeOK
  WithinLimit
  CountsAreTrue
  GrantsAreRecorded
PROPERTIES
  OneEventOneIncrement
CHECK_DEADLOCK FALSE
