SPECIFICATION Spec
CONSTANTS
  Tills = {t1}
  Devices = {d1}
  Blanks = {b1, b2, b3}
  LastDay = 0
  Horizon = 0
  Target = 1
  PushLimit = 1
  PullLimit = 2
  ClockSkew = 0
  SaleRates = {"STANDARD"}
  Reissued = {d1}
  Retired = {}
  Switched = FALSE
  t1 = t1
  d1 = d1
  b1 = b1
  b2 = b2
  b3 = b3
  NoKey = NoKey
  NoTill = NoTill
SYMMETRY Symmetry
INVARIANT BookIsBounded
CHECK_DEADLOCK FALSE
