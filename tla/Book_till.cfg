SPECIFICATION Spec
CONSTANTS
  Tills = {t1}
  Devices = {d1}
  Blanks = {b1, b2}
  LastDay = 1
  Horizon = 1
  Target = 1
  PushLimit = 2
  PullLimit = 1
  ClockSkew = 1
  SaleRates = {"STANDARD"}
  Reissued = {}
  Retired = {d1}
  Switched = TRUE
  t1 = t1
  d1 = d1
  b1 = b1
  b2 = b2
  NoKey = NoKey
  NoTill = NoTill
SYMMETRY Symmetry
INVARIANTS
  SaleHasGuest
  GuestGetsIn
  TypeOK
  NoBlankSoldTwice
  SaleIsAccounted
CHECK_DEADLOCK FALSE
