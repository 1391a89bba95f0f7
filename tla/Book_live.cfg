SPECIFICATION LiveSpec
CONSTANTS
  Tills = {t1}
  Devices = {d1}
  Blanks = {b1}
  LastDay = 2
  Horizon = 1
  Target = 1
  PushLimit = 1
  PullLimit = 1
  ClockSkew = 1
  SaleRates = {"CATEGORY"}
  Reissued = {}
  Retired = {}
  Switched = FALSE
  t1 = t1
  d1 = d1
  b1 = b1
  NoKey = NoKey
  NoTill = NoTill
PROPERTIES
  SaleFollowsClock
  StaleBlanksExpire
  QueueDrains
CHECK_DEADLOCK FALSE
