SPECIFICATION Spec
CONSTANTS
  NTickets = 2
  Late = {1}
  Tomorrow = {}
  Elsewhere = {1, 2}
  LastDay = 0
  LastTick = 3
  PageSize = 1
  Overlap = 2
  CursorLimit = 2
  TxLimit = 1
  LookupLimit = 0
  Shown = {}
INVARIANTS
  TypeOK
  StaleIsResent
CHECK_DEADLOCK FALSE
