SPECIFICATION Spec
CONSTANTS
  NTickets = 3
  Late = {1}
  Tomorrow = {3}
  Elsewhere = {1}
  LastDay = 1
  LastTick = 0
  PageSize = 1
  Overlap = 1
  CursorLimit = 0
  TxLimit = 0
  LookupLimit = 0
  Shown = {1, 3}
INVARIANTS
  AdmittedOnce
  AdmissionIsAccounted
PROPERTIES
  RolloverBlocks
CHECK_DEADLOCK FALSE
