SPECIFICATION Spec
CONSTANTS
  MaxRows = 4
  CreatedAt <- MCCreatedAt
  BatchSize = 2
  InFlight = 2
  Touched = {1, 2, 4}
  Filters <- MCFilters
INVARIANTS
  NothingIsMissed
  BoardedWithinExpected
