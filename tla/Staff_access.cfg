SPECIFICATION Spec
CONSTANTS
  a1 = a1
  a2 = a2
  None = None
  Staff = {a1, a2}
  Admins = {a1, a2}
  MaxFailures = 1
  MaxResets = 1
  MaxRequests = 3
SYMMETRY Symmetry
INVARIANTS TypeOK LockoutNeedsCompany NobodyInOnAnOldPassword NothingIsOrphaned
CHECK_DEADLOCK FALSE
