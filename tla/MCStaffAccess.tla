--------------------------- MODULE MCStaffAccess ---------------------------
EXTENDS StaffAccess, TLC

CONSTANTS a1, a2

\* Both start as administrators: they are interchangeable.
Symmetry == Permutations({a1, a2})
=============================================================================
