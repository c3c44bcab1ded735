CONSTANTS
  Events = {e1, e2, long, huge}
  Long = long
  Huge = huge
  Size <- MCSize
  MaxReadBytes = 7
  MaxLine = 4
  MaxLosses = 1
SYMMETRY EventSymmetry
SPECIFICATION Spec
CHECK_DEADLOCK FALSE
INVARIANTS
  AckedIntact
  LostOnlyAfterCut
  RecentIsNewest
  RecentFailsForCause
PROPERTY ImplementsAuditTrail
