CONSTANTS
  Ids = {o1, o2}
  MaxRecords = 1
  None = None
  MaxTime = 0
  MaxRestarts = 1
  ClockStepsBack = FALSE
  Exporting = TRUE
SPECIFICATION LiveSpec
CHECK_DEADLOCK FALSE
INVARIANT BundleConsistent
PROPERTIES
  RunningEnds
  CutOffIsInterrupted
