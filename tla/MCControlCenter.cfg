CONSTANTS
  Ids = {o1, o2, o3}
  MaxRecords = 2
  None = None
  MaxTime = 1
  MaxRestarts = 1
  ClockStepsBack = TRUE
  Exporting = FALSE
SYMMETRY IdSymmetry
SPECIFICATION SystemSpec
CHECK_DEADLOCK FALSE
INVARIANTS
  SystemTypeOK
  EvidenceIsTrue
  EffectIsTraced
  BoundedHistory
  OutcomeIsTrue
  RunningIsActive
PROPERTIES
  TerminalIsFinal
  StartedIsRecorded
