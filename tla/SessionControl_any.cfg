SPECIFICATION FairSpec
CONSTANTS
  RecordInference = FALSE
  PolicyMayFail = TRUE
  DataMayFail = TRUE
  ConfigMayFail = TRUE
  MaxCommands = 6
INVARIANTS
  TimerIsManaged
  Survives
  FlagsFollowTimers
PROPERTIES
  FinishEnds
