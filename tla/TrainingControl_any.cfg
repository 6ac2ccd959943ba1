SPECIFICATION FairSpec
CONSTANTS
  MaxCommands = 5
INVARIANTS
  TrainingInHand
  NoTimerLeft
  Survives
PROPERTIES
  FinishStopsCurrent
