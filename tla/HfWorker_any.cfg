SPECIFICATION FairSpec
CONSTANTS
  ProcessMayDie = TRUE
  MaxCommands = 3
INVARIANTS
  AnswersMatchRequests
  NothingLeaks
PROPERTIES
  IdleWorkerStops
