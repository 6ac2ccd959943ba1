SPECIFICATION FairSpec
CONSTANTS
  MaxCommands = 3
PROPERTIES
  FinishStops
