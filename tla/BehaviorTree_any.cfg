SPECIFICATION FairSpec
CONSTANTS
  Kinds <- RobotControlSequence
  NumJoints = 2
  Limit = 2
  PositionsMayLack = TRUE
INVARIANTS
  NoStrayThread
  SuccessIsEarned
  BaseStands
PROPERTIES
  TreeEnds
