SPECIFICATION FairSpec
CONSTANTS
  NumTasks = 1
  NumEpisodes = 2
  Optimized = TRUE
  PushToHub = TRUE
  LowRamHappens = TRUE
  EncoderMayFail = TRUE
  DataMayFail = TRUE
  ZeroTimes = FALSE
  MaxFrames = 1
  MaxCommands = 4
INVARIANTS
  BufferMatchesTable
  EncodersInHand
  CountIsSaved
PROPERTIES
  NothingLost
  SavingEnds
