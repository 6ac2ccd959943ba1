SPECIFICATION FairSpec
CONSTANTS
  NumTasks = 2
  NumEpisodes = 2
  Optimized = TRUE
  PushToHub = TRUE
  LowRamHappens = TRUE
  EncoderMayFail = TRUE
  DataMayFail = TRUE
  ZeroTimes = TRUE
  MaxFrames = 1
  MaxCommands = 4
INVARIANTS
  ScenarioFollowsTask
  CompletedIsComplete
  NoCrash
  OneInstruction
PROPERTIES
  
  FinishCompletes
