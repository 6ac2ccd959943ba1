SPECIFICATION Spec
CONSTANTS
  NumTasks = 1
  NumEpisodes = 2
  Optimized = TRUE
  PushToHub = TRUE
  LowRamHappens = FALSE
  EncoderMayFail = FALSE
  DataMayFail = FALSE
  ZeroTimes = FALSE
  MaxFrames = 1
  MaxCommands = 3
PROPERTIES
  StopKeepsTake
