SPECIFICATION SessionSpec
CONSTANTS
  NumTasks = 1
  NumEpisodes = 1
  Optimized = TRUE
  PushToHub = FALSE
  LowRamHappens = TRUE
  EncoderMayFail = FALSE
  DataMayFail = TRUE
  ZeroTimes = FALSE
  MaxFrames = 1
  MaxCommands = 2
  TopicsMayVanish = TRUE
  MaxRequests = 2
  MaxSessions = 2
INVARIANTS
  OpenBagOnDisk
  OneTakePerBag
PROPERTIES
  SavedBagsKept
