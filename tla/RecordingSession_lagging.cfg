SPECIFICATION SessionFairSpec
CONSTANTS
  NumTasks = 1
  NumEpisodes = 2
  Optimized = FALSE
  PushToHub = FALSE
  LowRamHappens = FALSE
  EncoderMayFail = FALSE
  DataMayFail = TRUE
  ZeroTimes = FALSE
  MaxFrames = 1
  MaxCommands = 1
  TopicsMayVanish = FALSE
  MaxRequests = 2
  MaxSessions = 2
INVARIANTS
  NothingRefused
  EpisodesHaveBags
PROPERTIES
  RecorderStops
