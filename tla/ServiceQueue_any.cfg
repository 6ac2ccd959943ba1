SPECIFICATION FairSpec
CONSTANTS
  Threads = {t1, t2}
  NoThread = none
  ACallback = callback
  Workers = {w1, w2}
  Depths = {2}
  MaxCalls = 3
  MaxAsync = 1
INVARIANTS
  AnswersFitCalls
  PendingIsOwed
  NoLostWakeup
PROPERTIES
  CalledAtMostOnce
  QueueDrains
