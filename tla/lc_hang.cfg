SPECIFICATION FairSpec
PROPERTY ShutdownEnds
CONSTANTS
  Configs <- SubscribeOnly
  NBrokers = 1
  MaxRequests = 0
  QueueCap = 1
  ChanCap = 1
  FlushTimesOut = TRUE
  NPolled = 0
  Workers = {}
CHECK_DEADLOCK FALSE
