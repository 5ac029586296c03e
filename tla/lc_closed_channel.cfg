SPECIFICATION Spec
INVARIANT BufferedFlushed
CONSTANTS
  Configs <- PollingOnly
  NBrokers = 1
  MaxRequests = 0
  QueueCap = 2
  ChanCap = 1
  FlushTimesOut = FALSE
  NPolled = 1
  Workers = {"w1", "w2"}
CHECK_DEADLOCK FALSE
