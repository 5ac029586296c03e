SPECIFICATION FairSpec
INVARIANT TypeOK
INVARIANT FlushAfterStop
PROPERTY LoopsStop
PROPERTY IngressEnds
CONSTANTS
  Configs <- AnyConfig
  NBrokers = 1
  MaxRequests = 1
  QueueCap = 1
  ChanCap = 1
  FlushTimesOut = TRUE
  NPolled = 1
  Workers = {"w1"}
