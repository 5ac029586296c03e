SPECIFICATION FairSpec
PROPERTY Subscribed
CONSTANTS
  Endpoints = {"x01"}
  NoSubscribe = {}
  NoStreaming = {}
  HttpsOnly = {}
  Names <- MCNames
  Xnames <- MCXnames
  NormalizeHMSCompID <- MCNormalize
  rfStreamingEnabled = TRUE
  pruneOldSubscriptions = TRUE
  SubIds = {1,2,3}
  ReuseIds = TRUE
  Stores <- LossyStore
  ForeignSubs <- MCForeign
  Recs = {"r1","r2"}
  EpOf <- MCEpOf
  NoRec = NoRec
  NoId = 0
  Verifiers = {"v1"}
  ChanCap = 2
  SubCheckFreq = 2
  Faults = {"replace"}
  MaxFaults = 1
