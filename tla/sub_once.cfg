SPECIFICATION FairSpec
INVARIANT NoDuplicateSubs
PROPERTY StalePruned
CONSTANTS
  Endpoints = {"x01","x3"}
  NoSubscribe = {"x3"}
  NoStreaming = {}
  HttpsOnly = {}
  Names <- MCNames
  Xnames <- MCXnames
  NormalizeHMSCompID <- MCNormalize
  rfStreamingEnabled = TRUE
  pruneOldSubscriptions = TRUE
  SubIds = {1,2,3,4}
  ReuseIds = TRUE
  Stores <- MovedStore
  ForeignSubs <- MCForeign
  Recs = {"r1","r2"}
  EpOf <- MCEpOf
  NoRec = NoRec
  NoId = 0
  Verifiers = {"v1"}
  ChanCap = 1
  SubCheckFreq = 1
  Faults = {"post","postlost","patchrefused","foreign"}
  MaxFaults = 1
