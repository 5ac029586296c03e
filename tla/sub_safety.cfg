SPECIFICATION Spec
INVARIANT TypeOK
INVARIANT PendingHasWorker
PROPERTY VerifyErrorKept
PROPERTY ForeignUntouched
PROPERTY RightKept
PROPERTY StoreAsPromised
CONSTANTS
  Endpoints = {"x01"}
  NoSubscribe = {}
  NoStreaming = {}
  HttpsOnly = {"x01"}
  Names <- MCNames
  Xnames <- MCXnames
  NormalizeHMSCompID <- MCNormalize
  rfStreamingEnabled = TRUE
  pruneOldSubscriptions = TRUE
  SubIds = {1,2,3}
  ReuseIds = FALSE
  Stores <- AnyStore
  ForeignSubs <- MCForeign
  Recs = {"r1","r2"}
  EpOf <- MCEpOf
  NoRec = NoRec
  NoId = 0
  Verifiers = {"v1"}
  ChanCap = 2
  SubCheckFreq = 2
  Faults = {"get","notfound","post","postlost","postretried","patch","patchrefused","delete","probe","replace","foreign"}
  MaxFaults = 1
