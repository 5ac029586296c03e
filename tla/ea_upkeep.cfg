SPECIFICATION FairSpec
CONSTANTS
 Endpoints = {"x", "y"}
 NodeBMCs = {"x"}
 Callers = {c1, c2}
 Kinds = {"type"}
 VaultEnabled = TRUE
 Locked = {"y"}
 NoSecret = {}
 StartTries = 2
 Quiet = TRUE
 Faults = {"exchange", "discover", "http", "vault", "garbled", "roll", "ca"}
 MaxFaults = 2
 c1 = c1
 c2 = c2
INVARIANT CacheRight
INVARIANT TypeOK
INVARIANT StaleClientNoticed
PROPERTY TypeFollowsHardware
PROPERTY EventuallyKnown
PROPERTY RollCompletes
PROPERTY ClientFollowsBundle
