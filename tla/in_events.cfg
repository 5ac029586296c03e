SPECIFICATION FairSpec
INVARIANT TypeOK
INVARIANT ReadyDelivers
INVARIANT InOrder
INVARIANT NotAborted
PROPERTY Delivers
PROPERTY RequestsEnd
CONSTANTS
  NBrokers = 2
  Publishes <- MCPublishes
  Requests = {"r1", "r2"}
  Path <- MCPath
  Bodies <- MCBodies
  IgnoreProvidedTimestamp = FALSE
  Refusals = TRUE
