SPECIFICATION FairSpec
CONSTANTS
 Endpoints = {"x"}
 NodeBMCs = {"x"}
 Callers = {c1, c2}
 Kinds = {"plain"}
 VaultEnabled = TRUE
 Locked = {}
 NoSecret = {"x"}
 StartTries = 2
 Quiet = FALSE
 Faults = {"rotate", "http", "vault", "roll"}
 MaxFaults = 1
 c1 = c1
 c2 = c2
PROPERTY CredentialsRecover
PROPERTY ActionsEnd
