SPECIFICATION FairSpec
CONSTANTS
  Handlers = {c1, c2}
  Renewer = renewer
  MaxIds = 2
  InUse = {1}
  MaxPairs = 6
  MaxAged = 1
  MaxRequests = 2
  Faulty = {"lego", "stage", "write", "apply"}
  MaxFaults = 1
  MaxCrashes = 1
  None = None
INVARIANTS MaterialOnDisk
PROPERTIES DeletedStaysErased RenewalsMoveForward ServedBecomesFresh
CHECK_DEADLOCK FALSE
