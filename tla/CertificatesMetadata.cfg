SPECIFICATION Spec
CONSTANTS
  Handlers = {c1}
  Renewer = renewer
  MaxIds = 1
  InUse = {1}
  MaxPairs = 2
  MaxAged = 1
  MaxRequests = 1
  Faulty = {}
  MaxFaults = 0
  MaxCrashes = 0
  None = None
INVARIANTS MetadataKeepsCertificate
CHECK_DEADLOCK FALSE
