SPECIFICATION FairSpec
CONSTANTS
  MaxEvents = 7
  MaxInodes = 7
  BatchSize = 2
  MaxLines = 2
  Faulty = {"insert", "reopenLogs"}
  MaxFaults = 3
  MaxCrashes = 0
  MaxReloads = 0
  None = None
PROPERTIES SpoolIsStored WorkerReturnsToSpool RotatedFileIsDrained
CHECK_DEADLOCK FALSE
