SPECIFICATION Spec
CONSTANTS
  MaxEvents = 5
  MaxInodes = 4
  BatchSize = 2
  MaxLines = 3
  Faulty = {"insert", "setOffset"}
  MaxFaults = 2
  MaxCrashes = 2
  MaxReloads = 1
  None = None
INVARIANTS StoredOnceInOrder CheckpointIsCommitted NothingElseLost OffsetFitsFile
CHECK_DEADLOCK FALSE
