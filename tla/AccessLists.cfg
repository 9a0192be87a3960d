SPECIFICATION Spec
CONSTANTS
  Admins = {a, b}
  Users = {u, v}
  Settings = {s, t}
  None = None
  MaxRequests = 4
  MaxFaults = 1
SYMMETRY Symmetry
INVARIANTS GuardHasItsFile
PROPERTIES UndisturbedIsAtomic
CHECK_DEADLOCK FALSE
