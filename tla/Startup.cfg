SPECIFICATION FairSpec
CONSTANTS
  Hosts = {h1, h2}
  Names = {n1, n2}
  None = None
  MaxChanges = 1
  MaxEdits = 1
  MaxDeaths = 1
  MaxFaults = 1
INVARIANTS OnlyTestedIsServed IsolationIsExact
PROPERTIES ComesUp
CHECK_DEADLOCK FALSE
