SPECIFICATION Spec
CONSTANTS
  own = own  lost = lost  login = login  r = r  x = x
  SourceCerts = {own, lost}
  Reissued = {lost}
  SourceLists = {login}
  WithLogin = {login}
  SourceRoutes = {r}
  SourceHosts = {x}
  CertOf <- MCCertOf
  ListOf <- MCListOf
  Doubtful = {own, login}
  Rejectable = {x}
  Mine = mine
  None = None
  MaxImports = 2
  MaxFaults = 1
INVARIANTS FailedImportLeavesNothing ImportedHostsAreGuarded
PROPERTIES SuccessfulImportIsWhole ImportEnds
CHECK_DEADLOCK FALSE
