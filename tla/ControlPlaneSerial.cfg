SPECIFICATION Spec
CONSTANTS
  Clients = {c1}
  HostIds = {h1, h2, h3}
  RedirectIds = {r1}
  DeadIds = {g1}
  StreamIds = {s1}
  d1 = d1  d2 = d2  up = up  gone = gone  k1 = k1  a1 = a1  p1 = p1
  h1 = h1  h2 = h2  h3 = h3  r1 = r1
  Domains <- MCDomains
  Targets <- MCTargets
  Rejected = {gone}
  Certs = {k1}
  Lists = {a1}
  Providers = {p1}
  Covers <- MCCovers
  InputRows <- AllInputs
  InitRows <- MCInit
  None = None
  MaxRequests = 3
  MaxFaults = 2
INVARIANTS FailureLeavesNoTrace DomainsUnique
CHECK_DEADLOCK FALSE
