SPECIFICATION Spec
CONSTANTS
  app = app  wild = wild  far = far
  appHost = appHost  sibling = sibling  farHost = farHost  stranger = stranger
  root = root  farRoot = farRoot
  slash = slash  acme = acme  admin = admin  inner = inner  dump = dump  git = git
  office = office  wan = wan  gate = gate
  everyone = everyone  officeNet = officeNet  typo = typo
  l1 = l1  p1 = p1  k1 = k1  k2 = k2  ipl = ipl
  h1 = h1  h2 = h2  r1 = r1  d1 = d1  service = service  ip = ip
  Names = {app, wild, far}
  Hostnames = {appHost, sibling, farHost, stranger}
  Matches <- MCMatches
  Roots = {root, farRoot}
  Root <- MCRoot
  Paths = {slash, acme, admin, inner, dump, git}
  Within <- MCWithin
  Slash = slash
  Acme = acme
  Repositories = {git}
  Copies = {dump}
  Addresses = {office, wan, gate}
  Nets = {everyone, officeNet, typo}
  Contains <- MCContains
  All = everyone
  Malformed = {typo}
  Lists = {l1}
  Providers = {p1}
  Certs = {k1, k2}
  IpLists = {ipl}
  Ids = {h1, h2, r1, d1}
  Backends = {service, ip}
  Numeric = {ip}
  Hops = {gate}
  Settings <- MCSettings
  Requests <- MCRequests
  None = None
INVARIANTS GuardedEverywhere OnlyStrangersAreCaught FlaggedStaysOut PoolsAreSafe CapacityFits
