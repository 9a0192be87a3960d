SPECIFICATION Spec
CONSTANTS
  url = url  key = key  mask = mask  good = good  bad = bad
  Clients = {c1, c2}
  Ticker = ticker
  Upstreams = {url}
  Default = url
  Secrets = {key}
  Mask = mask
  Rules = {good, bad}
  Rejected = {bad}
  Inputs <- MCInputs
  None = None
  MaxRequests = 2
  MaxFlips = 1
  MaxFaults = 2
PROPERTIES RoutingSettles UndisturbedSaveIsAtomic
CHECK_DEADLOCK FALSE
