SPECIFICATION FairSpec
CONSTANTS
  Handlers = {c1, c2}
  Refresher = refresher
  Maintained = {cloudflare}
  Manual = {own}
  MaxVersion = 2
  MaxRequests = 2
  MaxFaults = 2
  None = None
INVARIANTS RangesAreWhole
PROPERTIES RangesMoveForward PublishedBecomesActive
CHECK_DEADLOCK FALSE
