SPECIFICATION FairSpec
CONSTANTS
  b1 = b1
  b2 = b2
  b3 = b3
  l1 = l1
  poller = poller
  tester = tester
  red = red
  blue = blue
  None = None
  Poller = poller
  Contents = {red, blue}
  Bundles = {b1, b2, b3}
  Leases = {l1}
  Callers = {poller, tester}
  MaxEdits = 2
  MaxFaults = 1
INVARIANTS NothingLeft
PROPERTIES ImplementsLifetime CloseReturns RetiredIsCleaned ChangesApplied
