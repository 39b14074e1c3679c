SPECIFICATION FairSpec
CONSTANTS
  N = 2
  Clients = {c1, c2}
  MaxRequests = 1
  MaxFaults = 2
INVARIANTS
  OnlyFailuresLeak
  ClosesItsOwn
PROPERTIES
  Stops
  NobodyWaits
