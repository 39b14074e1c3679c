SPECIFICATION FairSpec
CONSTANTS
  Workers = {w1, w2}
  Server = Server
  Capacity = 1
  Jobs <- MCJobs
  MaxFaults = 1
INVARIANTS
  NothingLeft
  OutputIsWhole
PROPERTIES
  CallsReturn
CHECK_DEADLOCK FALSE
