SPECIFICATION FairSpec
CONSTANTS
  Jobs = 3
  BranchCount = 3
INVARIANTS
  EachBranchOnce
  PublishedIsComplete
  NoThreadLeft
PROPERTIES
  Terminates
CHECK_DEADLOCK FALSE
