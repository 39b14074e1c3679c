SPECIFICATION FairListing
CONSTANTS
  Branches = {b1, b2}
  MaxCommit = 2
  MaxPacks = 2
INVARIANTS
  QuietIsExact
PROPERTIES
  Repairs
