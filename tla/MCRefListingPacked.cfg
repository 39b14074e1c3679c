SPECIFICATION ListingSpec
CONSTANTS
  Branches = {b1, b2}
  MaxCommit = 1
  MaxPacks = 1
INVARIANTS
  Synchronized
