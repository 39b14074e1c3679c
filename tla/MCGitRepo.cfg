SPECIFICATION FairSpec
CONSTANTS
  Workers = {w1, w2}
  Packages = {p1}
  Stripes = {m1}
  Stripe <- Shared
  None = None
  MaxCommit = 2
  MaxFaults = 2
  MaxDeaths = 1
  Shallow = FALSE
  InitialHead = "other"
INVARIANTS
  ServedIsFresh
  AdvertisedStays
PROPERTIES
  Heals
