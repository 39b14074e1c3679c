SPECIFICATION Spec
CONSTANTS
  Workers = {w1, w2}
  Packages = {p1}
  Stripes = {m1}
  Stripe <- Shared
  None = None
  MaxCommit = 2
  MaxFaults = 0
  MaxDeaths = 0
  Shallow = TRUE
  InitialHead = "master"
INVARIANTS
  ServedCanBeCloned
