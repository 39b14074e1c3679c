SPECIFICATION HotFairSpec
CONSTANTS
  Branches = {b1, b2}
  Oids = {c1}
  NoOid = NoOid
  NoTree = NoTree
  NoInode = NoInode
  Inodes <- MCInodes
  Stamp <- FreshStamps
  Indexers = {indexer}
  aurhubd = aurhubd
  Readers = {aurhubd}
  Serialized = TRUE
  MaxOverlayRecords = 2
  MaxPushes = 2
  MaxFaults = 0
  MaxFulls = 1
  MaxMishaps = 1
INVARIANTS
  QuietIsFresh
  ServedWasPublished
PROPERTIES
  NeverBackwards
  HotReloads
