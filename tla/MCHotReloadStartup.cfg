SPECIFICATION HotFairSpec
CONSTANTS
  Branches = {b1}
  Oids = {c1, c2}
  NoOid = NoOid
  NoTree = NoTree
  NoInode = NoInode
  Inodes <- MCInodes
  Stamp <- FreshStamps
  Indexers = {indexer}
  aurhubd = aurhubd
  Readers = {aurhubd}
  Serialized = TRUE
  MaxOverlayRecords = 2
  MaxPushes = 1
  MaxFaults = 0
  MaxFulls = 1
  MaxMishaps = 0
PROPERTIES
  ServesLast
