SPECIFICATION FairSpec
CONSTANTS
  Branches = {b1, b2}
  Oids = {c1}
  NoOid = NoOid
  NoTree = NoTree
  NoInode = NoInode
  Inodes <- MCInodes
  Stamp <- FreshStamps
  i1 = i1
  i2 = i2
  r1 = r1
  Indexers = {i1, i2}
  Readers = {}
  Serialized = FALSE
  MaxOverlayRecords = 2
  MaxPushes = 1
  MaxFaults = 0
  MaxFulls = 0
INVARIANTS
  ViewIsWhole
PROPERTIES
  Converges
