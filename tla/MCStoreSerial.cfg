SPECIFICATION FairSpec
CONSTANTS
  Branches = {b1, b2}
  Oids = {c1, c2}
  NoOid = NoOid
  NoTree = NoTree
  NoInode = NoInode
  Inodes <- MCInodes
  Stamp <- FreshStamps
  i1 = i1
  i2 = i2
  r1 = r1
  Indexers = {i1}
  Readers = {}
  Serialized = TRUE
  MaxOverlayRecords = 2
  MaxPushes = 3
  MaxFaults = 1
  MaxFulls = 1
INVARIANTS
  Loadable
  RunPublishes
  LeaksBounded
PROPERTIES
  ImplementsAtomicStore
  Converges
