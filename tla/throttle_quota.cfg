CONSTANTS
  V4Count = 2
  V6Count = 2
  MappedOffset = 0
  BlockSizes = {1, 2}
  Tasks = {t1, t2, t3, t4, t5}
  Peers = {0, 1, 2}
  NoPeer = NoPeer
  Burst = 2
  MaxTime = 2
SPECIFICATION Spec
SYMMETRY Symmetry
INVARIANTS
  TypeOK
  NoClientExceedsItsQuota
  OnlyOwnRequestsCount
