CONSTANTS
  V4Count = 2
  V6Count = 2
  MappedOffset = 0
  BlockSizes = {1, 2}
  Tasks = {t1, t2, t3}
  Peers = {0, 2}
  NoPeer = NoPeer
  Burst = 1
  MaxTime = 1
SPECIFICATION Spec
PROPERTY
  RequestsAreServed
