CONSTANTS
  V4Count = 1
  V6Count = 2
  MappedOffset = 0
  BlockSizes = {1, 2}
  Headers <- ScanHeaders
SPECIFICATION Spec
INVARIANTS
  ScansAgreeWithTheLine
PROPERTIES
  ImplementsHeaderGrammar
