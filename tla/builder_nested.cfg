CONSTANTS
  V4Count = 4
  V6Count = 4
  MappedOffset = 0
  BlockSizes = {1, 2, 4}
  XRealIp = XRealIp
  CfConnectingIp = CfConnectingIp
  Forwarded = Forwarded
  XForwardedFor = XForwardedFor
  HeaderName = {XRealIp}
  NoHeader = NoHeader
  RuleChoices <- Ipv4Rules
  Batches <- NoBatches
  MaxRules = 4
  ChainHeaderOrders <- NoOrders
  DefaultOrder <- EmptyOrder
  Selections <- MCSelections
  Rightmost = "Rightmost"
SPECIFICATION Spec
INVARIANTS
  NoAddressHasTwoPolicies
  NoAddressMatchesTwoRules
  LookupIsExhaustive
