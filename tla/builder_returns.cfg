CONSTANTS
  V4Count = 2
  V6Count = 4
  MappedOffset = 2
  BlockSizes = {1, 2, 4}
  XRealIp = XRealIp
  CfConnectingIp = CfConnectingIp
  Forwarded = Forwarded
  XForwardedFor = XForwardedFor
  HeaderName = {XRealIp, CfConnectingIp}
  NoHeader = NoHeader
  RuleChoices <- EveryRule
  Batches <- TwoRules
  MaxRules = 2
  ChainHeaderOrders <- TwoOrders
  DefaultOrder <- StandardOrder
  Selections <- MCSelections
  Rightmost = "Rightmost"
SPECIFICATION Spec
PROPERTIES
  BuildReturns
