CONSTANTS
  V4Count = 2
  V6Count = 4
  MappedOffset = 2
  BlockSizes = {1, 2, 4}
  XRealIp = XRealIp
  CfConnectingIp = CfConnectingIp
  Forwarded = Forwarded
  XForwardedFor = XForwardedFor
  HeaderName = {XRealIp}
  NoHeader = NoHeader
  RuleChoices <- EveryRule
  Batches <- TwoRules
  MaxRules = 3
  ChainHeaderOrders <- NoOrders
  DefaultOrder <- EmptyOrder
  Selections <- MCSelections
  Rightmost = "Rightmost"
SPECIFICATION Spec
INVARIANTS
  TypeOK
  NoAddressHasTwoPolicies
  RejectionNamesARealConflict
  SweepInvariant
  BuiltRulesAreCanonical
PROPERTIES
  ImplementsTrustPolicy
