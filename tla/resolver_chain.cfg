CONSTANTS
  V4Count = 2
  V6Count = 4
  MappedOffset = 2
  BlockSizes = {1, 2, 4}
  XRealIp = XRealIp
  XForwardedFor = XForwardedFor
  ForwardedName = ForwardedName
  HeaderName = {XRealIp, XForwardedFor, ForwardedName}
  NoHeader = NoHeader
  NoPeer = NoPeer
  Configs <- ChainConfigs
  Requests <- ChainRequests
SPECIFICATION Spec
INVARIANTS
  TypeOK
  ChainAnswerIsNearestStranger
  AnswersAreCanonical
PROPERTIES
  ImplementsResolutionOrder
  RequestsAreAnswered
