CONSTANTS
  V4Count = 4
  V6Count = 8
  MappedOffset = 4
  BlockSizes = {1, 2, 4, 8}
  XRealIp = XRealIp
  XForwardedFor = XForwardedFor
  ForwardedName = ForwardedName
  HeaderName = {XRealIp, XForwardedFor, ForwardedName}
  NoHeader = NoHeader
  NoPeer = NoPeer
  Requests = {}
  Written <- Inventions
  Clients = {2, 10}
  Configs <- SelectionConfigs
  Hosts = {3, 5, 8}
  Proxies = {0, 5}
  Manners = {"plain", "ported", "hidden"}
  MaxHosts = 4
SPECIFICATION PathSpec
INVARIANT
  FittingSelectionFindsTheClient
