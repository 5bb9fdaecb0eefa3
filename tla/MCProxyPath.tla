---------------------------- MODULE MCProxyPath -----------------------------
(***************************************************************************)
(* Small instances of ProxyPath.  The addresses 0 to 3 are IPv4, 4 to 7    *)
(* are IPv6, and 8 to 11 are the IPv4-mapped forms of 0 to 3.              *)
(***************************************************************************)
EXTENDS ProxyPath, TLC

CONSTANT XRealIp

Rule(first, last, metadata) ==
  [cidr |-> [first |-> first, last |-> last], metadata |-> metadata]

List == NewChainHeader(XForwardedFor)

\* An IPv4 proxy, one that sends a client IP header, and a network of IPv6
\* proxies.
Rules(name) == <<Rule(0, 0, NoHeader), Rule(1, 1, name), Rule(4, 5, NoHeader)>>

TrustRules(name, order) ==
  [trust |-> "TrustedProxies", rules |-> Rules(name), chain_header_order |-> order]

TrustAll(name, order, selection) ==
  [trust |-> "TrustAllProxies", client_ip_header |-> name,
   chain_header_order |-> order, chain_ip_selection |-> selection]

Skip(n) == [pick |-> "SkipRightmostHops", hops |-> n]

RuleConfigs ==
  {TrustRules(XRealIp, DefaultChainHeaderOrder),
   TrustRules(XRealIp, <<ForwardedStyle(XForwardedFor)>>),
   TrustRules(XForwardedFor, DefaultChainHeaderOrder)}

SelectionConfigs ==
  {TrustAll(NoHeader, <<List>>, selection) :
     selection \in {[pick |-> "Leftmost"], [pick |-> "Rightmost"], Skip(0), Skip(1), Skip(2)}}
  \cup {TrustAll(name, <<List>>, [pick |-> "Rightmost"]) : name \in {XRealIp, XForwardedFor}}

Plain(ip)  == [text |-> "plain", ip |-> ip]
For(ip)    == [text |-> "for", ip |-> ip]
OpaquePart == [text |-> "opaque"]
EmptyPart  == [text |-> "empty"]

Value(parts) == [readable |-> TRUE, parts |-> parts]

Lines(list, real, forwarded) ==
  XForwardedFor :> list @@ XRealIp :> real @@ ForwardedName :> forwarded

\* Nothing, or an address of choice in every header, or what cannot be used.
Inventions ==
  {NoHeaders,
   Lines(<<Value(<<Plain(6), EmptyPart>>)>>, <<Value(<<Plain(6)>>)>>, <<Value(<<For(6)>>)>>),
   Lines(<<Value(<<For(6), For(0)>>)>>, <<>>, <<Value(<<For(6)>>)>>),
   Lines(<<Value(<<Plain(6), Plain(8)>>), Value(<<OpaquePart>>)>>, <<[readable |-> FALSE]>>, <<>>),
   Lines(<<Value(<<Plain(7)>>), [readable |-> FALSE]>>, <<>>, <<Value(<<For(6)>>)>>)}

=============================================================================
