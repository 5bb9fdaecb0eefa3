------------------------ MODULE MCClientIpResolver -------------------------
(***************************************************************************)
(* Small instances of ClientIpResolver.  The addresses 0 and 1 are IPv4,   *)
(* 2 and 3 are IPv6, and 4 and 5 are the IPv4-mapped forms of 0 and 1.     *)
(***************************************************************************)
EXTENDS ClientIpResolver, TLC

CONSTANT XRealIp

Network(first, last) == [first |-> first, last |-> last]
Rule(first, last, metadata) == [cidr |-> Network(first, last), metadata |-> metadata]

List      == NewChainHeader(XForwardedFor)
Forwarded == NewChainHeader(ForwardedName)

TrustRules(rules, order) ==
  [trust |-> "TrustedProxies", rules |-> rules, chain_header_order |-> order]

TrustAll(name, order, selection) ==
  [trust |-> "TrustAllProxies", client_ip_header |-> name,
   chain_header_order |-> order, chain_ip_selection |-> selection]

NoProxy == [trust |-> "NoProxy"]

\* An IPv4 proxy that sends X-Real-IP and an IPv6 network that does not.
TwoNetworks == <<Rule(0, 0, XRealIp), Rule(2, 3, NoHeader)>>

Leftmost   == [pick |-> "Leftmost"]
Rightmost  == [pick |-> "Rightmost"]
SkipHops(n) == [pick |-> "SkipRightmostHops", hops |-> n]

Plain(ip)  == [text |-> "plain", ip |-> ip]
Ported(ip) == [text |-> "ported", ip |-> ip]
For(ip)    == [text |-> "for", ip |-> ip]
OpaquePart == [text |-> "opaque"]
EmptyPart  == [text |-> "empty"]

Unreadable   == [readable |-> FALSE]
Value(parts) == [readable |-> TRUE, parts |-> parts]

NoHeaders == [h \in HeaderName |-> <<>>]

SeqsUpTo(set, n) == UNION {[1..k -> set] : k \in 0..n}

-----------------------------------------------------------------------------
(* Which header is read: few values, every combination of headers.          *)

OrderConfigs ==
  {NoProxy} \cup
  {TrustRules(TwoNetworks, order) :
     order \in {DefaultChainHeaderOrder, <<Forwarded, List>>, <<ForwardedStyle(XForwardedFor)>>, <<>>}} \cup
  {TrustAll(name, DefaultChainHeaderOrder, Rightmost) :
     name \in {NoHeader, XRealIp, XForwardedFor}}

RealIpValues ==
  {<<>>, <<Unreadable>>, <<Value(<<Plain(1)>>), Value(<<Plain(5)>>)>>,
   <<Value(<<Plain(5)>>), Value(<<Ported(1)>>)>>}

ListValues ==
  {<<>>, <<Value(<<EmptyPart>>)>>, <<Value(<<OpaquePart>>)>>, <<Value(<<Ported(1)>>)>>,
   <<Value(<<For(1), Plain(0)>>)>>, <<Value(<<Plain(1)>>), Unreadable>>,
   <<Value(<<Plain(1)>>), Value(<<Plain(0), Plain(4)>>)>>}

ForwardedValues ==
  {<<>>, <<Value(<<Plain(1)>>)>>, <<Value(<<For(5), EmptyPart>>)>>,
   <<Value(<<For(1)>>), Unreadable>>, <<Value(<<For(1), For(2)>>), Value(<<For(0)>>)>>}

Headers(real, list, forwarded) ==
  XRealIp :> real @@ XForwardedFor :> list @@ ForwardedName :> forwarded

OrderRequests ==
  {[connect_info |-> peer, optional |-> FALSE, headers |-> Headers(real, list, forwarded)] :
     peer \in {0, 1, 2, 4},
     real \in RealIpValues, list \in ListValues, forwarded \in ForwardedValues} \cup
  {[connect_info |-> NoPeer, optional |-> optional, headers |-> NoHeaders] :
     optional \in BOOLEAN}

-----------------------------------------------------------------------------
(* Which hop is taken: one header, every short chain.                       *)

ChainConfigs ==
  {TrustRules(TwoNetworks, <<List>>), TrustRules(<<>>, <<List>>)} \cup
  {TrustAll(NoHeader, <<List>>, selection) :
     selection \in {Leftmost, Rightmost, SkipHops(0), SkipHops(1), SkipHops(2)}}

ChainParts == {Plain(1), Plain(3), Plain(4), Ported(5), OpaquePart, EmptyPart}

ChainRequests ==
  {[connect_info |-> 0, optional |-> FALSE,
    headers |-> [NoHeaders EXCEPT ![XForwardedFor] = values]] :
     values \in {<<Value(parts)>> : parts \in SeqsUpTo(ChainParts, 3)} \cup
                {<<Value(some), Value(more)>> :
                   some \in SeqsUpTo(ChainParts, 1), more \in SeqsUpTo(ChainParts, 2)}}

=============================================================================
