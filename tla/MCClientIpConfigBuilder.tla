---------------------- MODULE MCClientIpConfigBuilder ----------------------
(***************************************************************************)
(* Small instances of ClientIpConfigBuilder.                               *)
(***************************************************************************)
EXTENDS ClientIpConfigBuilder

CONSTANTS XRealIp, CfConnectingIp, Forwarded, XForwardedFor

\* Every network of both families, so that an IPv4 network meets its mapped
\* spelling and the wider IPv6 networks around the mapped range.
EveryRule == TrustedProxyRule

\* IPv4 networks only, to leave room for more of them.
Ipv4Rules == {r \in TrustedProxyRule : r.cidr.last < V4Count}

FirstBlock(size) == [first |-> 0, last |-> size - 1]

\* One call of proxies() with two rules that agree, and one with none.
TwoRules == {<<>>, <<[cidr |-> FirstBlock(1), metadata |-> NoHeader],
                     [cidr |-> FirstBlock(2), metadata |-> NoHeader]>>}

NoBatches == {}

StandardOrder == <<Forwarded, XForwardedFor>>

EmptyOrder == <<>>
NoOrders == {EmptyOrder}
TwoOrders == {<<>>, StandardOrder}

MCSelections == {"Leftmost", "Rightmost", "SkipRightmostHops"}

=============================================================================
