------------------------- MODULE ForwardingHeaders -------------------------
(***************************************************************************)
(* Requests with their forwarding headers, the configs that say how to     *)
(* read them, and the answers they lead to.  A header value is the list of *)
(* what stands between its commas (ChainEntries).                          *)
(***************************************************************************)
EXTENDS TrustedProxyRules, ChainEntries

CONSTANTS
  XForwardedFor,  \* x-forwarded-for
  ForwardedName,  \* forwarded
  NoPeer,         \* ConnectInfo is missing from the request
  Configs,        \* configs the service may have been given
  Requests        \* requests it may receive

\* Of an unreadable value, one that is not visible ASCII, nothing is known.
HeaderValue == [readable : {TRUE}, parts : Seq(Part)] \cup [readable : {FALSE}]

Request ==
  [connect_info : IpAddr \cup {NoPeer},
   headers      : [HeaderName -> Seq(HeaderValue)],
   optional     : BOOLEAN]  \* the handler takes Option<ClientIp>

\* ChainHeader::new decides how a header is read by its name ...
NewChainHeader(name) ==
  [name |-> name, kind |-> IF name = ForwardedName THEN "Forwarded" ELSE "XForwardedFor"]

\* ... and ChainHeader::forwarded_style does whatever the name is.
ForwardedStyle(name) == [name |-> name, kind |-> "Forwarded"]

ChainHeader ==
  {NewChainHeader(name) : name \in HeaderName} \cup
  {ForwardedStyle(name) : name \in HeaderName}

DefaultChainHeaderOrder == <<NewChainHeader(XForwardedFor), NewChainHeader(ForwardedName)>>

Selection == [pick : {"Leftmost"}] \cup [pick : {"Rightmost"}]
               \cup [pick : {"SkipRightmostHops"}, hops : Nat]

ClientIpConfig ==
  [trust : {"NoProxy"}]
    \cup [trust : {"TrustedProxies"}, rules : BuiltRules,
          chain_header_order : Seq(ChainHeader)]
    \cup [trust : {"TrustAllProxies"}, client_ip_header : Metadata,
          chain_header_order : Seq(ChainHeader), chain_ip_selection : Selection]

ASSUME ResolverAssumption ==
  /\ {XForwardedFor, ForwardedName} \subseteq HeaderName
  /\ XForwardedFor # ForwardedName
  /\ NoPeer \notin IpAddr
  /\ Configs \subseteq ClientIpConfig
  /\ Requests \subseteq Request

-----------------------------------------------------------------------------
(* The client IP header.                                                    *)

\* Faulty: the value is read like a hop, with its port.
UsableWithPort(values) ==
  /\ values # <<>>
  /\ values[Len(values)].readable
  /\ Len(values[Len(values)].parts) = 1
  /\ values[Len(values)].parts[1].text \in {"plain", "ported"}

\* configured_client_ip_header reads the last value, and as one plain address.
UsableHeader(values) ==
  /\ values # <<>>
  /\ values[Len(values)].readable
  /\ Len(values[Len(values)].parts) = 1
  /\ values[Len(values)].parts[1].text = "plain"

HeaderIp(values) == CanonicalIp(values[Len(values)].parts[1].ip)

-----------------------------------------------------------------------------
(* Answers.                                                                 *)

NoRequest == [connect_info |-> NoPeer, headers |-> [h \in HeaderName |-> <<>>],
              optional |-> TRUE]

NoAnswer == [source |-> "None"]
Rejected == [source |-> "MissingConnectInfo"]

Socket(ip)              == [source |-> "Socket", ip |-> ip]
ConfiguredHeader(ip, h) == [source |-> "ConfiguredHeader", ip |-> ip, header |-> h]
FromChain(ip, h)        == [source |-> "ChainHeader", ip |-> ip, header |-> h]

Answers ==
  {NoAnswer, Rejected} \cup [source : {"Socket"}, ip : IpAddr]
    \cup [source : {"ConfiguredHeader", "ChainHeader"}, ip : IpAddr, header : HeaderName]

=============================================================================
