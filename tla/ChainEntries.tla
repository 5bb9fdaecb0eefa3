--------------------------- MODULE ChainEntries ----------------------------
(***************************************************************************)
(* The hops that a part of a chain header stands for (src/headers.rs).     *)
(*                                                                         *)
(* A part is what stands between two commas.  What it says depends on who  *)
(* reads it, so a part keeps what was written:                             *)
(*   plain   203.0.113.10          an address and nothing else             *)
(*   ported  192.0.2.43:47011      an address with a port                  *)
(*   for     for=203.0.113.10      a Forwarded element with an address     *)
(*   opaque  unknown, proto=http   no address to any reader                *)
(*   empty   white space           list punctuation                        *)
(***************************************************************************)
EXTENDS IpSpace

Part ==
  [text : {"plain", "ported", "for"}, ip : IpAddr] \cup [text : {"opaque", "empty"}]

Opaque == [entry |-> "Opaque"]

\* Faulty: the hop keeps the form the proxy wrote.
IpAsWritten(ip) == [entry |-> "Ip", ip |-> ip]

Ip(ip) == [entry |-> "Ip", ip |-> CanonicalIp(ip)]

ChainEntry == [entry : {"Opaque"}] \cup [entry : {"Ip"}, ip : IpAddr]

\* chain_entry and parse_ip_like, on one part of a comma-separated list.
ListEntry(part) ==
  IF part.text \in {"plain", "ported"} THEN Ip(part.ip) ELSE Opaque

\* Faulty: an address without for= is a hop as well.
ForwardedOrBare(part) ==
  IF part.text \in {"for", "plain"} THEN Ip(part.ip) ELSE Opaque

\* forwarded_element_entry
ForwardedEntry(part) ==
  IF part.text = "for" THEN Ip(part.ip) ELSE Opaque

Entry(kind, part) ==
  IF kind = "Forwarded" THEN ForwardedEntry(part) ELSE ListEntry(part)

=============================================================================
