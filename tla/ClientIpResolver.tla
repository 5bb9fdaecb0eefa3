------------------------- MODULE ClientIpResolver --------------------------
(***************************************************************************)
(* Answering one request after another with the client IP: the extractor   *)
(* (src/extractor.rs), ClientIpConfig::resolve_client_ip and the two trust *)
(* models it leads to (src/resolve.rs), and the hops a chain header yields *)
(* (src/headers.rs).                                                       *)
(***************************************************************************)
EXTENDS ForwardingHeaders

VARIABLES
  config,     \* ClientIpConfig, shared and never changed
  pc,         \* what the call is doing
  request,    \* the request being answered
  socket_ip,  \* its socket peer, canonical
  header,     \* client IP header to be read, from the rule or the mode
  tried,      \* position in chain_header_order
  unread,     \* what is left of the chain header being read
  hops,       \* its hops, from left to right
  left,       \* how many of them the scan has not taken from the right
  answer

call == <<request, socket_ip, header, tried, unread, hops, left, answer>>
vars == <<config, pc, call>>

TypeOK ==
  /\ config \in Configs
  /\ pc \in {"idle", "extract", "trust", "client_ip_header", "chain", "read",
             "scan", "pick", "done"}
  /\ request \in Request
  /\ socket_ip \in IpAddr \cup {NoPeer}
  /\ header \in Metadata
  /\ tried \in Nat
  /\ unread \in Seq(HeaderValue)
  /\ hops \in Seq(ChainEntry)
  /\ left \in 0..Len(hops)
  /\ answer \in Answers

Init ==
  /\ config \in Configs
  /\ pc = "idle"
  /\ request = NoRequest
  /\ socket_ip = NoPeer
  /\ header = NoHeader
  /\ tried = 1
  /\ unread = <<>>
  /\ hops = <<>>
  /\ left = 0
  /\ answer = NoAnswer

Answer(a) ==
  /\ answer' = a
  /\ pc' = "done"
  /\ UNCHANGED <<config, request, socket_ip, header, tried, unread, hops, left>>

-----------------------------------------------------------------------------
(* The extractor.                                                           *)

Receive(r) ==
  /\ pc = "idle"
  /\ request' = r
  /\ pc' = "extract"
  /\ UNCHANGED <<config, socket_ip, header, tried, unread, hops, left, answer>>

\* ClientIp as an extractor fails without ConnectInfo, Option<ClientIp> does not.
MissingConnectInfo ==
  /\ pc = "extract"
  /\ request.connect_info = NoPeer
  /\ Answer(IF request.optional THEN NoAnswer ELSE Rejected)

\* Faulty: the peer is taken as the listener reports it.
ResolveAsReported(peer_ip) ==
  /\ socket_ip' = peer_ip
  /\ pc' = "trust"
  /\ UNCHANGED <<config, request, header, tried, unread, hops, left, answer>>

\* resolve_client_ip turns to the trust model of the config.
ResolveClientIp(peer_ip) ==
  /\ socket_ip' = CanonicalIp(peer_ip)
  /\ pc' = "trust"
  /\ UNCHANGED <<config, request, header, tried, unread, hops, left, answer>>

ExtractPeer ==
  /\ pc = "extract"
  /\ request.connect_info # NoPeer
  /\ ResolveClientIp(request.connect_info)

\* The handler has its answer, and the next request starts from nothing.
Return ==
  /\ pc = "done"
  /\ pc' = "idle"
  /\ request' = NoRequest /\ socket_ip' = NoPeer /\ header' = NoHeader /\ tried' = 1
  /\ unread' = <<>> /\ hops' = <<>> /\ left' = 0 /\ answer' = NoAnswer
  /\ UNCHANGED config

-----------------------------------------------------------------------------
(* The trust models.                                                        *)

TrustNoProxy ==
  /\ pc = "trust" /\ config.trust = "NoProxy"
  /\ Answer(Socket(socket_ip))

ReadHeaders(h) ==
  /\ header' = h
  /\ pc' = "client_ip_header"
  /\ UNCHANGED <<config, request, socket_ip, tried, unread, hops, left, answer>>

\* Faulty: without a rule there is no client IP header, but the chain is read.
StrangerWithChain ==
  /\ pc = "trust" /\ config.trust = "TrustedProxies"
  /\ RuleFor(config.rules, socket_ip) = 0
  /\ ReadHeaders(NoHeader)

Stranger ==
  /\ pc = "trust" /\ config.trust = "TrustedProxies"
  /\ RuleFor(config.rules, socket_ip) = 0
  /\ Answer(Socket(socket_ip))

TrustedPeer ==
  /\ pc = "trust" /\ config.trust = "TrustedProxies"
  /\ RuleFor(config.rules, socket_ip) # 0
  /\ ReadHeaders(config.rules[RuleFor(config.rules, socket_ip)].metadata)

TrustAnyPeer ==
  /\ pc = "trust" /\ config.trust = "TrustAllProxies"
  /\ ReadHeaders(config.client_ip_header)

Usable == header # NoHeader /\ UsableHeader(request.headers[header])

UseClientIpHeader ==
  /\ pc = "client_ip_header" /\ Usable
  /\ Answer(ConfiguredHeader(HeaderIp(request.headers[header]), header))

TurnToChainHeaders ==
  /\ pc = "client_ip_header" /\ ~Usable
  /\ pc' = "chain"
  /\ UNCHANGED <<config, call>>

-----------------------------------------------------------------------------
(* client_ip_from_chain_headers.                                            *)

Order  == config.chain_header_order
Values == request.headers[Order[tried].name]

NoChainHeaderLeft ==
  /\ pc = "chain" /\ tried > Len(Order)
  /\ Answer(Socket(socket_ip))

SkipAbsentHeader ==
  /\ pc = "chain" /\ tried <= Len(Order)
  /\ Values = <<>>
  /\ tried' = tried + 1
  /\ UNCHANGED <<config, pc, request, socket_ip, header, unread, hops, left, answer>>

\* list_header_entries judges all values before it yields a hop ...
UnreadableList ==
  /\ pc = "chain" /\ tried <= Len(Order)
  /\ Order[tried].kind = "XForwardedFor"
  /\ \E i \in DOMAIN Values : ~Values[i].readable
  /\ Answer(Socket(socket_ip))

OpenHeader ==
  /\ pc = "chain" /\ tried <= Len(Order)
  /\ Values # <<>>
  /\ Order[tried].kind = "XForwardedFor" => \A i \in DOMAIN Values : Values[i].readable
  /\ unread' = Values
  /\ pc' = "read"
  /\ UNCHANGED <<config, request, socket_ip, header, tried, hops, left, answer>>

\* ... and forwarded_entries gives up at the value it cannot read.
UnreadableForwarded ==
  /\ pc = "read" /\ unread # <<>>
  /\ ~Head(unread).readable
  /\ Answer(Socket(socket_ip))

\* Faulty: the number of hops is one too many.
ReadPartAndMiscount ==
  /\ pc = "read" /\ unread # <<>>
  /\ Head(unread).readable /\ Head(unread).parts # <<>>
  /\ LET part == Head(Head(unread).parts)
     IN  hops' = IF part.text = "empty" THEN hops
                 ELSE Append(hops, Entry(Order[tried].kind, part))
  /\ left' = Len(hops') + 1
  /\ unread' = [unread EXCEPT ![1].parts = Tail(@)]
  /\ UNCHANGED <<config, pc, request, socket_ip, header, tried, answer>>

ReadPart ==
  /\ pc = "read" /\ unread # <<>>
  /\ Head(unread).readable /\ Head(unread).parts # <<>>
  /\ LET part == Head(Head(unread).parts)
     IN  hops' = IF part.text = "empty" THEN hops
                 ELSE Append(hops, Entry(Order[tried].kind, part))
  /\ left' = Len(hops')
  /\ unread' = [unread EXCEPT ![1].parts = Tail(@)]
  /\ UNCHANGED <<config, pc, request, socket_ip, header, tried, answer>>

\* Faulty: the same value over and over.
SameValueAgain ==
  /\ pc = "read" /\ unread # <<>>
  /\ Head(unread).readable /\ Head(unread).parts = <<>>
  /\ UNCHANGED vars

NextValue ==
  /\ pc = "read" /\ unread # <<>>
  /\ Head(unread).readable /\ Head(unread).parts = <<>>
  /\ unread' = Tail(unread)
  /\ UNCHANGED <<config, pc, request, socket_ip, header, tried, hops, left, answer>>

HopsRead ==
  /\ pc = "read" /\ unread = <<>>
  /\ pc' = IF config.trust = "TrustedProxies" THEN "scan" ELSE "pick"
  /\ UNCHANGED <<config, call>>

-----------------------------------------------------------------------------
(* first_non_trusted_from_right.                                            *)

IsTrustedProxy(ip) ==
  \/ config.trust = "TrustedProxies" /\ RuleFor(config.rules, ip) # 0
  \/ config.trust = "TrustAllProxies"

Last == hops[left]

WalkPastProxy ==
  /\ pc = "scan" /\ left > 0
  /\ Last # Opaque /\ IsTrustedProxy(Last.ip)
  /\ left' = left - 1
  /\ UNCHANGED <<config, pc, request, socket_ip, header, tried, unread, hops, answer>>

StopAtStranger ==
  /\ pc = "scan" /\ left > 0
  /\ Last # Opaque /\ ~IsTrustedProxy(Last.ip)
  /\ Answer(FromChain(Last.ip, Order[tried].name))

\* Faulty: the scan goes past what it cannot compare.
WalkPastOpaque ==
  /\ pc = "scan" /\ left > 0
  /\ Last = Opaque
  /\ left' = left - 1
  /\ UNCHANGED <<config, pc, request, socket_ip, header, tried, unread, hops, answer>>

\* Faulty: chain headers are a search list.
TryNextHeader ==
  /\ pc = "scan" /\ left > 0
  /\ Last = Opaque
  /\ pc' = "chain"
  /\ tried' = tried + 1
  /\ hops' = <<>> /\ left' = 0
  /\ UNCHANGED <<config, request, socket_ip, header, unread, answer>>

StopAtOpaque ==
  /\ pc = "scan" /\ left > 0
  /\ Last = Opaque
  /\ Answer(Socket(socket_ip))

RunOut ==
  /\ pc = "scan" /\ left = 0
  /\ Answer(Socket(socket_ip))

(* select_trust_all_chain_ip.                                               *)

\* Faulty: hops are counted from one.
PositionFromOne(selection) ==
  CASE selection.pick = "Leftmost"          -> 1
    [] selection.pick = "Rightmost"         -> Len(hops)
    [] selection.pick = "SkipRightmostHops" -> Len(hops) + 1 - selection.hops

Position(selection) ==
  CASE selection.pick = "Leftmost"          -> 1
    [] selection.pick = "Rightmost"         -> Len(hops)
    [] selection.pick = "SkipRightmostHops" -> Len(hops) - selection.hops

Picked(position) == position \in DOMAIN hops /\ hops[position] # Opaque

PickHop ==
  /\ pc = "pick"
  /\ LET position == Position(config.chain_ip_selection)
     IN  Answer(IF Picked(position) THEN FromChain(hops[position].ip, Order[tried].name)
                                    ELSE Socket(socket_ip))

-----------------------------------------------------------------------------

Resolve ==
  \/ MissingConnectInfo \/ ExtractPeer
  \/ TrustNoProxy \/ Stranger \/ TrustedPeer \/ TrustAnyPeer
  \/ UseClientIpHeader \/ TurnToChainHeaders
  \/ NoChainHeaderLeft \/ SkipAbsentHeader \/ UnreadableList \/ OpenHeader
  \/ UnreadableForwarded \/ ReadPart \/ NextValue \/ HopsRead
  \/ WalkPastProxy \/ StopAtStranger \/ StopAtOpaque \/ RunOut
  \/ PickHop

Next == Return \/ Resolve \/ \E r \in Requests : Receive(r)

\* A call runs to its end: there is no await in it once the peer is known.
\* Nothing makes a client send a request.
Spec == Init /\ [][Next]_vars /\ WF_vars(Resolve)

-----------------------------------------------------------------------------
(* Properties.                                                              *)

Covers(ip) == {i \in DOMAIN config.rules : Contains(config.rules[i].cidr, ip)}

(***************************************************************************)
(* "A peer that is not a trusted proxy wrote its own headers, so none of   *)
(* them may be read" (resolve.rs): an answer that comes from a header is   *)
(* given only to a peer that a rule covers, and a client IP header is read *)
(* only if that very rule names it.                                        *)
(***************************************************************************)
HeadersComeFromTrustedPeers ==
  answer.source \in {"ConfiguredHeader", "ChainHeader"} =>
    /\ config.trust # "NoProxy"
    /\ config.trust = "TrustedProxies" =>
         \E i \in Covers(CanonicalIp(request.connect_info)) :
           answer.source = "ConfiguredHeader" => config.rules[i].metadata = answer.header

(***************************************************************************)
(* With trusted proxies, an address taken from a chain is the hop nearest  *)
(* to the service that no rule covers: it is no trusted proxy itself, and  *)
(* between it and the service there are only trusted proxies.              *)
(***************************************************************************)
ChainAnswerIsNearestStranger ==
  answer.source = "ChainHeader" /\ config.trust = "TrustedProxies" =>
    \E k \in DOMAIN hops :
      /\ hops[k] = Ip(answer.ip)
      /\ Covers(answer.ip) = {}
      /\ \A i \in k + 1 .. Len(hops) : hops[i] # Opaque /\ Covers(hops[i].ip) # {}

(***************************************************************************)
(* "The configured chain headers are alternatives, not a search list"      *)
(* (resolve.rs): hops are only ever taken from the first chain header the  *)
(* request carries, so no answer comes from one behind it.                 *)
(***************************************************************************)
OnlyTheFirstCarriedHeaderIsRead ==
  pc \in {"read", "scan", "pick"} \/ answer.source = "ChainHeader" =>
    /\ request.headers[Order[tried].name] # <<>>
    /\ answer.source = "ChainHeader" => answer.header = Order[tried].name
    /\ \A n \in 1 .. tried - 1 : request.headers[Order[n].name] = <<>>

(***************************************************************************)
(* One client always resolves to one address (canonical.rs): whatever form *)
(* the peer or a header used, no answer is an IPv4-mapped IPv6 address.    *)
(***************************************************************************)
AnswersAreCanonical ==
  answer.source \in {"Socket", "ConfiguredHeader", "ChainHeader"} => ~IsMapped(answer.ip)

(***************************************************************************)
(* Every request that is taken up is answered: no walk over headers, parts *)
(* or hops goes on for ever.                                               *)
(***************************************************************************)
RequestsAreAnswered == (pc = "extract") ~> (pc = "done")

Contract == INSTANCE ResolutionOrder WITH
  phase <- CASE pc = "idle" -> "idle" [] pc = "done" -> "answered" [] OTHER -> "asked"

(***************************************************************************)
(* The resolver, step by step, gives the answer that the documented order  *)
(* of resolution gives at once, and leaves nothing behind for the next     *)
(* request.                                                                *)
(***************************************************************************)
ImplementsResolutionOrder == Contract!Spec

=============================================================================
