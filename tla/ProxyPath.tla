----------------------------- MODULE ProxyPath ------------------------------
(***************************************************************************)
(* The way of a request to the service and what the resolver makes of it.  *)
(* Every host hands the request to the next one, which sees the address it *)
(* came from.  A proxy that is relied on adds that address to the first    *)
(* chain header of the config and leaves what is already there; any other  *)
(* host writes what it likes (src/lib.rs, "Forwarding headers").           *)
(***************************************************************************)
EXTENDS ClientIpResolver

CONSTANTS
  Clients,   \* hosts that requests come from
  Hosts,     \* hosts they pass on their way to the service
  Proxies,   \* those of them that are relied on when all proxies are trusted
  Manners,   \* how a proxy writes an address: "plain", "ported" or "hidden"
  Written,   \* headers that a host may come up with
  MaxHosts   \* length of the way

ASSUME PathAssumption ==
  /\ Clients \cup Hosts \cup Proxies \subseteq IpAddr
  /\ Manners \subseteq {"plain", "ported", "hidden"}
  /\ Written \subseteq [HeaderName -> Seq(HeaderValue)]
  /\ MaxHosts \in Nat
  /\ \A c \in Configs : c.trust # "NoProxy" /\ c.chain_header_order # <<>>

VARIABLES
  via,      \* the hosts so far, the last of which becomes the socket peer
  written,  \* the headers they have written
  hidden,   \* positions in via of the hosts whose address was kept back
  edge      \* position of the host behind which the chain was begun anew, or 0

path == <<via, written, hidden, edge>>

NoHeaders == [h \in HeaderName |-> <<>>]

Departed == pc = "idle" /\ via # <<>>

Chain == config.chain_header_order[1]

ReliedOn(ip) ==
  IF config.trust = "TrustedProxies" THEN IsTrustedProxy(ip) ELSE CanonicalIp(ip) \in Proxies

\* The client IP header that a proxy sets.
OwnHeader(ip) ==
  IF config.trust = "TrustedProxies" THEN config.rules[RuleFor(config.rules, ip)].metadata
  ELSE config.client_ip_header

-----------------------------------------------------------------------------

Hop(ip, manner) ==
  CASE manner = "hidden" -> [text |-> "opaque"]
    [] manner # "hidden" /\ Chain.kind = "Forwarded" -> [text |-> "for", ip |-> ip]
    [] OTHER -> [text |-> manner, ip |-> ip]

\* A hop at the end of the last line, or on a line of its own.
WithHop(values, part, adds_line) ==
  IF adds_line \/ values = <<>> \/ ~values[Len(values)].readable
    THEN Append(values, [readable |-> TRUE, parts |-> <<part>>])
    ELSE [values EXCEPT ![Len(values)].parts = Append(@, part)]

\* The value of a client IP header comes last, whether it is alone or not.  A
\* proxy whose client IP header is the chain header has added to it already.
WithOwnHeader(headers, name, ip, alone) ==
  LET value == [readable |-> TRUE, parts |-> <<[text |-> "plain", ip |-> ip]>>]
  IN  IF name \in {NoHeader, Chain.name} THEN headers
      ELSE [headers EXCEPT ![name] = IF alone THEN <<value>> ELSE Append(@, value)]

Depart(client, headers) ==
  /\ pc = "idle" /\ via = <<>>
  /\ via' = <<client>>
  /\ written' = headers
  /\ UNCHANGED <<vars, hidden, edge>>

Sender == via[Len(via)]

\* A proxy adds the sender to the chain; one that only ever adds lines does so
\* with its client IP header too, and another one rewrites that header.
Relay(host, manner, adds_line) ==
  /\ Departed /\ Len(via) < MaxHosts
  /\ ReliedOn(host)
  /\ via' = Append(via, host)
  /\ written' = WithOwnHeader(
                  [written EXCEPT ![Chain.name] = WithHop(@, Hop(Sender, manner), adds_line)],
                  OwnHeader(host), Sender, ~adds_line)
  /\ hidden' = IF manner = "hidden" THEN hidden \cup {Len(via)} ELSE hidden
  /\ UNCHANGED <<vars, edge>>

\* A proxy that is the first one behind a stranger begins the chain anew.
Overwrite(host, manner) ==
  /\ Departed /\ Len(via) < MaxHosts
  /\ ReliedOn(host) /\ ~ReliedOn(Sender)
  /\ via' = Append(via, host)
  /\ written' = WithOwnHeader(
                  [NoHeaders EXCEPT ![Chain.name] = WithHop(@, Hop(Sender, manner), TRUE)],
                  OwnHeader(host), Sender, TRUE)
  /\ hidden' = IF manner = "hidden" THEN {Len(via)} ELSE {}
  /\ edge' = Len(via)
  /\ UNCHANGED vars

\* Another host forgets what it was told and writes something else.
Invent(host, headers) ==
  /\ Departed /\ Len(via) < MaxHosts
  /\ ~ReliedOn(host)
  /\ via' = Append(via, host)
  /\ written' = headers
  /\ hidden' = {} /\ edge' = 0
  /\ UNCHANGED vars

Arrive ==
  /\ Departed
  /\ Receive([connect_info |-> Sender, headers |-> written, optional |-> FALSE])
  /\ UNCHANGED path

Forget ==
  /\ Return
  /\ via' = <<>> /\ written' = NoHeaders /\ hidden' = {} /\ edge' = 0

-----------------------------------------------------------------------------

PathInit ==
  /\ Init
  /\ via = <<>> /\ written = NoHeaders /\ hidden = {} /\ edge = 0

PathNext ==
  \/ \E client \in Clients, headers \in Written : Depart(client, headers)
  \/ \E host \in Hosts :
       \/ \E manner \in Manners, adds_line \in BOOLEAN : Relay(host, manner, adds_line)
       \/ \E manner \in Manners : Overwrite(host, manner)
       \/ \E headers \in Written : Invent(host, headers)
  \/ Arrive
  \/ Forget
  \/ Resolve /\ UNCHANGED path

PathSpec == PathInit /\ [][PathNext]_<<vars, path>>

-----------------------------------------------------------------------------
(* Properties.                                                              *)

Strangers == {i \in DOMAIN via : ~ReliedOn(via[i])}

Nearest == CHOOSE i \in Strangers : \A j \in Strangers : i >= j

Unread(values) == \E i \in DOMAIN values : ~values[i].readable

(***************************************************************************)
(* "A header is only read when a proxy the config trusts is known to have  *)
(* written it" (lib.rs): with trusted proxies the client is the host       *)
(* nearest to the service that no rule covers, and nothing that it or a    *)
(* host behind it has written can change that.  A client IP header gives   *)
(* the host the last proxy was called by.  The socket peer is the answer   *)
(* only if it is that stranger itself, or if a proxy kept an address back  *)
(* or the stranger sent what cannot be read.                               *)
(***************************************************************************)
StrangersCannotChooseTheirAddress ==
  pc = "done" /\ config.trust = "TrustedProxies" /\ Strangers # {} =>
    CASE answer.source = "ConfiguredHeader" ->
           Nearest < Len(via) /\ answer.ip = CanonicalIp(via[Len(via) - 1])
      [] answer.source = "ChainHeader" ->
           Nearest < Len(via) /\ answer.ip = CanonicalIp(via[Nearest])
      [] OTHER ->
           /\ answer = Socket(CanonicalIp(Sender))
           /\ \/ Nearest = Len(via)
              \/ hidden \cap (Nearest .. Len(via)) # {}
              \/ Unread(written[Chain.name])

\* How many hosts at the end of the way are proxies that are relied on.
Appending == Len(via) - (IF Strangers = {} THEN 0 ELSE Nearest)

Skipped(selection) ==
  IF selection.pick = "SkipRightmostHops" THEN selection.hops ELSE 0

(***************************************************************************)
(* Rightmost "is correct when exactly one proxy appends to the header",    *)
(* SkipRightmostHops "when a fixed number of proxies append to the         *)
(* header", one more than are skipped, and Leftmost "only when the proxy   *)
(* overwrites the whole header" (TrustAllChainIpSelection): then the       *)
(* client is the host that called the first of these proxies, or is        *)
(* unknown if that proxy kept it back or a header cannot be read.          *)
(***************************************************************************)
FittingSelectionFindsTheClient ==
  LET selection == config.chain_ip_selection
      caller    == IF selection.pick = "Leftmost" THEN edge
                   ELSE Len(via) - 1 - Skipped(selection)
      fits      == IF selection.pick = "Leftmost" THEN edge # 0
                   ELSE Appending = Skipped(selection) + 1
  IN  pc = "done" /\ config.trust = "TrustAllProxies" /\ Strangers # {} =>
        /\ answer.source = "ConfiguredHeader" /\ Appending > 0 =>
             answer.ip = CanonicalIp(via[Len(via) - 1])
        /\ fits /\ config.client_ip_header = NoHeader =>
             answer = IF caller \in hidden \/ Unread(written[Chain.name])
                        THEN Socket(CanonicalIp(Sender))
                        ELSE FromChain(CanonicalIp(via[caller]), Chain.name)

=============================================================================
