-------------------------- MODULE ResolutionOrder --------------------------
(***************************************************************************)
(* How the crate documentation says a client IP is chosen (src/lib.rs,     *)
(* "How the client IP is chosen" and "Trust models"): one answer per       *)
(* request, given in one step, as a function of the config and the request *)
(* alone.  Rules are scanned and not searched, and a chain is judged as a  *)
(* whole and not walked.                                                   *)
(***************************************************************************)
EXTENDS ForwardingHeaders

SequenceOps == INSTANCE SequencesExt

VARIABLES config, phase, request, answer

exchange == <<config, phase, request, answer>>

\* Several lines of one header name are one list, in the order they arrived.
PartsOf(values) == SequenceOps!FlattenSeq([i \in DOMAIN values |-> values[i].parts])

\* Every part but white space says something, and is a hop.
HopsOf(kind, values) ==
  LET parts == PartsOf(values)
      said[n \in 0 .. Len(parts)] ==
        IF n = 0 THEN <<>>
        ELSE IF parts[n].text = "empty" THEN said[n - 1]
        ELSE Append(said[n - 1], Entry(kind, parts[n]))
  IN  said[Len(parts)]

\* The rules that cover an address; a built config has at most one.
RulesOver(ip) == {r \in RuleSet(config.rules) : Contains(r.cidr, CanonicalIp(ip))}

\* Hops that are not known to be trusted proxies.
Unknown(chain) ==
  {i \in DOMAIN chain : chain[i] = Opaque \/ RulesOver(chain[i].ip) = {}}

\* Position of the hop that becomes the client IP, 0 for no such hop.
Chosen(chain) ==
  IF config.trust = "TrustedProxies"
    THEN IF Unknown(chain) = {} THEN 0 ELSE SequenceOps!Max(Unknown(chain))
    ELSE LET selection == config.chain_ip_selection
             skipped   == IF selection.pick = "SkipRightmostHops" THEN selection.hops ELSE 0
         IN  CASE chain = <<>>                 -> 0
               [] selection.pick = "Leftmost"  -> 1
               [] skipped >= Len(chain)        -> 0
               [] OTHER                        -> Len(chain) - skipped

ChainAnswer ==
  LET order   == config.chain_header_order
      carried == {n \in DOMAIN order : request.headers[order[n].name] # <<>>}
      first   == order[SequenceOps!Min(carried)]
      values  == request.headers[first.name]
      chain   == HopsOf(first.kind, values)
      peer    == Socket(CanonicalIp(request.connect_info))
  IN  CASE carried = {} -> peer
        [] \E i \in DOMAIN values : ~values[i].readable -> peer
        [] Chosen(chain) = 0 \/ chain[Chosen(chain)] = Opaque -> peer
        [] OTHER -> FromChain(chain[Chosen(chain)].ip, first.name)

\* The client IP headers that the peer may set.
Permitted ==
  IF config.trust = "TrustAllProxies" THEN {config.client_ip_header} \ {NoHeader}
  ELSE {r.metadata : r \in RulesOver(request.connect_info)} \ {NoHeader}

\* The address that the last value is, if it is nothing but an address.
LastPlain(values) ==
  {ip \in IpAddr : values # <<>> /\ SequenceOps!Last(values) =
     [readable |-> TRUE, parts |-> <<[text |-> "plain", ip |-> ip]>>]}

HeaderAnswers ==
  UNION {{ConfiguredHeader(CanonicalIp(ip), h) : ip \in LastPlain(request.headers[h])} :
           h \in Permitted}

Believed ==
  \/ config.trust = "TrustAllProxies"
  \/ config.trust = "TrustedProxies" /\ RulesOver(request.connect_info) # {}

Promised ==
  CASE request.connect_info = NoPeer ->
         {IF request.optional THEN NoAnswer ELSE Rejected}
    [] request.connect_info # NoPeer /\ ~Believed ->
         {Socket(CanonicalIp(request.connect_info))}
    [] OTHER ->
         IF HeaderAnswers # {} THEN HeaderAnswers ELSE {ChainAnswer}

-----------------------------------------------------------------------------

Init == config \in Configs /\ phase = "idle" /\ request = NoRequest /\ answer = NoAnswer

Ask ==
  /\ phase = "idle"
  /\ phase' = "asked"
  /\ request' \in Requests
  /\ UNCHANGED <<config, answer>>

Reply ==
  /\ phase = "asked"
  /\ answer' \in Promised
  /\ phase' = "answered"
  /\ UNCHANGED <<config, request>>

Forget ==
  /\ phase = "answered"
  /\ phase' = "idle" /\ request' = NoRequest /\ answer' = NoAnswer
  /\ UNCHANGED config

Next == Ask \/ Reply \/ Forget

Spec == Init /\ [][Next]_exchange

=============================================================================
