----------------------- MODULE ClientIpResolverProofs ----------------------
(***************************************************************************)
(* Proofs about ClientIpResolver, for every address space, every config    *)
(* that ClientIpConfigBuilder can leave, and requests with any number of   *)
(* headers, lines and parts.                                               *)
(***************************************************************************)
EXTENDS ClientIpResolver, TrustedProxyRulesProofs

(***************************************************************************)
(* How far a call has come: the peer is known, its headers may be read,    *)
(* or a chain header has been opened.                                      *)
(***************************************************************************)
InChain     == pc \in {"read", "scan", "pick"}
MayRead     == pc \in {"client_ip_header", "chain"} \/ InChain
PeerIsKnown == pc = "trust" \/ MayRead

PeerState ==
  /\ pc # "done" => answer = NoAnswer
  /\ PeerIsKnown =>
       /\ request.connect_info # NoPeer
       /\ socket_ip = CanonicalIp(request.connect_info)
  /\ MayRead =>
       /\ config.trust # "NoProxy"
       /\ config.trust = "TrustedProxies" =>
            /\ RuleFor(config.rules, socket_ip) # 0
            /\ header = config.rules[RuleFor(config.rules, socket_ip)].metadata

ChainState ==
  /\ tried # 0
  /\ pc \in {"idle", "extract", "trust", "client_ip_header"} => tried = 1
  /\ \A n \in 1 .. tried - 1 : request.headers[Order[n].name] = <<>>
  /\ pc \notin {"done", "read", "scan", "pick"} => hops = <<>> /\ left = 0
  /\ InChain => tried \in DOMAIN Order /\ Values # <<>>
  /\ \A i \in DOMAIN hops : hops[i] # Opaque => ~IsMapped(hops[i].ip)

ScanState ==
  /\ pc = "pick" => config.trust = "TrustAllProxies"
  /\ pc = "read" => left = Len(hops)
  /\ pc = "scan" =>
       /\ config.trust = "TrustedProxies"
       /\ \A i \in left + 1 .. Len(hops) : hops[i] # Opaque /\ Covers(hops[i].ip) # {}

\* The inductive invariant.
ResolverInvariant ==
  /\ TypeOK
  /\ PeerState
  /\ ChainState
  /\ ScanState
  /\ HeadersComeFromTrustedPeers
  /\ ChainAnswerIsNearestStranger
  /\ OnlyTheFirstCarriedHeaderIsRead
  /\ AnswersAreCanonical

-----------------------------------------------------------------------------
(* Configs, addresses and parts.                                            *)

\* What a config holds under each trust model.
LEMMA ConfigParts ==
  ASSUME NEW c \in ClientIpConfig
  PROVE  /\ c.trust \in {"NoProxy", "TrustedProxies", "TrustAllProxies"}
         /\ c.trust = "TrustedProxies" =>
              c.rules \in BuiltRules /\ c.chain_header_order \in Seq(ChainHeader)
         /\ c.trust = "TrustAllProxies" =>
              /\ c.client_ip_header \in Metadata
              /\ c.chain_header_order \in Seq(ChainHeader)
              /\ c.chain_ip_selection \in Selection
BY DEF ClientIpConfig

\* A part other than list punctuation yields a hop, and a canonical one.
LEMMA EntryIsHop ==
  ASSUME NEW kind, NEW part \in Part
  PROVE  /\ Entry(kind, part) \in ChainEntry
         /\ Entry(kind, part) # Opaque => ~IsMapped(Entry(kind, part).ip)
<1>1. part.text \in {"plain", "ported", "for"} => part.ip \in IpAddr
  BY DEF Part
<1>2. part.text \in {"plain", "ported", "for"} =>
        Ip(part.ip) \in ChainEntry /\ ~IsMapped(Ip(part.ip).ip)
  BY <1>1, CanonicalIpIsCanonical DEF Ip, ChainEntry
<1>3. Opaque \in ChainEntry
  BY DEF Opaque, ChainEntry
<1> QED
  BY <1>2, <1>3 DEF Entry, ListEntry, ForwardedEntry

\* Hops are opaque or have an address.
LEMMA HopParts ==
  ASSUME NEW hop \in ChainEntry, hop # Opaque
  PROVE  hop.ip \in IpAddr /\ hop = [entry |-> "Ip", ip |-> hop.ip]
BY DEF ChainEntry, Opaque

(***************************************************************************)
(* With trusted proxies the lookup says of a canonical address whether a   *)
(* rule covers it, and which.                                              *)
(***************************************************************************)
LEMMA TrustedMeansCovered ==
  ASSUME config \in ClientIpConfig, config.trust = "TrustedProxies",
         NEW ip \in IpAddr, ~IsMapped(ip)
  PROVE  Covers(ip) = {RuleFor(config.rules, ip)} \ {0}
<1>1. config.rules \in Seq(TrustedProxyRule) /\ Apart(config.rules)
  BY ConfigParts DEF BuiltRules
<1>2. CanonicalIp(ip) = ip
  BY DEF CanonicalIp
<1> QED
  BY <1>1, <1>2, LookupFindsTheRule DEF Covers

\* What the type invariant says of the config.
LEMMA ConfigIsBuilt == TypeOK => config \in ClientIpConfig
BY ResolverAssumption DEF TypeOK

\* The values of a header in a request.
LEMMA ValuesOfRequest ==
  ASSUME NEW r \in Request, NEW h \in HeaderName
  PROVE  r.headers[h] \in Seq(HeaderValue)
BY DEF Request

\* The chain header being tried has a name and a kind.
LEMMA TriedHeader ==
  ASSUME TypeOK, config.trust # "NoProxy", tried # 0, tried <= Len(Order)
  PROVE  /\ tried \in DOMAIN Order
         /\ Order[tried].name \in HeaderName
         /\ Values \in Seq(HeaderValue)
<1>1. Order \in Seq(ChainHeader)
  BY ConfigIsBuilt, ConfigParts DEF Order
<1>2. tried \in 1..Len(Order) /\ DOMAIN Order = 1..Len(Order)
  BY <1>1, LenProperties DEF TypeOK
<1>3. Order[tried] \in ChainHeader
  BY <1>1, <1>2, ElementOfSeq
<1>4. Order[tried].name \in HeaderName
  BY <1>3 DEF ChainHeader, NewChainHeader, ForwardedStyle
<1> QED
  BY <1>2, <1>4, ValuesOfRequest DEF Values, TypeOK

-----------------------------------------------------------------------------
(* Type correctness.                                                        *)

LEMMA InitTypeOK == Init => TypeOK
<1>1. NoRequest \in Request
  <2>1. [h \in HeaderName |-> <<>>] \in [HeaderName -> Seq(HeaderValue)]
    BY EmptySeq
  <2> QED
    BY <2>1 DEF NoRequest, Request
<1>2. <<>> \in Seq(HeaderValue) /\ <<>> \in Seq(ChainEntry) /\ Len(<<>>) = 0
  BY EmptySeq
<1> QED
  BY <1>1, <1>2 DEF Init, TypeOK, Metadata, Answers

\* Giving an answer changes nothing but the answer.
LEMMA AnswerTypeOK ==
  ASSUME TypeOK, NEW a \in Answers, Answer(a)
  PROVE  TypeOK'
BY DEF TypeOK, Answer

\* A value of the client IP header that is usable is an address.
LEMMA UsableIsAddress ==
  ASSUME NEW values \in Seq(HeaderValue), UsableHeader(values)
  PROVE  HeaderIp(values) \in IpAddr /\ ~IsMapped(HeaderIp(values))
<1> DEFINE value == values[Len(values)]
<1>1. value \in HeaderValue
  <2>1. Len(values) \in Nat /\ DOMAIN values = 1..Len(values) /\ Len(values) # 0
    BY LenProperties, EmptySeq DEF UsableHeader
  <2>2. Len(values) \in 1..Len(values)
    BY <2>1
  <2> QED
    BY <2>2, ElementOfSeq
<1>2. value.readable /\ Len(value.parts) = 1 /\ value.parts[1].text = "plain"
  BY DEF UsableHeader
<1>3. value.parts \in Seq(Part)
  BY <1>1, <1>2 DEF HeaderValue
<1>4. value.parts[1] \in Part
  BY <1>2, <1>3, ElementOfSeq
<1>5. value.parts[1].ip \in IpAddr
  BY <1>2, <1>4 DEF Part
<1> QED
  BY <1>5, CanonicalIpIsCanonical DEF HeaderIp

\* The first of the parts that are left of a header.
LEMMA UnreadParts ==
  ASSUME NEW lines \in Seq(HeaderValue), lines # <<>>, Head(lines).readable,
         Head(lines).parts # <<>>
  PROVE  /\ Head(Head(lines).parts) \in Part
         /\ [lines EXCEPT ![1].parts = Tail(@)] \in Seq(HeaderValue)
<1>1. Head(lines) = lines[1] /\ Head(lines) \in HeaderValue
  BY HeadTailProperties
<1>2. Head(lines).parts \in Seq(Part) /\ Head(lines) \in [readable : {TRUE}, parts : Seq(Part)]
  BY <1>1 DEF HeaderValue
<1>3. Head(Head(lines).parts) \in Part /\ Tail(Head(lines).parts) \in Seq(Part)
  BY <1>2, HeadTailProperties
<1>4. [Head(lines) EXCEPT !.parts = Tail(@)] \in HeaderValue
  BY <1>2, <1>3 DEF HeaderValue
<1>5. [lines EXCEPT ![1] = [Head(lines) EXCEPT !.parts = Tail(@)]] \in Seq(HeaderValue)
  BY <1>4, ExceptSeq
<1> QED
  BY <1>1, <1>3, <1>5

\* Reading a part adds at most one hop, and a canonical one.
LEMMA ReadPartHops ==
  ASSUME TypeOK, ReadPart
  PROVE  /\ hops' \in Seq(ChainEntry) /\ left' = Len(hops') /\ unread' \in Seq(HeaderValue)
         /\ (\A i \in DOMAIN hops : hops[i] # Opaque => ~IsMapped(hops[i].ip)) =>
              \A i \in DOMAIN hops' : hops'[i] # Opaque => ~IsMapped(hops'[i].ip)
<1> DEFINE part == Head(Head(unread).parts)
           hop  == Entry(Order[tried].kind, part)
<1>1. part \in Part /\ unread' \in Seq(HeaderValue)
  BY UnreadParts DEF ReadPart, TypeOK
<1>2. hop \in ChainEntry /\ (hop # Opaque => ~IsMapped(hop.ip))
  BY <1>1, EntryIsHop
<1>3. hops' = (IF part.text = "empty" THEN hops ELSE Append(hops, hop)) /\ left' = Len(hops')
  BY DEF ReadPart
<1> HIDE DEF part, hop
<1>4. CASE part.text = "empty"
  BY <1>1, <1>3, <1>4 DEF TypeOK
<1>5. CASE part.text # "empty"
  <2>1. hops' = Append(hops, hop)
    BY <1>3, <1>5
  <2>2. /\ Append(hops, hop) \in Seq(ChainEntry)
        /\ Len(Append(hops, hop)) = Len(hops) + 1
        /\ \A i \in 1..Len(hops) : Append(hops, hop)[i] = hops[i]
        /\ Append(hops, hop)[Len(hops) + 1] = hop
        /\ DOMAIN hops = 1..Len(hops) /\ Len(hops) \in Nat
        /\ DOMAIN Append(hops, hop) = 1..Len(hops) + 1
    BY <1>2, AppendProperties, LenProperties DEF TypeOK
  <2>3. ASSUME NEW i \in DOMAIN hops' PROVE i \in DOMAIN hops \/ hops'[i] = hop
    BY <2>1, <2>2
  <2> QED
    BY <1>1, <1>2, <1>3, <2>1, <2>2, <2>3
<1> QED
  BY <1>4, <1>5

-----------------------------------------------------------------------------
(* Answers.                                                                 *)

\* Once the answer is given, nothing is left of the call but what it rests on.
LEMMA AnswerKeepsState ==
  ASSUME ResolverInvariant, NEW a \in Answers, Answer(a)
  PROVE  TypeOK' /\ PeerState' /\ ChainState' /\ ScanState'
<1>1. TypeOK'
  BY AnswerTypeOK DEF ResolverInvariant
<1> USE DEF ResolverInvariant, Answer
<1>2. PeerState' /\ ScanState'
  BY DEF PeerState, ScanState, PeerIsKnown, MayRead, InChain
<1>3. ChainState'
  BY DEF ChainState, InChain, Order
<1> QED
  BY <1>1, <1>2, <1>3

\* Answers that no header had a part in.
LEMMA PlainAnswerKeepsInvariant ==
  ASSUME ResolverInvariant,
         NEW a \in {NoAnswer, Rejected} \cup {Socket(ip) : ip \in {i \in IpAddr : ~IsMapped(i)}},
         Answer(a)
  PROVE  ResolverInvariant'
<1>1. a \in Answers
  BY DEF Answers, Socket
<1>2. a.source \in {"None", "MissingConnectInfo", "Socket"} /\ (a.source = "Socket" => ~IsMapped(a.ip))
  BY DEF NoAnswer, Rejected, Socket
<1>3. answer' = a /\ pc' = "done"
  BY DEF Answer
<1>4. HeadersComeFromTrustedPeers' /\ ChainAnswerIsNearestStranger'
        /\ OnlyTheFirstCarriedHeaderIsRead' /\ AnswersAreCanonical'
  BY <1>2, <1>3 DEF HeadersComeFromTrustedPeers, ChainAnswerIsNearestStranger,
                    OnlyTheFirstCarriedHeaderIsRead, AnswersAreCanonical
<1> QED
  BY <1>1, <1>4, AnswerKeepsState DEF ResolverInvariant

\* The socket peer is always a good answer.
LEMMA SocketAnswerKeepsInvariant ==
  ASSUME ResolverInvariant, PeerIsKnown, Answer(Socket(socket_ip))
  PROVE  ResolverInvariant'
<1>1. socket_ip \in IpAddr /\ ~IsMapped(socket_ip)
  BY CanonicalIpIsCanonical DEF ResolverInvariant, PeerState, TypeOK, Request
<1> QED
  BY <1>1, PlainAnswerKeepsInvariant

\* Headers that may be read come from a peer that a rule covers.
LEMMA ReaderIsTrusted ==
  ASSUME ResolverInvariant, MayRead
  PROVE  /\ config.trust # "NoProxy"
         /\ config.trust = "TrustedProxies" =>
              \E i \in Covers(CanonicalIp(request.connect_info)) : config.rules[i].metadata = header
<1> USE DEF ResolverInvariant
<1>1. socket_ip = CanonicalIp(request.connect_info) /\ request.connect_info \in IpAddr
  BY DEF PeerState, PeerIsKnown, TypeOK, Request
<1>2. socket_ip \in IpAddr /\ ~IsMapped(socket_ip)
  BY <1>1, CanonicalIpIsCanonical
<1>3. config.trust = "TrustedProxies" =>
        Covers(socket_ip) = {RuleFor(config.rules, socket_ip)} \ {0}
  BY <1>2, ConfigIsBuilt, TrustedMeansCovered
<1> QED
  BY <1>1, <1>3 DEF PeerState

\* The value of the client IP header that the peer's rule names.
LEMMA HeaderAnswerKeepsInvariant ==
  ASSUME ResolverInvariant, UseClientIpHeader
  PROVE  ResolverInvariant'
<1> DEFINE a == ConfiguredHeader(HeaderIp(request.headers[header]), header)
<1>1. header \in HeaderName /\ UsableHeader(request.headers[header])
  BY DEF UseClientIpHeader, Usable, ResolverInvariant, TypeOK, Metadata
<1>2. a.ip \in IpAddr /\ ~IsMapped(a.ip)
  BY <1>1, ValuesOfRequest, UsableIsAddress DEF ResolverInvariant, TypeOK, ConfiguredHeader
<1>3. a \in Answers
  BY <1>1, <1>2 DEF Answers, ConfiguredHeader
<1>4. Answer(a)
  BY DEF UseClientIpHeader
<1>5. a.source = "ConfiguredHeader" /\ a.header = header
  BY DEF ConfiguredHeader
<1> HIDE DEF a
<1>6. /\ answer' = a /\ pc' = "done" /\ config' = config /\ request' = request
  BY <1>4 DEF Answer
<1>7. HeadersComeFromTrustedPeers'
  <2>1. MayRead
    BY DEF UseClientIpHeader, MayRead
  <2> QED
    BY <1>5, <1>6, <2>1, ReaderIsTrusted DEF HeadersComeFromTrustedPeers, Covers
<1>8. ChainAnswerIsNearestStranger' /\ OnlyTheFirstCarriedHeaderIsRead' /\ AnswersAreCanonical'
  BY <1>2, <1>5, <1>6 DEF ChainAnswerIsNearestStranger, OnlyTheFirstCarriedHeaderIsRead,
                          AnswersAreCanonical
<1> QED
  BY <1>3, <1>4, <1>7, <1>8, AnswerKeepsState DEF ResolverInvariant

(***************************************************************************)
(* A hop of the chain; with trusted proxies, the nearest that no rule      *)
(* covers.                                                                 *)
(***************************************************************************)
LEMMA ChainAnswerKeepsInvariant ==
  ASSUME ResolverInvariant, InChain, NEW k \in DOMAIN hops, hops[k] # Opaque,
         config.trust = "TrustedProxies" =>
           /\ Covers(hops[k].ip) = {}
           /\ \A i \in k + 1 .. Len(hops) : hops[i] # Opaque /\ Covers(hops[i].ip) # {},
         Answer(FromChain(hops[k].ip, Order[tried].name))
  PROVE  ResolverInvariant'
<1> DEFINE a == FromChain(hops[k].ip, Order[tried].name)
<1> USE DEF ResolverInvariant
<1>1. hops[k].ip \in IpAddr /\ ~IsMapped(hops[k].ip)
      /\ hops[k] = [entry |-> "Ip", ip |-> hops[k].ip]
  <2>1. hops[k] \in ChainEntry
    BY LenProperties, ElementOfSeq DEF TypeOK
  <2> QED
    BY <2>1, HopParts DEF ChainState
<1>2. Order[tried].name \in HeaderName /\ tried \in DOMAIN Order /\ Values # <<>>
  <2>1. tried \in DOMAIN Order /\ Values # <<>> /\ config.trust # "NoProxy" /\ tried # 0
    BY DEF ChainState, PeerState, MayRead
  <2>2. tried <= Len(Order)
    BY <2>1, ConfigIsBuilt, ConfigParts, LenProperties DEF Order
  <2> QED
    BY <2>1, <2>2, TriedHeader
<1>3. a \in Answers
  BY <1>1, <1>2 DEF Answers, FromChain
<1>4. /\ a.source = "ChainHeader" /\ a.ip = hops[k].ip /\ a.header = Order[tried].name
  BY DEF FromChain
<1>5. Answer(a)
  OBVIOUS
<1> HIDE DEF a
<1>6. /\ answer' = a /\ pc' = "done"
      /\ config' = config /\ request' = request /\ hops' = hops /\ tried' = tried
  BY <1>5 DEF Answer
<1>7. HeadersComeFromTrustedPeers'
  BY <1>4, <1>6, ReaderIsTrusted DEF HeadersComeFromTrustedPeers, Covers, MayRead
<1>8. ChainAnswerIsNearestStranger'
  <2>1. CanonicalIp(hops[k].ip) = hops[k].ip
    BY <1>1 DEF CanonicalIp
  <2>2. hops[k] = Ip(hops[k].ip)
    BY <1>1, <2>1 DEF Ip
  <2> QED
    BY <1>4, <1>6, <2>2 DEF ChainAnswerIsNearestStranger, Covers
<1>9. OnlyTheFirstCarriedHeaderIsRead' /\ AnswersAreCanonical'
  BY <1>1, <1>2, <1>4, <1>6 DEF OnlyTheFirstCarriedHeaderIsRead, AnswersAreCanonical, ChainState,
                                Order, Values
<1> QED
  BY <1>3, <1>5, <1>7, <1>8, <1>9, AnswerKeepsState

-----------------------------------------------------------------------------
(* Steps on the way to an answer.                                           *)

\* As long as there is no answer, nothing has to be said of it.
LEMMA NoAnswerYet ==
  ASSUME TypeOK', PeerState', ChainState', ScanState', pc' # "done"
  PROVE  ResolverInvariant'
<1>1. answer'.source = "None"
  BY DEF PeerState, NoAnswer
<1>2. OnlyTheFirstCarriedHeaderIsRead'
  BY <1>1 DEF OnlyTheFirstCarriedHeaderIsRead, ChainState, InChain, Values
<1> QED
  BY <1>1, <1>2 DEF ResolverInvariant, HeadersComeFromTrustedPeers,
                    ChainAnswerIsNearestStranger, AnswersAreCanonical

LEMMA InitInvariant == Init => ResolverInvariant
<1> SUFFICES ASSUME Init PROVE ResolverInvariant
  OBVIOUS
<1>1. TypeOK
  BY InitTypeOK
<1>2. PeerState /\ ChainState /\ ScanState
  BY DEF Init, PeerState, ChainState, ScanState, PeerIsKnown, MayRead, InChain
<1>3. /\ HeadersComeFromTrustedPeers /\ ChainAnswerIsNearestStranger
      /\ OnlyTheFirstCarriedHeaderIsRead /\ AnswersAreCanonical
  BY DEF Init, NoAnswer, HeadersComeFromTrustedPeers, ChainAnswerIsNearestStranger,
         OnlyTheFirstCarriedHeaderIsRead, AnswersAreCanonical
<1> QED
  BY <1>1, <1>2, <1>3 DEF ResolverInvariant

LEMMA ReceiveKeepsInvariant ==
  ASSUME ResolverInvariant, NEW r \in Request, Receive(r)
  PROVE  ResolverInvariant'
<1> USE DEF ResolverInvariant, Receive
<1>1. TypeOK'
  BY DEF TypeOK
<1>2. PeerState' /\ ChainState' /\ ScanState'
  BY DEF PeerState, ChainState, ScanState, PeerIsKnown, MayRead, InChain
<1> QED
  BY <1>1, <1>2, NoAnswerYet

LEMMA ReturnKeepsInvariant ==
  ASSUME ResolverInvariant, Return
  PROVE  ResolverInvariant'
<1> USE DEF ResolverInvariant, Return
<1>1. TypeOK'
  <2>1. NoRequest \in Request
    <3>1. [h \in HeaderName |-> <<>>] \in [HeaderName -> Seq(HeaderValue)]
      BY EmptySeq
    <3> QED
      BY <3>1 DEF NoRequest, Request
  <2>2. <<>> \in Seq(HeaderValue) /\ <<>> \in Seq(ChainEntry) /\ Len(<<>>) = 0
    BY EmptySeq
  <2> QED
    BY <2>1, <2>2 DEF TypeOK, Metadata, Answers
<1>2. PeerState' /\ ChainState' /\ ScanState'
  BY DEF PeerState, ChainState, ScanState, PeerIsKnown, MayRead, InChain
<1> QED
  BY <1>1, <1>2, NoAnswerYet

LEMMA ExtractorKeepsInvariant ==
  ASSUME ResolverInvariant, MissingConnectInfo \/ ExtractPeer
  PROVE  ResolverInvariant'
<1>1. CASE MissingConnectInfo
  BY <1>1, PlainAnswerKeepsInvariant DEF MissingConnectInfo
<1>2. CASE ExtractPeer
  <2> USE <1>2 DEF ResolverInvariant, ExtractPeer, ResolveClientIp
  <2>1. socket_ip' \in IpAddr
    BY CanonicalIpIsCanonical DEF TypeOK, Request
  <2>2. TypeOK'
    BY <2>1 DEF TypeOK
  <2>3. PeerState' /\ ChainState' /\ ScanState'
    BY DEF PeerState, ChainState, ScanState, PeerIsKnown, MayRead, InChain
  <2> QED
    BY <2>2, <2>3, NoAnswerYet
<1> QED
  BY <1>1, <1>2

\* The header that a trusted peer may set is that of the rule that covers it.
LEMMA ReadHeadersKeepsInvariant ==
  ASSUME ResolverInvariant, pc = "trust", NEW h \in Metadata, ReadHeaders(h),
         config.trust # "NoProxy",
         config.trust = "TrustedProxies" =>
           /\ RuleFor(config.rules, socket_ip) # 0
           /\ h = config.rules[RuleFor(config.rules, socket_ip)].metadata
  PROVE  ResolverInvariant'
<1> USE DEF ResolverInvariant, ReadHeaders
<1>1. TypeOK'
  BY DEF TypeOK
<1>2. PeerState' /\ ChainState' /\ ScanState'
  BY DEF PeerState, ChainState, ScanState, PeerIsKnown, MayRead, InChain, Order
<1> QED
  BY <1>1, <1>2, NoAnswerYet

LEMMA TrustKeepsInvariant ==
  ASSUME ResolverInvariant, TrustNoProxy \/ Stranger \/ TrustedPeer \/ TrustAnyPeer
  PROVE  ResolverInvariant'
<1>1. CASE TrustNoProxy \/ Stranger
  BY <1>1, SocketAnswerKeepsInvariant DEF TrustNoProxy, Stranger, PeerIsKnown
<1>2. CASE TrustedPeer
  <2> DEFINE rule == RuleFor(config.rules, socket_ip)
  <2>1. config.rules \in Seq(TrustedProxyRule) /\ Apart(config.rules)
    BY <1>2, ConfigIsBuilt, ConfigParts DEF ResolverInvariant, TrustedPeer, BuiltRules
  <2>2. socket_ip \in IpAddr
    BY <1>2, CanonicalIpIsCanonical DEF TrustedPeer, ResolverInvariant, PeerState, PeerIsKnown,
                                        TypeOK, Request
  <2>3. {rule} \ {0} \subseteq DOMAIN config.rules
    BY <2>1, <2>2, LookupFindsTheRule
  <2>4. config.rules[rule].metadata \in Metadata
    BY <1>2, <2>1, <2>3, RulesOfList, RuleParts DEF TrustedPeer
  <2> QED
    BY <1>2, <2>4, ReadHeadersKeepsInvariant DEF TrustedPeer
<1>3. CASE TrustAnyPeer
  <2>1. config.client_ip_header \in Metadata
    BY <1>3, ConfigIsBuilt, ConfigParts DEF TrustAnyPeer, ResolverInvariant
  <2> QED
    BY <1>3, <2>1, ReadHeadersKeepsInvariant DEF TrustAnyPeer
<1> QED
  BY <1>1, <1>2, <1>3

LEMMA HeaderChoiceKeepsInvariant ==
  ASSUME ResolverInvariant,
         UseClientIpHeader \/ TurnToChainHeaders \/ NoChainHeaderLeft \/ SkipAbsentHeader
           \/ UnreadableList \/ OpenHeader
  PROVE  ResolverInvariant'
<1> USE DEF ResolverInvariant
<1>1. CASE UseClientIpHeader
  BY <1>1, HeaderAnswerKeepsInvariant
<1>2. CASE TurnToChainHeaders
  <2> USE <1>2 DEF TurnToChainHeaders, call
  <2>1. TypeOK'
    BY DEF TypeOK
  <2>2. PeerState' /\ ChainState' /\ ScanState'
    BY DEF PeerState, ChainState, ScanState, PeerIsKnown, MayRead, InChain, Order
  <2> QED
    BY <2>1, <2>2, NoAnswerYet
<1>3. CASE NoChainHeaderLeft \/ UnreadableList
  BY <1>3, SocketAnswerKeepsInvariant DEF NoChainHeaderLeft, UnreadableList, PeerIsKnown, MayRead
<1>4. CASE SkipAbsentHeader
  <2> USE <1>4 DEF SkipAbsentHeader
  <2>1. TypeOK'
    BY DEF TypeOK
  <2>2. PeerState' /\ ScanState'
    BY DEF PeerState, ScanState, PeerIsKnown, MayRead, InChain
  <2>3. ChainState'
    <3>1. \A n \in 1 .. tried' - 1 : n = tried \/ n \in 1 .. tried - 1
      BY DEF TypeOK
    <3>2. \A n \in 1 .. tried' - 1 : request.headers[Order[n].name] = <<>>
      BY <3>1 DEF ChainState, Values
    <3> QED
      BY <3>2 DEF ChainState, InChain, Order, TypeOK
  <2> QED
    BY <2>1, <2>2, <2>3, NoAnswerYet
<1>5. CASE OpenHeader
  <2> USE <1>5 DEF OpenHeader
  <2>1. Values \in Seq(HeaderValue) /\ tried \in DOMAIN Order
    BY TriedHeader DEF ChainState, PeerState, MayRead
  <2>2. TypeOK'
    BY <2>1 DEF TypeOK
  <2>3. PeerState' /\ ScanState'
    <3>1. Len(<<>>) = 0
      OBVIOUS
    <3> QED
      BY <3>1 DEF PeerState, ScanState, ChainState, PeerIsKnown, MayRead, InChain
  <2>4. ChainState'
    BY <2>1 DEF ChainState, InChain, Order, Values
  <2> QED
    BY <2>2, <2>3, <2>4, NoAnswerYet
<1> QED
  BY <1>1, <1>2, <1>3, <1>4, <1>5

LEMMA ReadingKeepsInvariant ==
  ASSUME ResolverInvariant, UnreadableForwarded \/ ReadPart \/ NextValue \/ HopsRead
  PROVE  ResolverInvariant'
<1> USE DEF ResolverInvariant
<1>1. CASE UnreadableForwarded
  BY <1>1, SocketAnswerKeepsInvariant DEF UnreadableForwarded, PeerIsKnown, MayRead, InChain
<1>2. CASE ReadPart
  <2>1. /\ hops' \in Seq(ChainEntry) /\ left' = Len(hops') /\ unread' \in Seq(HeaderValue)
        /\ \A i \in DOMAIN hops' : hops'[i] # Opaque => ~IsMapped(hops'[i].ip)
    BY <1>2, ReadPartHops DEF ChainState
  <2>2. /\ pc = "read"
        /\ UNCHANGED <<config, pc, request, socket_ip, header, tried, answer>>
    BY <1>2 DEF ReadPart
  <2>3. Len(hops') \in Nat
    BY <2>1, LenProperties
  <2>4. TypeOK'
    BY <2>1, <2>2, <2>3 DEF TypeOK
  <2>5. PeerState' /\ ScanState'
    BY <2>1, <2>2 DEF PeerState, ScanState, PeerIsKnown, MayRead, InChain
  <2>6. ChainState'
    BY <2>1, <2>2 DEF ChainState, InChain, Order, Values
  <2> QED
    BY <2>2, <2>4, <2>5, <2>6, NoAnswerYet
<1>3. CASE NextValue
  <2> USE <1>3 DEF NextValue
  <2>1. unread' \in Seq(HeaderValue)
    BY HeadTailProperties DEF TypeOK
  <2>2. TypeOK'
    BY <2>1 DEF TypeOK
  <2>3. PeerState' /\ ScanState'
    BY DEF PeerState, ScanState, PeerIsKnown, MayRead, InChain
  <2>4. ChainState'
    BY DEF ChainState, InChain, Order, Values
  <2> QED
    BY <2>2, <2>3, <2>4, NoAnswerYet
<1>4. CASE HopsRead
  <2> USE <1>4 DEF HopsRead, call
  <2>1. TypeOK'
    BY DEF TypeOK
  <2>2. PeerState'
    BY DEF PeerState, PeerIsKnown, MayRead, InChain
  <2>3. ChainState'
    BY DEF ChainState, InChain, Order, Values
  <2>4. ScanState'
    <3>1. config.trust \in {"TrustedProxies", "TrustAllProxies"}
      BY ConfigIsBuilt, ConfigParts DEF PeerState, MayRead, InChain
    <3>2. left + 1 .. Len(hops) = {}
      BY LenProperties DEF ScanState, TypeOK
    <3> QED
      BY <3>1, <3>2 DEF ScanState
  <2> QED
    BY <2>1, <2>2, <2>3, <2>4, NoAnswerYet
<1> QED
  BY <1>1, <1>2, <1>3, <1>4

LEMMA ScanKeepsInvariant ==
  ASSUME ResolverInvariant, WalkPastProxy \/ StopAtStranger \/ StopAtOpaque \/ RunOut
  PROVE  ResolverInvariant'
<1> USE DEF ResolverInvariant
<1>1. ASSUME left > 0, Last # Opaque, config.trust = "TrustedProxies"
      PROVE  /\ left \in DOMAIN hops
             /\ Covers(Last.ip) = {RuleFor(config.rules, Last.ip)} \ {0}
  <2>1. left \in 1..Len(hops) /\ left \in DOMAIN hops
    BY <1>1, LenProperties DEF TypeOK
  <2>2. Last \in ChainEntry
    BY <2>1, ElementOfSeq DEF TypeOK, Last
  <2>3. Last.ip \in IpAddr /\ ~IsMapped(Last.ip)
    BY <1>1, <2>1, <2>2, HopParts DEF ChainState, Last
  <2> QED
    BY <1>1, <2>1, <2>3, ConfigIsBuilt, TrustedMeansCovered
<1>2. CASE WalkPastProxy
  <2> USE <1>2 DEF WalkPastProxy
  <2>1. Covers(Last.ip) # {}
    BY <1>1 DEF ScanState, IsTrustedProxy
  <2>2. TypeOK'
    BY LenProperties DEF TypeOK
  <2>3. PeerState'
    BY DEF PeerState, PeerIsKnown, MayRead, InChain
  <2>4. ChainState'
    BY DEF ChainState, InChain, Order, Values
  <2>5. ScanState'
    <3>1. \A i \in left' + 1 .. Len(hops) : i = left \/ i \in left + 1 .. Len(hops)
      BY LenProperties DEF TypeOK
    <3> QED
      BY <2>1, <3>1 DEF ScanState, Last, Covers
  <2> QED
    BY <2>2, <2>3, <2>4, <2>5, NoAnswerYet
<1>3. CASE StopAtStranger
  <2> USE <1>3 DEF StopAtStranger
  <2>1. config.trust = "TrustedProxies"
    BY DEF ScanState
  <2>2. left \in DOMAIN hops /\ Covers(Last.ip) = {}
    BY <1>1, <2>1 DEF IsTrustedProxy
  <2>3. \A i \in left + 1 .. Len(hops) : hops[i] # Opaque /\ Covers(hops[i].ip) # {}
    BY DEF ScanState
  <2> QED
    BY <2>2, <2>3, ChainAnswerKeepsInvariant DEF Last, InChain
<1>4. CASE StopAtOpaque \/ RunOut
  BY <1>4, SocketAnswerKeepsInvariant DEF StopAtOpaque, RunOut, PeerIsKnown, MayRead, InChain
<1> QED
  BY <1>2, <1>3, <1>4

LEMMA PickKeepsInvariant ==
  ASSUME ResolverInvariant, PickHop
  PROVE  ResolverInvariant'
<1> DEFINE position == Position(config.chain_ip_selection)
<1>1. pc = "pick" /\ config.trust = "TrustAllProxies"
  BY DEF PickHop, ResolverInvariant, ScanState
<1>2. CASE Picked(position)
  <2>1. position \in DOMAIN hops /\ hops[position] # Opaque
    BY <1>2 DEF Picked
  <2>2. Answer(FromChain(hops[position].ip, Order[tried].name))
    BY <1>2 DEF PickHop
  <2> QED
    BY <1>1, <2>1, <2>2, ChainAnswerKeepsInvariant DEF InChain
<1>3. CASE ~Picked(position)
  BY <1>1, <1>3, SocketAnswerKeepsInvariant DEF PickHop, PeerIsKnown, MayRead, InChain
<1> QED
  BY <1>2, <1>3

LEMMA NextInvariant == ResolverInvariant /\ [Next]_vars => ResolverInvariant'
<1> SUFFICES ASSUME ResolverInvariant, [Next]_vars PROVE ResolverInvariant'
  OBVIOUS
<1>1. CASE Return
  BY <1>1, ReturnKeepsInvariant
<1>2. CASE Resolve
  BY <1>2, ExtractorKeepsInvariant, TrustKeepsInvariant, HeaderChoiceKeepsInvariant,
     ReadingKeepsInvariant, ScanKeepsInvariant, PickKeepsInvariant DEF Resolve
<1>3. CASE \E r \in Requests : Receive(r)
  BY <1>3, ResolverAssumption, ReceiveKeepsInvariant
<1>4. CASE UNCHANGED vars
  BY <1>4 DEF vars, call, ResolverInvariant, TypeOK, PeerState, ChainState, ScanState, PeerIsKnown,
              MayRead, InChain, Order, Values, Covers, HeadersComeFromTrustedPeers,
              ChainAnswerIsNearestStranger, OnlyTheFirstCarriedHeaderIsRead, AnswersAreCanonical
<1> QED
  BY <1>1, <1>2, <1>3, <1>4 DEF Next

-----------------------------------------------------------------------------
(* Theorems.                                                                *)

(***************************************************************************)
(* Every state of the resolver satisfies the inductive invariant.          *)
(***************************************************************************)
THEOREM InvariantHolds == Spec => []ResolverInvariant
BY InitInvariant, NextInvariant, PTL DEF Spec

(***************************************************************************)
(* The resolver's state has the types it is declared with; in particular a *)
(* rule that is found is one of the config's, and answers are addresses.   *)
(***************************************************************************)
THEOREM TypeCorrect == Spec => []TypeOK
<1>1. ResolverInvariant => TypeOK
  BY DEF ResolverInvariant
<1> QED
  BY <1>1, InvariantHolds, PTL

(***************************************************************************)
(* "A peer that is not a trusted proxy wrote its own headers, so none of   *)
(* them may be read": an answer from a header has a peer that a rule       *)
(* covers, and a client IP header is the one that this rule names.         *)
(***************************************************************************)
THEOREM StrangersSetNoHeader == Spec => []HeadersComeFromTrustedPeers
<1>1. ResolverInvariant => HeadersComeFromTrustedPeers
  BY DEF ResolverInvariant
<1> QED
  BY <1>1, InvariantHolds, PTL

(***************************************************************************)
(* The scan of a chain stops at the hop nearest to the service that is no  *)
(* trusted proxy, and never behind one that cannot be compared.            *)
(***************************************************************************)
THEOREM ScanStopsAtNearestStranger == Spec => []ChainAnswerIsNearestStranger
<1>1. ResolverInvariant => ChainAnswerIsNearestStranger
  BY DEF ResolverInvariant
<1> QED
  BY <1>1, InvariantHolds, PTL

(***************************************************************************)
(* Chain headers are alternatives: what is read is the first one that the  *)
(* request carries.                                                        *)
(***************************************************************************)
THEOREM ChainHeadersAreAlternatives == Spec => []OnlyTheFirstCarriedHeaderIsRead
<1>1. ResolverInvariant => OnlyTheFirstCarriedHeaderIsRead
  BY DEF ResolverInvariant
<1> QED
  BY <1>1, InvariantHolds, PTL

(***************************************************************************)
(* One client always resolves to one form of its address.                  *)
(***************************************************************************)
THEOREM OneFormPerClient == Spec => []AnswersAreCanonical
<1>1. ResolverInvariant => AnswersAreCanonical
  BY DEF ResolverInvariant
<1> QED
  BY <1>1, InvariantHolds, PTL

-----------------------------------------------------------------------------
(* The documented order of resolution.  First, the contract's own names for *)
(* what both modules take from elsewhere.                                   *)

LEMMA SameEntries ==
  /\ Contract!Opaque = Opaque
  /\ \A ip : Contract!CanonicalIp(ip) = CanonicalIp(ip)
  /\ \A kind, part : Contract!Entry(kind, part) = Entry(kind, part)
<1>1. Contract!Opaque = Opaque
  BY DEF Contract!Opaque, Opaque
<1>2. \A ip : Contract!CanonicalIp(ip) = CanonicalIp(ip)
  BY DEF Contract!CanonicalIp, CanonicalIp, Contract!IsMapped, IsMapped,
         Contract!MappedFirst, MappedFirst
<1>3. \A ip : Contract!Ip(ip) = Ip(ip)
  BY <1>2 DEF Contract!Ip, Ip
<1>4. \A kind, part : Contract!Entry(kind, part) = Entry(kind, part)
  BY <1>1, <1>3 DEF Contract!Entry, Entry, Contract!ListEntry, ListEntry,
                    Contract!ForwardedEntry, ForwardedEntry
<1> QED
  BY <1>1, <1>2, <1>4

LEMMA SameAnswers ==
  /\ Contract!NoAnswer = NoAnswer /\ Contract!Rejected = Rejected
  /\ Contract!NoRequest = NoRequest
  /\ \A ip : Contract!Socket(ip) = Socket(ip)
  /\ \A ip, h : Contract!ConfiguredHeader(ip, h) = ConfiguredHeader(ip, h)
  /\ \A ip, h : Contract!FromChain(ip, h) = FromChain(ip, h)
BY DEF Contract!NoAnswer, NoAnswer, Contract!Rejected, Rejected, Contract!NoRequest, NoRequest,
       Contract!Socket, Socket, Contract!ConfiguredHeader, ConfiguredHeader,
       Contract!FromChain, FromChain

LEMMA SameSpace ==
  /\ Contract!IpAddr = IpAddr
  /\ \A c, ip : Contract!Contains(c, ip) = Contains(c, ip)
  /\ \A rules : Contract!RuleSet(rules) = RuleSet(rules)
BY DEF Contract!IpAddr, IpAddr, Contract!Contains, Contains, Contract!RuleSet, RuleSet

LEMMA SameOperators ==
  /\ \A S : Contract!SequenceOps!Max(S) = CHOOSE i \in S : \A j \in S : i >= j
  /\ \A S : Contract!SequenceOps!Min(S) = CHOOSE i \in S : \A j \in S : i <= j
  /\ \A s : Contract!SequenceOps!Last(s) = s[Len(s)]
BY DEF Contract!SequenceOps!Max, Contract!SequenceOps!Min, Contract!SequenceOps!Last

-----------------------------------------------------------------------------
(* Sequences one after the other.                                           *)

\* A part stands in a whole behind its first elements, and at its front.
Stands(part, whole, behind) == \A j \in 1 .. Len(part) : whole[behind + j] = part[j]
Begins(part, whole) == \A i \in 1 .. Len(part) : i \in 1 .. Len(whole) /\ whole[i] = part[i]

\* offset[n] elements stand before those of the n-th sequence.
Offsets(offset, seqs, flat) ==
  /\ offset \in [1 .. Len(seqs) + 1 -> 0 .. Len(flat)]
  /\ offset[Len(seqs) + 1] = Len(flat)
  /\ \A n \in 1 .. Len(seqs) :
       /\ offset[n + 1] = offset[n] + Len(seqs[n])
       /\ Stands(seqs[n], flat, offset[n])

LEMMA ConcatLength ==
  ASSUME NEW S, NEW s \in Seq(S), NEW t \in Seq(S)
  PROVE  Len(s) \in Nat /\ Len(t) \in Nat /\ Len(s \o t) = Len(s) + Len(t)
BY LenProperties, ConcatProperties

LEMMA ConcatFront ==
  ASSUME NEW S, NEW s \in Seq(S), NEW t \in Seq(S), NEW i \in 1 .. Len(s)
  PROVE  i \in 1 .. Len(s \o t) /\ (s \o t)[i] = s[i]
<1>1. i \in 1 .. Len(s) + Len(t) /\ i <= Len(s)
  BY ConcatLength
<1>2. (s \o t)[i] = IF i <= Len(s) THEN s[i] ELSE t[i - Len(s)]
  BY <1>1, ConcatProperties
<1> QED
  BY <1>1, <1>2, ConcatLength

LEMMA ConcatBack ==
  ASSUME NEW S, NEW s \in Seq(S), NEW t \in Seq(S), NEW j \in 1 .. Len(t)
  PROVE  Len(s) + j \in 1 .. Len(s \o t) /\ (s \o t)[Len(s) + j] = t[j]
<1>1. /\ Len(s) + j \in 1 .. Len(s) + Len(t) /\ ~(Len(s) + j <= Len(s))
      /\ Len(s) + j - Len(s) = j
  BY ConcatLength
<1>2. (s \o t)[Len(s) + j] = IF Len(s) + j <= Len(s) THEN s[Len(s) + j] ELSE t[Len(s) + j - Len(s)]
  BY <1>1, ConcatProperties
<1> QED
  BY <1>1, <1>2, ConcatLength

\* A part of a whole that goes on behind it.
LEMMA PartOfWhole ==
  ASSUME NEW S, NEW before \in Seq(S), NEW part \in Seq(S), NEW after, NEW whole,
         after = before \o part, Begins(after, whole)
  PROVE  Len(after) = Len(before) + Len(part) /\ Stands(part, whole, Len(before))
<1>1. Len(after) = Len(before) + Len(part)
  BY ConcatLength
<1>2. ASSUME NEW j \in 1 .. Len(part) PROVE whole[Len(before) + j] = part[j]
  <2>1. Len(before) + j \in 1 .. Len(after) /\ after[Len(before) + j] = part[j]
    BY ConcatBack
  <2> QED
    BY <2>1, Zenon DEF Begins
<1> QED
  BY <1>1, <1>2 DEF Stands

\* join[n] is the first n sequences, one after the other.
Joins(join, seqs, count) ==
  join[0] = <<>> /\ \A n \in 1 .. count : join[n] = join[n - 1] \o seqs[n]

LEMMA JoinExists ==
  ASSUME NEW S, NEW seqs, NEW count \in Nat
  PROVE  seqs \in [1 .. count -> Seq(S)] =>
           \E join \in [0 .. count -> Seq(S)] : Joins(join, seqs, count)
<1>0. SUFFICES ASSUME seqs \in [1 .. count -> Seq(S)]
               PROVE  \E join \in [0 .. count -> Seq(S)] : Joins(join, seqs, count)
  OBVIOUS
<1> DEFINE next == [p \in (1 .. count) \X Seq(S) |-> p[2] \o seqs[p[1]]]
<1>1. <<>> \in Seq(S)
  BY EmptySeq
<1>2. ASSUME NEW p \in (1 .. count) \X Seq(S) PROVE p[2] \o seqs[p[1]] \in Seq(S)
  <2>1. p[2] \in Seq(S) /\ p[1] \in 1 .. count
    OBVIOUS
  <2>2. seqs[p[1]] \in Seq(S)
    BY <1>0, <2>1
  <2> QED
    BY <2>1, <2>2, ConcatProperties
<1>3. next \in [(1 .. count) \X Seq(S) -> Seq(S)]
  BY <1>2
<1>4. \A n \in 1 .. count : \A so_far \in Seq(S) : next[<<n, so_far>>] = so_far \o seqs[n]
  OBVIOUS
<1> HIDE DEF next
<1>5. PICK join \in [0 .. count -> Seq(S)] : Follows(join, <<>>, next, count)
  BY <1>1, <1>3, RecursionExists
<1>6. join[0] = <<>> /\ \A n \in 1 .. count : join[n] = next[<<n, join[n - 1]>>]
  BY <1>5 DEF Follows
<1>7. ASSUME NEW n \in 1 .. count PROVE join[n] = join[n - 1] \o seqs[n]
  <2>1. n - 1 \in 0 .. count
    OBVIOUS
  <2>2. join[n - 1] \in Seq(S)
    BY <1>5, <2>1
  <2> QED
    BY <1>4, <1>6, <2>2
<1> QED
  BY <1>5, <1>6, <1>7 DEF Joins

LEMMA OneJoin ==
  ASSUME NEW seqs, NEW count \in Nat, NEW f, NEW g,
         Joins(f, seqs, count), Joins(g, seqs, count)
  PROVE  \A n \in 0 .. count : f[n] = g[n]
<1>1. f[0] = g[0] /\ \A n \in 1 .. count : f[n - 1] = g[n - 1] => f[n] = g[n]
  BY DEF Joins
<1> QED
  BY <1>1, RecursionAgrees

\* What is joined first stays in front.
LEMMA JoinKeeps ==
  ASSUME NEW S, NEW seqs, NEW count \in Nat, NEW join, NEW n \in 0 .. count
  PROVE  /\ seqs \in [1 .. count -> Seq(S)] /\ join \in [0 .. count -> Seq(S)]
         /\ Joins(join, seqs, count)
         => Begins(join[n], join[count])
<1>0. SUFFICES ASSUME seqs \in [1 .. count -> Seq(S)], join \in [0 .. count -> Seq(S)],
                      Joins(join, seqs, count)
               PROVE  Begins(join[n], join[count])
  OBVIOUS
<1> DEFINE Kept(m) == Begins(join[n], join[m])
           T == {m \in 0 .. count : m < n \/ Kept(m)}
<1>1. ASSUME NEW k \in 1 .. count, Kept(k - 1) PROVE Kept(k)
  <2>1. k - 1 \in 0 .. count
    OBVIOUS
  <2>2. join[k - 1] \in Seq(S) /\ seqs[k] \in Seq(S) /\ join[k] = join[k - 1] \o seqs[k]
    BY <1>0, <2>1 DEF Joins
  <2>4. \A i \in 1 .. Len(join[k - 1]) :
          i \in 1 .. Len(join[k - 1] \o seqs[k]) /\ (join[k - 1] \o seqs[k])[i] = join[k - 1][i]
    BY <2>2, ConcatFront, Zenon
  <2>3. \A i \in 1 .. Len(join[k - 1]) : i \in 1 .. Len(join[k]) /\ join[k][i] = join[k - 1][i]
    BY <2>2, <2>4, Zenon
  <2> QED
    BY <1>1, <2>3 DEF Begins
<1>2. Kept(n)
  BY DEF Begins
<1> HIDE DEF Kept
<1>3. 0 \in T
  BY <1>2
<1>4. ASSUME NEW k \in 1 .. count, k - 1 \in T PROVE k \in T
  <2>1. k < n \/ k = n \/ (k - 1 \in 0 .. count /\ ~(k - 1 < n))
    OBVIOUS
  <2> QED
    BY <1>1, <1>2, <1>4, <2>1
<1> HIDE DEF T
<1>5. count \in T
  BY <1>3, <1>4, InductionUpTo
<1>6. ~(count < n)
  OBVIOUS
<1> QED
  BY <1>5, <1>6 DEF T, Kept

\* FlattenSeq puts sequences one after the other.
LEMMA FlattenJoins ==
  ASSUME NEW S, NEW seqs \in Seq(Seq(S)), seqs # <<>>
  PROVE  /\ Contract!SequenceOps!FlattenSeq(seqs) \in Seq(S)
         /\ \E offset : Offsets(offset, seqs, Contract!SequenceOps!FlattenSeq(seqs)) /\ offset[1] = 0
<1> DEFINE count == Len(seqs)
           Flat(f) == f = [i \in 1 .. count |-> IF i = 1 THEN seqs[i] ELSE f[i - 1] \o seqs[i]]
           flatten == CHOOSE f : Flat(f)
           whole   == Contract!SequenceOps!FlattenSeq(seqs)
<1>1. count \in Nat /\ count # 0 /\ seqs \in [1 .. count -> Seq(S)]
  BY LenProperties, EmptySeq
<1>2. whole = flatten[count]
  BY <1>1 DEF Contract!SequenceOps!FlattenSeq
<1>3. PICK join \in [0 .. count -> Seq(S)] : Joins(join, seqs, count)
  BY <1>1, JoinExists, Zenon
<1>4. \A n \in 1 .. count : seqs[n] \in Seq(S) /\ n \in 0 .. count /\ n - 1 \in 0 .. count
  BY <1>1
<1>5. join[1] = seqs[1]
  <2>1. 1 \in 1 .. count /\ 1 - 1 = 0
    BY <1>1
  <2>2. join[1] = <<>> \o seqs[1] /\ seqs[1] \in Seq(S)
    BY <1>3, <1>4, <2>1 DEF Joins
  <2> QED
    BY <2>2, ConcatEmptySeq
<1>6. Flat(flatten)
  <2> DEFINE f == [i \in 1 .. count |-> join[i]]
  <2>1. ASSUME NEW i \in 1 .. count
        PROVE  f[i] = IF i = 1 THEN seqs[i] ELSE f[i - 1] \o seqs[i]
    <3>1. CASE i = 1
      BY <1>5, <3>1
    <3>2. CASE i # 1
      <4>1. i - 1 \in 1 .. count
        BY <3>2
      <4> QED
        BY <1>3, <3>2, <4>1 DEF Joins
    <3> QED
      BY <3>1, <3>2
  <2>2. Flat(f)
    BY <2>1
  <2> QED
    BY <2>2
<1> HIDE DEF flatten, whole, count
<1>7. \A n \in 1 .. count : flatten[n] = join[n]
  <2> DEFINE f == [n \in 0 .. count |-> IF n = 0 THEN <<>> ELSE flatten[n]]
  <2>1. f[0] = <<>> /\ \A n \in 1 .. count : f[n] = flatten[n]
    BY <1>1
  <2> HIDE DEF f
  <2>2. ASSUME NEW n \in 1 .. count PROVE f[n] = f[n - 1] \o seqs[n]
    <3>1. CASE n = 1
      <4>1. f[0] \o seqs[1] = seqs[1]
        BY <1>4, <2>1, <3>1, ConcatEmptySeq
      <4>2. f[1] = seqs[1]
        BY <1>6, <2>1, <3>1
      <4>3. n - 1 = 0
        BY <3>1
      <4> QED
        BY <3>1, <4>1, <4>2, <4>3, Zenon
    <3>2. CASE n # 1
      <4>1. n - 1 \in 1 .. count
        BY <1>1, <3>2
      <4>2. flatten[n] = flatten[n - 1] \o seqs[n]
        BY <1>6, <3>2
      <4> QED
        BY <2>1, <4>1, <4>2
    <3> QED
      BY <3>1, <3>2
  <2>3. Joins(f, seqs, count)
    BY <2>1, <2>2 DEF Joins
  <2>4. \A n \in 0 .. count : f[n] = join[n]
    BY <1>1, <1>3, <2>3, OneJoin
  <2> QED
    BY <1>4, <2>1, <2>4
<1>8. whole = join[count] /\ count \in 0 .. count
  BY <1>1, <1>2, <1>7
<1>9. whole \in Seq(S)
  BY <1>3, <1>8
<1> DEFINE offset == [n \in 1 .. count + 1 |-> Len(join[n - 1])]
<1>10. Offsets(offset, seqs, whole) /\ offset[1] = 0
  <2>1. ASSUME NEW n \in 0 .. count PROVE Len(join[n]) \in 0 .. Len(whole)
    <3>1. Len(join[n]) \in Nat /\ Len(whole) \in Nat
      BY <1>3, <1>9, LenProperties
    <3>2. Begins(join[n], whole)
      BY <1>1, <1>3, <1>8, JoinKeeps, Zenon
    <3>3. \A i \in 1 .. Len(join[n]) : i \in 1 .. Len(whole)
      BY <3>2 DEF Begins
    <3>4. CASE Len(join[n]) = 0
      BY <3>1, <3>4
    <3>5. CASE Len(join[n]) # 0
      <4>1. Len(join[n]) \in 1 .. Len(join[n])
        BY <3>1, <3>5
      <4> QED
        BY <3>1, <3>3, <4>1
    <3> QED
      BY <3>4, <3>5
  <2>2. offset \in [1 .. count + 1 -> 0 .. Len(whole)]
    <3>1. \A n \in 1 .. count + 1 : n - 1 \in 0 .. count
      BY <1>1
    <3> QED
      BY <2>1, <3>1
  <2>3. \A n \in 1 .. count : offset[n + 1] = Len(join[n]) /\ offset[n] = Len(join[n - 1])
    BY <1>1
  <2>4. offset[count + 1] = Len(whole) /\ offset[1] = Len(join[0])
    <3>1. count + 1 - 1 = count /\ count + 1 \in 1 .. count + 1 /\ 1 \in 1 .. count + 1 /\ 1 - 1 = 0
      BY <1>1
    <3> QED
      BY <1>8, <3>1
  <2> HIDE DEF offset
  <2>5. ASSUME NEW n \in 1 .. count
        PROVE  /\ offset[n + 1] = offset[n] + Len(seqs[n])
               /\ Stands(seqs[n], whole, offset[n])
    <3>1. join[n - 1] \in Seq(S) /\ seqs[n] \in Seq(S) /\ join[n] = join[n - 1] \o seqs[n]
      BY <1>3, <1>4 DEF Joins
    <3>2. Begins(join[n], join[count])
      BY <1>1, <1>3, <1>4, JoinKeeps, Zenon
    <3>3. Len(join[n]) = Len(join[n - 1]) + Len(seqs[n]) /\ Stands(seqs[n], whole, Len(join[n - 1]))
      BY <1>8, <3>1, <3>2, PartOfWhole
    <3> QED
      BY <2>3, <3>3
  <2>6. Len(<<>>) = 0
    OBVIOUS
  <2> QED
    BY <1>3, <2>2, <2>4, <2>5, <2>6 DEF Offsets, count, Joins
<1> QED
  BY <1>9, <1>10 DEF whole

-----------------------------------------------------------------------------
(* What the parts say, up to the n-th.                                      *)

Says(f, kind, parts) ==
  f = [n \in 0 .. Len(parts) |->
         IF n = 0 THEN <<>>
         ELSE IF parts[n].text = "empty" THEN f[n - 1]
         ELSE Append(f[n - 1], Entry(kind, parts[n]))]

HopsUpTo(kind, parts) == CHOOSE f : Says(f, kind, parts)

LEMMA HopsAreSaid ==
  ASSUME NEW kind, NEW parts \in Seq(Part)
  PROVE  Says(HopsUpTo(kind, parts), kind, parts)
<1> DEFINE count == Len(parts)
           next == [p \in (1 .. count) \X Seq(ChainEntry) |->
                      IF parts[p[1]].text = "empty" THEN p[2]
                      ELSE Append(p[2], Entry(kind, parts[p[1]]))]
<1>1. count \in Nat /\ parts \in [1 .. count -> Part]
  BY LenProperties
<1>2. <<>> \in Seq(ChainEntry)
  BY EmptySeq
<1>3. ASSUME NEW p \in (1 .. count) \X Seq(ChainEntry) PROVE next[p] \in Seq(ChainEntry)
  <2>1. p[2] \in Seq(ChainEntry) /\ p[1] \in 1 .. count
    OBVIOUS
  <2>2. Entry(kind, parts[p[1]]) \in ChainEntry
    BY <1>1, <2>1, EntryIsHop
  <2>3. Append(p[2], Entry(kind, parts[p[1]])) \in Seq(ChainEntry)
    BY <2>1, <2>2, AppendProperties
  <2> QED
    BY <2>1, <2>3
<1>4. next \in [(1 .. count) \X Seq(ChainEntry) -> Seq(ChainEntry)]
  BY <1>3
<1>5. \A n \in 1 .. count : \A chain \in Seq(ChainEntry) :
        next[<<n, chain>>] = IF parts[n].text = "empty" THEN chain
                             ELSE Append(chain, Entry(kind, parts[n]))
  OBVIOUS
<1> HIDE DEF next, count
<1>6. PICK f \in [0 .. count -> Seq(ChainEntry)] : Follows(f, <<>>, next, count)
  BY <1>1, <1>2, <1>4, RecursionExists
<1>7. ASSUME NEW n \in 0 .. count
      PROVE  f[n] = IF n = 0 THEN <<>>
                    ELSE IF parts[n].text = "empty" THEN f[n - 1]
                    ELSE Append(f[n - 1], Entry(kind, parts[n]))
  <2>1. CASE n = 0
    BY <1>6, <2>1 DEF Follows
  <2>2. CASE n # 0
    <3>1. n \in 1 .. count /\ n - 1 \in 0 .. count
      BY <1>1, <2>2
    <3>2. f[n] = next[<<n, f[n - 1]>>] /\ f[n - 1] \in Seq(ChainEntry)
      BY <1>6, <3>1 DEF Follows
    <3> QED
      BY <1>5, <2>2, <3>1, <3>2
  <2> QED
    BY <2>1, <2>2
<1>8. Says(f, kind, parts)
  BY <1>6, <1>7 DEF Says, count
<1> QED
  BY <1>8 DEF HopsUpTo

\* What one more part adds.
Longer(kind, chain, part) ==
  IF part.text = "empty" THEN chain ELSE Append(chain, Entry(kind, part))

LEMMA HopsBegin ==
  ASSUME NEW kind, NEW parts \in Seq(Part)
  PROVE  HopsUpTo(kind, parts)[0] = <<>>
<1> DEFINE f == HopsUpTo(kind, parts)
<1>1. Len(parts) \in Nat /\ Says(f, kind, parts)
  BY LenProperties, HopsAreSaid
<1> HIDE DEF f
<1>2. f[0] = <<>>
  BY <1>1 DEF Says
<1> QED
  BY <1>2 DEF f

LEMMA HopsGrow ==
  ASSUME NEW kind, NEW parts \in Seq(Part), NEW n \in 1 .. Len(parts)
  PROVE  HopsUpTo(kind, parts)[n] = Longer(kind, HopsUpTo(kind, parts)[n - 1], parts[n])
<1> DEFINE f == HopsUpTo(kind, parts)
<1>1. Len(parts) \in Nat /\ Says(f, kind, parts)
  BY LenProperties, HopsAreSaid
<1> HIDE DEF f
<1>2. n \in 0 .. Len(parts) /\ n # 0
  BY <1>1
<1>3. f[n] = Longer(kind, f[n - 1], parts[n])
  BY <1>1, <1>2 DEF Says, Longer
<1> QED
  BY <1>3 DEF f

LEMMA HopsOfAreSaid ==
  ASSUME NEW kind, NEW values
  PROVE  Contract!HopsOf(kind, values) =
           HopsUpTo(kind, Contract!PartsOf(values))[Len(Contract!PartsOf(values))]
BY SameEntries DEF Contract!HopsOf, HopsUpTo, Says

-----------------------------------------------------------------------------
(* Reading a chain header, line by line and part by part.                   *)

AllReadable(values) == \A i \in DOMAIN values : values[i].readable

PartLists(values) == [i \in DOMAIN values |-> values[i].parts]

(***************************************************************************)
(* Of the values of a chain header, some lines are left and a chain has    *)
(* been read: the chain is what the parts before the lines say, and the    *)
(* lines hold the rest of the parts.                                       *)
(***************************************************************************)
ReadSoFar(kind, values, lines, chain) ==
  /\ AllReadable(values) =>
       /\ AllReadable(lines)
       /\ \E offset : /\ Offsets(offset, PartLists(lines), Contract!PartsOf(values))
                      /\ chain = HopsUpTo(kind, Contract!PartsOf(values))[offset[1]]
  /\ ~AllReadable(values) => ~AllReadable(lines)

LEMMA PartListsAreLists ==
  ASSUME NEW values \in Seq(HeaderValue), AllReadable(values)
  PROVE  /\ PartLists(values) \in Seq(Seq(Part))
         /\ Len(PartLists(values)) = Len(values)
         /\ \A n \in 1 .. Len(values) : PartLists(values)[n] = values[n].parts
<1>1. Len(values) \in Nat /\ DOMAIN values = 1 .. Len(values) /\ values \in [1 .. Len(values) -> HeaderValue]
  BY LenProperties
<1>2. ASSUME NEW n \in 1 .. Len(values) PROVE values[n].parts \in Seq(Part)
  <2>1. values[n] \in HeaderValue /\ values[n].readable
    BY <1>1 DEF AllReadable
  <2> QED
    BY <2>1 DEF HeaderValue
<1>3. PartLists(values) \in [1 .. Len(values) -> Seq(Part)]
  BY <1>1, <1>2 DEF PartLists
<1>4. PartLists(values) \in Seq(Seq(Part)) /\ Len(PartLists(values)) = Len(values)
  BY <1>1, <1>3
<1> QED
  BY <1>1, <1>4 DEF PartLists

\* All parts of some lines, one after the other.
LEMMA PartsAreJoined ==
  ASSUME NEW values \in Seq(HeaderValue), values # <<>>, AllReadable(values)
  PROVE  /\ Contract!PartsOf(values) \in Seq(Part)
         /\ \E offset : Offsets(offset, PartLists(values), Contract!PartsOf(values)) /\ offset[1] = 0
<1>1. Contract!PartsOf(values) = Contract!SequenceOps!FlattenSeq(PartLists(values))
  BY DEF Contract!PartsOf, PartLists
<1>2. PartLists(values) \in Seq(Seq(Part)) /\ PartLists(values) # <<>>
  <2>1. Len(values) # 0 /\ Len(PartLists(values)) = Len(values)
    BY PartListsAreLists, EmptySeq
  <2> QED
    BY <2>1, PartListsAreLists, EmptySeq
<1> QED
  BY <1>1, <1>2, FlattenJoins

LEMMA ReadingStarts ==
  ASSUME NEW kind, NEW values \in Seq(HeaderValue), values # <<>>
  PROVE  ReadSoFar(kind, values, values, <<>>)
<1>1. CASE AllReadable(values)
  <2>1. PICK offset : Offsets(offset, PartLists(values), Contract!PartsOf(values)) /\ offset[1] = 0
    BY <1>1, PartsAreJoined
  <2>2. HopsUpTo(kind, Contract!PartsOf(values))[0] = <<>>
    BY <1>1, PartsAreJoined, HopsBegin
  <2> QED
    BY <1>1, <2>1, <2>2 DEF ReadSoFar
<1> QED
  BY <1>1 DEF ReadSoFar

\* With no line left, everything has been read.
LEMMA ReadingIsOver ==
  ASSUME NEW kind, NEW values, NEW chain, ReadSoFar(kind, values, <<>>, chain)
  PROVE  AllReadable(values) /\ chain = Contract!HopsOf(kind, values)
<1>1. DOMAIN <<>> = {} /\ Len(<<>>) = 0
  OBVIOUS
<1>2. AllReadable(<<>>) /\ Len(PartLists(<<>>)) = 0
  BY <1>1 DEF AllReadable, PartLists
<1>3. AllReadable(values)
  BY <1>2 DEF ReadSoFar
<1>4. PICK offset : /\ Offsets(offset, PartLists(<<>>), Contract!PartsOf(values))
                    /\ chain = HopsUpTo(kind, Contract!PartsOf(values))[offset[1]]
  BY <1>3 DEF ReadSoFar
<1>5. offset[1] = Len(Contract!PartsOf(values))
  BY <1>2, <1>4 DEF Offsets
<1> QED
  BY <1>3, <1>4, <1>5, HopsOfAreSaid

\* The lines that are left when the first part of the first one has been read.
WithoutFirstPart(lines, rest) ==
  /\ rest \in Seq(HeaderValue) /\ Len(rest) = Len(lines)
  /\ 1 \in 1 .. Len(lines)
  /\ lines[1].parts \in Seq(Part) /\ lines[1].parts # <<>>
  /\ rest[1].readable /\ lines[1].readable /\ rest[1].parts = Tail(lines[1].parts)
  /\ \A n \in 1 .. Len(lines) : n # 1 => rest[n] = lines[n]

LEMMA LinesBehindPart ==
  ASSUME NEW lines \in Seq(HeaderValue), lines # <<>>, Head(lines).readable,
         Head(lines).parts # <<>>
  PROVE  WithoutFirstPart(lines, [lines EXCEPT ![1].parts = Tail(@)])
<1> DEFINE rest == [lines EXCEPT ![1].parts = Tail(@)]
<1>1. Len(lines) \in Nat /\ Len(lines) # 0 /\ DOMAIN lines = 1 .. Len(lines)
  BY LenProperties, EmptySeq
<1>2. 1 \in 1 .. Len(lines) /\ Head(lines) = lines[1] /\ lines[1] \in HeaderValue
  BY <1>1, HeadTailProperties
<1>3. lines[1].parts \in Seq(Part) /\ DOMAIN lines[1] = {"readable", "parts"}
  BY <1>2 DEF HeaderValue
<1>4. rest[1] = [lines[1] EXCEPT !.parts = Tail(@)]
  BY <1>1, <1>2
<1>5. rest[1].parts = Tail(lines[1].parts) /\ rest[1].readable = lines[1].readable
  BY <1>3, <1>4
<1>6. rest \in Seq(HeaderValue)
  BY UnreadParts
<1>7. DOMAIN rest = DOMAIN lines
  OBVIOUS
<1>8. Len(rest) = Len(lines)
  BY <1>1, <1>6, <1>7, LenProperties
<1>9. \A n \in 1 .. Len(lines) : n # 1 => rest[n] = lines[n]
  BY <1>1
<1> QED
  BY <1>2, <1>3, <1>5, <1>6, <1>8, <1>9 DEF WithoutFirstPart

LEMMA ReadingAPart ==
  ASSUME NEW kind, NEW values \in Seq(HeaderValue), values # <<>>,
         NEW lines \in Seq(HeaderValue), NEW chain, ReadSoFar(kind, values, lines, chain),
         lines # <<>>, Head(lines).readable, Head(lines).parts # <<>>,
         NEW rest, rest = [lines EXCEPT ![1].parts = Tail(@)]
  PROVE  ReadSoFar(kind, values, rest, Longer(kind, chain, Head(Head(lines).parts)))
<1> DEFINE parts == Contract!PartsOf(values)
           now   == Longer(kind, chain, Head(Head(lines).parts))
<1>1. /\ rest \in Seq(HeaderValue) /\ Len(rest) = Len(lines)
      /\ 1 \in 1 .. Len(lines)
      /\ lines[1].parts \in Seq(Part) /\ lines[1].parts # <<>>
      /\ rest[1].readable /\ lines[1].readable /\ rest[1].parts = Tail(lines[1].parts)
      /\ \A n \in 1 .. Len(lines) : n # 1 => rest[n] = lines[n]
  BY LinesBehindPart DEF WithoutFirstPart
<1>2. DOMAIN rest = 1 .. Len(lines) /\ DOMAIN lines = 1 .. Len(lines) /\ Len(lines) \in Nat
  BY <1>1, LenProperties
<1>3. AllReadable(rest) <=> AllReadable(lines)
  BY <1>1, <1>2 DEF AllReadable
<1>4. ASSUME AllReadable(values)
      PROVE  \E offset : /\ Offsets(offset, PartLists(rest), parts)
                        /\ now = HopsUpTo(kind, parts)[offset[1]]
  <2>1. AllReadable(lines) /\ AllReadable(rest)
    BY <1>3, <1>4 DEF ReadSoFar
  <2>2. PICK offset : Offsets(offset, PartLists(lines), parts) /\ chain = HopsUpTo(kind, parts)[offset[1]]
    BY <1>4 DEF ReadSoFar
  <2>3. /\ Len(PartLists(lines)) = Len(lines) /\ Len(PartLists(rest)) = Len(lines)
        /\ \A n \in 1 .. Len(lines) :
             PartLists(lines)[n] = lines[n].parts /\ PartLists(rest)[n] = rest[n].parts
    BY <1>1, <2>1, PartListsAreLists
  <2>4. parts \in Seq(Part) /\ Len(parts) \in Nat
    BY <1>4, PartsAreJoined, LenProperties
  <2> DEFINE first == lines[1].parts
  <2>5. /\ Head(Head(lines).parts) = first[1] /\ Len(first) \in Nat /\ Len(first) # 0
        /\ Len(Tail(first)) = Len(first) - 1
        /\ \A j \in 1 .. Len(first) - 1 : Tail(first)[j] = first[j + 1]
    <3>1. Head(lines) = lines[1]
      BY <1>1, <1>2
    <3>2. Len(first) \in Nat /\ Len(first) # 0
      BY <1>1, LenProperties, EmptySeq
    <3>3. Len(Tail(first)) = Len(first) - 1 /\ \A j \in 1 .. Len(Tail(first)) : Tail(first)[j] = first[j + 1]
      BY <1>1, HeadTailProperties
    <3>4. Head(first) = first[1]
      BY <1>1, <3>2
    <3> QED
      BY <3>1, <3>2, <3>3, <3>4
  <2> HIDE DEF first, parts
  <2>6. /\ offset \in [1 .. Len(lines) + 1 -> 0 .. Len(parts)]
        /\ offset[Len(lines) + 1] = Len(parts)
        /\ \A n \in 1 .. Len(lines) :
             /\ offset[n + 1] = offset[n] + Len(lines[n].parts)
             /\ Stands(lines[n].parts, parts, offset[n])
    BY <2>2, <2>3 DEF Offsets
  <2>7. offset[1] \in 0 .. Len(parts) /\ offset[2] \in 0 .. Len(parts)
        /\ offset[2] = offset[1] + Len(first) /\ Stands(first, parts, offset[1])
    <3>1. 1 \in 1 .. Len(lines) + 1 /\ 2 \in 1 .. Len(lines) + 1 /\ 1 + 1 = 2
      BY <1>1, <1>2
    <3> QED
      BY <1>1, <2>6, <3>1 DEF first
  <2>8. offset[1] + 1 \in 1 .. Len(parts) /\ offset[1] + 1 - 1 = offset[1]
    BY <2>4, <2>5, <2>7
  <2>9. parts[offset[1] + 1] = first[1]
    <3>1. 1 \in 1 .. Len(first)
      BY <2>5
    <3> QED
      BY <2>7, <3>1 DEF Stands
  <2>10. now = HopsUpTo(kind, parts)[offset[1] + 1]
    <3>1. \A n \in 1 .. Len(parts) :
            HopsUpTo(kind, parts)[n] = Longer(kind, HopsUpTo(kind, parts)[n - 1], parts[n])
      BY <2>4, HopsGrow
    <3>2. PICK n : n = offset[1] + 1
      OBVIOUS
    <3>3. n \in 1 .. Len(parts) /\ n - 1 = offset[1]
      BY <2>4, <2>7, <2>8, <3>2
    <3>4. HopsUpTo(kind, parts)[n] = Longer(kind, HopsUpTo(kind, parts)[n - 1], parts[n])
      BY <3>1, <3>3
    <3> QED
      BY <2>2, <2>5, <2>9, <3>2, <3>3, <3>4
  <2> DEFINE further == [offset EXCEPT ![1] = offset[1] + 1]
  <2>11. /\ further \in [1 .. Len(lines) + 1 -> 0 .. Len(parts)]
         /\ further[1] = offset[1] + 1
         /\ \A n \in 1 .. Len(lines) + 1 : n # 1 => further[n] = offset[n]
    <3>1. offset[1] + 1 \in 0 .. Len(parts) /\ 1 \in 1 .. Len(lines) + 1
      BY <1>2, <2>4, <2>8
    <3> QED
      BY <2>6, <3>1
  <2> HIDE DEF further
  <2>12. further[Len(lines) + 1] = Len(parts)
    <3>1. Len(lines) + 1 \in 1 .. Len(lines) + 1 /\ Len(lines) + 1 # 1
      BY <1>1, <1>2
    <3> QED
      BY <2>6, <2>11, <3>1
  <2>13. ASSUME NEW n \in 1 .. Len(lines)
         PROVE  /\ further[n + 1] = further[n] + Len(rest[n].parts)
                /\ Stands(rest[n].parts, parts, further[n])
    <3>1. CASE n = 1
      <4>1. further[2] = offset[2]
        <5>1. 2 \in 1 .. Len(lines) + 1 /\ 2 # 1
          BY <1>1, <1>2
        <5> QED
          BY <2>11, <5>1
      <4>2. rest[1].parts = Tail(first)
        BY <1>1 DEF first
      <4>3. offset[2] = (offset[1] + 1) + (Len(first) - 1)
        BY <2>5, <2>7
      <4>4. ASSUME NEW j \in 1 .. Len(first) - 1
            PROVE  parts[offset[1] + 1 + j] = Tail(first)[j]
        <5>1. j + 1 \in 1 .. Len(first) /\ offset[1] + 1 + j = offset[1] + (j + 1)
          <6>1. offset[1] \in Nat /\ Len(first) \in Nat
            BY <2>4, <2>5, <2>7
          <6>2. \A o, l \in Nat : \A k \in 1 .. l - 1 : k + 1 \in 1 .. l /\ o + 1 + k = o + (k + 1)
            OBVIOUS
          <6> QED
            BY <6>1, <6>2, Zenon
        <5>2. parts[offset[1] + (j + 1)] = first[j + 1]
          BY <2>7, <5>1 DEF Stands
        <5> QED
          BY <2>5, <5>1, <5>2
      <4>5. Stands(Tail(first), parts, offset[1] + 1)
        BY <2>5, <4>4 DEF Stands
      <4>6. n + 1 = 2
        BY <3>1
      <4> QED
        BY <2>5, <2>11, <3>1, <4>1, <4>2, <4>3, <4>5, <4>6
    <3>2. CASE n # 1
      <4>1. n \in 1 .. Len(lines) + 1 /\ n + 1 \in 1 .. Len(lines) + 1 /\ n + 1 # 1
        BY <1>2, <3>2
      <4>2. rest[n] = lines[n] /\ further[n] = offset[n] /\ further[n + 1] = offset[n + 1]
        BY <1>1, <2>11, <3>2, <4>1
      <4> QED
        BY <2>6, <4>2
    <3> QED
      BY <3>1, <3>2
  <2>14. Offsets(further, PartLists(rest), parts)
    BY <2>3, <2>11, <2>12, <2>13 DEF Offsets
  <2> QED
    BY <2>10, <2>11, <2>14
<1>5. ReadSoFar(kind, values, rest, now)
  BY <1>3, <1>4 DEF ReadSoFar
<1> QED
  BY <1>5

LEMMA ReadingALine ==
  ASSUME NEW kind, NEW values, NEW lines \in Seq(HeaderValue), NEW chain,
         ReadSoFar(kind, values, lines, chain),
         lines # <<>>, Head(lines).readable, Head(lines).parts = <<>>
  PROVE  ReadSoFar(kind, values, Tail(lines), chain)
<1> DEFINE parts == Contract!PartsOf(values)
           rest  == Tail(lines)
<1>1. /\ Len(lines) \in Nat /\ Len(lines) # 0 /\ DOMAIN lines = 1 .. Len(lines)
      /\ Head(lines) = lines[1]
  BY LenProperties, EmptySeq
<1>2. rest \in Seq(HeaderValue)
  BY HeadTailProperties
<1>3. Len(rest) = Len(lines) - 1 /\ \A n \in 1 .. Len(rest) : rest[n] = lines[n + 1]
  BY HeadTailProperties
<1>4. DOMAIN rest = 1 .. Len(lines) - 1
  BY <1>2, <1>3, LenProperties
<1> HIDE DEF rest, parts
<1>5. AllReadable(rest) <=> AllReadable(lines)
  <2>1. ASSUME NEW n \in 1 .. Len(lines), n # 1 PROVE n - 1 \in DOMAIN rest /\ rest[n - 1] = lines[n]
    <3>1. n - 1 \in 1 .. Len(lines) - 1 /\ (n - 1) + 1 = n
      BY <1>1, <2>1
    <3> QED
      BY <1>3, <1>4, <3>1
  <2>2. ASSUME NEW n \in DOMAIN rest PROVE n + 1 \in DOMAIN lines /\ rest[n] = lines[n + 1]
    BY <1>1, <1>3, <1>4
  <2>3. ASSUME AllReadable(rest) PROVE AllReadable(lines)
    <3>1. ASSUME NEW n \in DOMAIN lines PROVE lines[n].readable
      <4>1. CASE n = 1
        BY <1>1, <4>1
      <4>2. CASE n # 1
        <5>1. n - 1 \in DOMAIN rest /\ rest[n - 1] = lines[n]
          BY <1>1, <2>1, <4>2
        <5>2. rest[n - 1].readable
          BY <2>3, <5>1, Zenon DEF AllReadable
        <5> QED
          BY <5>1, <5>2
      <4> QED
        BY <4>1, <4>2
    <3> QED
      BY <3>1 DEF AllReadable
  <2>4. ASSUME AllReadable(lines) PROVE AllReadable(rest)
    <3>1. ASSUME NEW n \in DOMAIN rest PROVE rest[n].readable
      <4>1. n + 1 \in DOMAIN lines /\ rest[n] = lines[n + 1]
        BY <2>2
      <4>2. lines[n + 1].readable
        BY <2>4, <4>1, Zenon DEF AllReadable
      <4> QED
        BY <4>1, <4>2
    <3> QED
      BY <3>1 DEF AllReadable
  <2> QED
    BY <2>3, <2>4
<1>6. ASSUME AllReadable(values)
      PROVE  \E offset : Offsets(offset, PartLists(rest), parts) /\ chain = HopsUpTo(kind, parts)[offset[1]]
  <2>1. AllReadable(lines) /\ AllReadable(rest)
    BY <1>5, <1>6 DEF ReadSoFar
  <2>2. PICK offset : Offsets(offset, PartLists(lines), parts) /\ chain = HopsUpTo(kind, parts)[offset[1]]
    BY <1>6 DEF ReadSoFar, parts
  <2>3. Len(PartLists(lines)) = Len(lines) /\ \A n \in 1 .. Len(lines) : PartLists(lines)[n] = lines[n].parts
    BY <2>1, PartListsAreLists
  <2>4. Len(PartLists(rest)) = Len(rest) /\ \A n \in 1 .. Len(rest) : PartLists(rest)[n] = rest[n].parts
    BY <1>2, <2>1, PartListsAreLists
  <2>5. /\ offset \in [1 .. Len(lines) + 1 -> 0 .. Len(parts)]
        /\ offset[Len(lines) + 1] = Len(parts)
        /\ \A n \in 1 .. Len(lines) :
             /\ offset[n + 1] = offset[n] + Len(lines[n].parts)
             /\ Stands(lines[n].parts, parts, offset[n])
    BY <2>2, <2>3 DEF Offsets
  <2> DEFINE further == [n \in 1 .. Len(lines) |-> offset[n + 1]]
  <2>6. ASSUME NEW n \in 1 .. Len(lines) PROVE further[n] = offset[n + 1] /\ further[n] \in 0 .. Len(parts)
    <3>1. n + 1 \in 1 .. Len(lines) + 1
      BY <1>1
    <3> QED
      BY <2>5, <3>1
  <2>7. further \in [1 .. Len(lines) -> 0 .. Len(parts)]
    BY <2>6
  <2> HIDE DEF further
  <2>8. further[1] = offset[1]
    <3>1. 1 \in 1 .. Len(lines) /\ 1 \in 1 .. Len(lines) + 1 /\ 1 + 1 = 2 /\ Len(<<>>) = 0
      BY <1>1
    <3>2. further[1] = offset[2] /\ offset[2] = offset[1] + 0
      BY <1>1, <2>5, <2>6, <3>1
    <3>3. offset[1] \in 0 .. Len(parts)
      BY <2>5, <3>1
    <3> QED
      BY <3>2, <3>3
  <2>9. further[Len(lines)] = Len(parts)
    <3>1. Len(lines) \in 1 .. Len(lines)
      BY <1>1
    <3> QED
      BY <2>5, <2>6, <3>1
  <2>10. ASSUME NEW n \in 1 .. Len(rest)
         PROVE  /\ further[n + 1] = further[n] + Len(rest[n].parts)
                /\ Stands(rest[n].parts, parts, further[n])
    <3>1. n \in 1 .. Len(lines) /\ n + 1 \in 1 .. Len(lines)
      BY <1>1, <1>3
    <3>2. further[n] = offset[n + 1] /\ further[n + 1] = offset[(n + 1) + 1] /\ rest[n] = lines[n + 1]
      BY <1>3, <2>6, <3>1
    <3> QED
      BY <2>5, <3>1, <3>2
  <2>11. Len(rest) + 1 = Len(lines)
    BY <1>1, <1>3
  <2>12. Offsets(further, PartLists(rest), parts)
    BY <2>4, <2>7, <2>9, <2>10, <2>11 DEF Offsets
  <2> QED
    BY <2>2, <2>8, <2>12
<1> QED
  BY <1>5, <1>6 DEF ReadSoFar, parts, rest

-----------------------------------------------------------------------------
(* Who is believed, and which client IP header.                             *)

\* The rules over an address are the one that the lookup finds.
LEMMA RulesOverAreFound ==
  ASSUME config \in ClientIpConfig, config.trust = "TrustedProxies", NEW ip \in IpAddr
  PROVE  Contract!RulesOver(ip) =
           {config.rules[i] : i \in {RuleFor(config.rules, CanonicalIp(ip))} \ {0}}
<1>1. Covers(CanonicalIp(ip)) = {RuleFor(config.rules, CanonicalIp(ip))} \ {0}
  BY CanonicalIpIsCanonical, TrustedMeansCovered
<1>2. Contract!RulesOver(ip) = {config.rules[i] : i \in Covers(CanonicalIp(ip))}
  BY SameEntries, SameSpace DEF Contract!RulesOver, RuleSet, Covers
<1> QED
  BY <1>1, <1>2

\* A usable value is one that is nothing but an address.
LEMMA UsableIsPlain ==
  ASSUME NEW values \in Seq(HeaderValue)
  PROVE  /\ UsableHeader(values) => values[Len(values)].parts[1].ip \in Contract!LastPlain(values)
         /\ Contract!LastPlain(values) # {} => UsableHeader(values)
<1> DEFINE last == values[Len(values)]
           PlainValue(ip) == [readable |-> TRUE, parts |-> <<[text |-> "plain", ip |-> ip]>>]
<1>1. Contract!LastPlain(values) = {ip \in IpAddr : values # <<>> /\ last = PlainValue(ip)}
  BY SameSpace, SameOperators DEF Contract!LastPlain
<1>2. ASSUME UsableHeader(values) PROVE last.parts[1].ip \in Contract!LastPlain(values)
  <2>1. values # <<>> /\ last.readable /\ Len(last.parts) = 1 /\ last.parts[1].text = "plain"
    BY <1>2 DEF UsableHeader
  <2>2. Len(values) \in 1 .. Len(values) /\ values \in [1 .. Len(values) -> HeaderValue]
    BY <2>1, LenProperties, EmptySeq
  <2>3. last \in HeaderValue
    BY <2>2
  <2> HIDE DEF last
  <2>4. last \in [readable : {TRUE}, parts : Seq(Part)]
    BY <2>1, <2>3 DEF HeaderValue
  <2>5. last.parts \in Seq(Part) /\ last = [readable |-> TRUE, parts |-> last.parts]
    BY <2>4
  <2>6. last.parts \in [1 .. 1 -> Part]
    BY <2>1, <2>5, LenProperties
  <2>7. last.parts[1] \in Part
    BY <2>6
  <2>8. last.parts[1] \in [text : {"plain", "ported", "for"}, ip : IpAddr]
    BY <2>1, <2>7 DEF Part
  <2>9. /\ last.parts[1].ip \in IpAddr
        /\ last.parts[1] = [text |-> "plain", ip |-> last.parts[1].ip]
    BY <2>1, <2>8
  <2>10. last.parts = <<last.parts[1]>>
    BY <2>1, <2>5, <2>6
  <2>11. last = PlainValue(last.parts[1].ip)
    BY <2>5, <2>9, <2>10
  <2> QED
    BY <1>1, <2>1, <2>9, <2>11
<1>3. ASSUME Contract!LastPlain(values) # {} PROVE UsableHeader(values)
  <2>1. PICK ip \in IpAddr : values # <<>> /\ last = PlainValue(ip)
    BY <1>1, <1>3
  <2>2. /\ last.readable /\ last.parts = <<[text |-> "plain", ip |-> ip]>>
    BY <2>1
  <2>3. Len(last.parts) = 1 /\ last.parts[1].text = "plain"
    BY <2>2
  <2> QED
    BY <2>1, <2>2, <2>3 DEF UsableHeader
<1> QED
  BY <1>2, <1>3

-----------------------------------------------------------------------------
(* The inductive invariant.                                                 *)

\* The header that may be read is the one of the config.
HeaderState ==
  /\ MayRead /\ config.trust = "TrustAllProxies" => header = config.client_ip_header
  /\ pc \in {"chain", "read", "scan", "pick"} => Contract!HeaderAnswers = {}

ReadState ==
  /\ pc = "read" => ReadSoFar(Order[tried].kind, Values, unread, hops)
  /\ pc \in {"scan", "pick"} =>
       AllReadable(Values) /\ hops = Contract!HopsOf(Order[tried].kind, Values)

OrderInvariant == ResolverInvariant /\ HeaderState /\ ReadState

\* Whose headers may be read, the documentation believes as well.
LEMMA ReadersAreBelieved ==
  ASSUME OrderInvariant, MayRead
  PROVE  /\ request.connect_info # NoPeer /\ request.connect_info \in IpAddr
         /\ socket_ip = CanonicalIp(request.connect_info)
         /\ Contract!Believed
         /\ Contract!Permitted = {header} \ {NoHeader}
<1> USE DEF OrderInvariant, ResolverInvariant
<1>1. /\ request.connect_info # NoPeer /\ socket_ip = CanonicalIp(request.connect_info)
      /\ config.trust # "NoProxy"
  BY DEF PeerState, PeerIsKnown
<1>2. request.connect_info \in IpAddr
  BY <1>1 DEF TypeOK, Request
<1>3. config \in ClientIpConfig
  BY ConfigIsBuilt
<1>4. CASE config.trust = "TrustAllProxies"
  <2>1. header = config.client_ip_header
    BY <1>4 DEF HeaderState
  <2> QED
    BY <1>1, <1>2, <1>4, <2>1 DEF Contract!Believed, Contract!Permitted
<1>5. CASE config.trust = "TrustedProxies"
  <2> DEFINE found == RuleFor(config.rules, socket_ip)
  <2>1. found # 0 /\ header = config.rules[found].metadata
    BY <1>5 DEF PeerState
  <2>2. Contract!RulesOver(request.connect_info) = {config.rules[i] : i \in {found} \ {0}}
    BY <1>1, <1>2, <1>3, <1>5, RulesOverAreFound
  <2> HIDE DEF found
  <2>3. Contract!RulesOver(request.connect_info) = {config.rules[found]}
    BY <2>1, <2>2
  <2> QED
    BY <1>1, <1>2, <1>5, <2>1, <2>3 DEF Contract!Believed, Contract!Permitted
<1> QED
  BY <1>1, <1>3, <1>4, <1>5, ConfigParts

\* What the client IP header says is the answer, if it says anything.
LEMMA HeaderAnswersAreUsable ==
  ASSUME OrderInvariant, MayRead
  PROVE  /\ Usable => ConfiguredHeader(HeaderIp(request.headers[header]), header)
                         \in Contract!HeaderAnswers
         /\ ~Usable => Contract!HeaderAnswers = {}
<1>1. Contract!Permitted = {header} \ {NoHeader}
  BY ReadersAreBelieved
<1>2. header # NoHeader => header \in HeaderName /\ request.headers[header] \in Seq(HeaderValue)
  BY ValuesOfRequest DEF OrderInvariant, ResolverInvariant, TypeOK, Metadata
<1>3. ASSUME Usable
      PROVE  ConfiguredHeader(HeaderIp(request.headers[header]), header) \in Contract!HeaderAnswers
  <2> DEFINE values == request.headers[header]
             ip     == values[Len(values)].parts[1].ip
  <2>1. header \in Contract!Permitted
    BY <1>1, <1>3 DEF Usable
  <2>2. ip \in Contract!LastPlain(values)
    BY <1>2, <1>3, UsableIsPlain DEF Usable
  <2>3. HeaderIp(values) = CanonicalIp(ip)
    BY DEF HeaderIp
  <2> QED
    BY <2>1, <2>2, <2>3, SameEntries, SameAnswers DEF Contract!HeaderAnswers
<1>4. ASSUME ~Usable PROVE Contract!HeaderAnswers = {}
  <2>1. ASSUME NEW h \in Contract!Permitted PROVE Contract!LastPlain(request.headers[h]) = {}
    <3>1. h = header /\ header # NoHeader
      BY <1>1, <2>1
    <3> QED
      BY <1>2, <1>4, <3>1, UsableIsPlain DEF Usable
  <2> QED
    BY <2>1 DEF Contract!HeaderAnswers
<1> QED
  BY <1>3, <1>4

-----------------------------------------------------------------------------
(* What a chain is promised to lead to.                                     *)

LEMMA ChainIsPromised ==
  ASSUME OrderInvariant, MayRead, Contract!HeaderAnswers = {}
  PROVE  Contract!Promised = {Contract!ChainAnswer}
<1>1. request.connect_info # NoPeer /\ Contract!Believed
  BY ReadersAreBelieved
<1> QED
  BY <1>1 DEF Contract!Promised

LEMMA NoChainNoAnswer ==
  ASSUME OrderInvariant, pc = "chain", tried > Len(Order)
  PROVE  Contract!ChainAnswer = Socket(socket_ip)
<1> USE DEF OrderInvariant, ResolverInvariant
<1>1. socket_ip = CanonicalIp(request.connect_info)
  BY ReadersAreBelieved DEF MayRead
<1>2. Order \in Seq(ChainHeader)
  BY ConfigIsBuilt, ConfigParts DEF Order, PeerState, MayRead
<1>3. Len(Order) \in Nat /\ DOMAIN Order = 1 .. Len(Order) /\ tried \in Nat
  BY <1>2, LenProperties DEF TypeOK
<1>4. \A n \in DOMAIN Order : request.headers[Order[n].name] = <<>>
  BY <1>3 DEF ChainState
<1>5. {n \in DOMAIN Order : request.headers[Order[n].name] # <<>>} = {}
  BY <1>4
<1> QED
  BY <1>1, <1>5, SameEntries, SameAnswers DEF Contract!ChainAnswer, Order

\* The chain header being tried is the first one that the request carries.
FirstCarried ==
  LET carried == {n \in DOMAIN Order : request.headers[Order[n].name] # <<>>}
  IN  carried # {} /\ Contract!SequenceOps!Min(carried) = tried

LEMMA TriedIsFirstCarried ==
  ASSUME OrderInvariant, MayRead, tried <= Len(Order), Values # <<>>
  PROVE  FirstCarried
<1> USE DEF OrderInvariant, ResolverInvariant
<1> DEFINE carried == {n \in DOMAIN Order : request.headers[Order[n].name] # <<>>}
<1>1. Order \in Seq(ChainHeader)
  BY ConfigIsBuilt, ConfigParts DEF Order, PeerState
<1>2. Len(Order) \in Nat /\ DOMAIN Order = 1 .. Len(Order) /\ tried \in Nat /\ tried # 0
  BY <1>1, LenProperties DEF TypeOK, ChainState
<1>3. tried \in carried
  BY <1>2 DEF Values
<1>4. ASSUME NEW n \in carried PROVE n \in Nat /\ tried <= n
  <2>1. n \in 1 .. Len(Order)
    BY <1>2
  <2>2. n \notin 1 .. tried - 1
    BY DEF ChainState
  <2> QED
    BY <1>2, <2>1, <2>2
<1> HIDE DEF carried
<1>5. \A n \in carried : (\A m \in carried : n <= m) => n = tried
  BY <1>2, <1>3, <1>4
<1>6. (CHOOSE n \in carried : \A m \in carried : n <= m) = tried
  BY <1>3, <1>4, <1>5, Zenon
<1>7. Contract!SequenceOps!Min(carried) = tried
  BY <1>6, SameOperators
<1> QED
  BY <1>3, <1>7 DEF FirstCarried, carried

LEMMA TriedInOrder == ResolverInvariant /\ InChain => Values # <<>> /\ tried <= Len(Order)
<1> SUFFICES ASSUME ResolverInvariant, InChain PROVE Values # <<>> /\ tried <= Len(Order)
  OBVIOUS
<1> USE DEF ResolverInvariant
<1>1. Order \in Seq(ChainHeader)
  BY ConfigIsBuilt, ConfigParts DEF Order, PeerState, MayRead
<1>2. tried \in DOMAIN Order /\ Values # <<>>
  BY DEF ChainState
<1> QED
  BY <1>1, <1>2, LenProperties

\* The whole chain is judged, or none of it.
Judged(chain) ==
  IF Contract!Chosen(chain) = 0 \/ chain[Contract!Chosen(chain)] = Opaque
    THEN Socket(socket_ip)
    ELSE FromChain(chain[Contract!Chosen(chain)].ip, Order[tried].name)

LEMMA ChainIsJudged ==
  ASSUME OrderInvariant, MayRead, tried <= Len(Order), Values # <<>>
  PROVE  /\ ~AllReadable(Values) => Contract!ChainAnswer = Socket(socket_ip)
         /\ AllReadable(Values) =>
              Contract!ChainAnswer = Judged(Contract!HopsOf(Order[tried].kind, Values))
<1>1. socket_ip = CanonicalIp(request.connect_info)
  BY ReadersAreBelieved
<1>2. FirstCarried
  BY TriedIsFirstCarried
<1> DEFINE carried == {n \in DOMAIN Order : request.headers[Order[n].name] # <<>>}
<1>3. carried # {} /\ Contract!SequenceOps!Min(carried) = tried
  BY <1>2 DEF FirstCarried
<1> HIDE DEF carried
<1>4. ASSUME ~AllReadable(Values) PROVE Contract!ChainAnswer = Socket(socket_ip)
  <2>1. \E i \in DOMAIN Values : ~Values[i].readable
    BY <1>4 DEF AllReadable
  <2> QED
    BY <1>1, <1>3, <2>1, SameEntries, SameAnswers DEF Contract!ChainAnswer, Values, Order, carried
<1>5. ASSUME AllReadable(Values)
      PROVE  Contract!ChainAnswer = Judged(Contract!HopsOf(Order[tried].kind, Values))
  <2>1. ~(\E i \in DOMAIN Values : ~Values[i].readable)
    BY <1>5 DEF AllReadable
  <2> QED
    BY <1>1, <1>3, <2>1, SameEntries, SameAnswers
    DEF Contract!ChainAnswer, Judged, Values, Order, carried
<1> QED
  BY <1>4, <1>5

\* The scan from the right stops at the last hop that is no known proxy.
LEMMA ScanChoosesLast ==
  ASSUME OrderInvariant, pc = "scan"
  PROVE  /\ left = 0 => Contract!Chosen(hops) = 0
         /\ left # 0 /\ (Last = Opaque \/ ~IsTrustedProxy(Last.ip)) => Contract!Chosen(hops) = left
<1> USE DEF OrderInvariant, ResolverInvariant
<1>1. /\ config.trust = "TrustedProxies" /\ config \in ClientIpConfig
      /\ \A i \in left + 1 .. Len(hops) : hops[i] # Opaque /\ Covers(hops[i].ip) # {}
  BY ConfigIsBuilt DEF ScanState
<1>2. /\ DOMAIN hops = 1 .. Len(hops) /\ Len(hops) \in Nat /\ left \in 0 .. Len(hops)
      /\ hops \in [1 .. Len(hops) -> ChainEntry]
  BY LenProperties DEF TypeOK
<1>3. ASSUME NEW i \in DOMAIN hops, hops[i] # Opaque
      PROVE  Contract!RulesOver(hops[i].ip) = {} <=> ~IsTrustedProxy(hops[i].ip)
  <2>1. hops[i].ip \in IpAddr /\ ~IsMapped(hops[i].ip)
    BY <1>2, <1>3, HopParts DEF ChainState
  <2>2. CanonicalIp(hops[i].ip) = hops[i].ip
    BY <2>1 DEF CanonicalIp
  <2>3. Contract!RulesOver(hops[i].ip) =
          {config.rules[k] : k \in {RuleFor(config.rules, hops[i].ip)} \ {0}}
    BY <1>1, <2>1, <2>2, RulesOverAreFound
  <2> QED
    BY <1>1, <2>3 DEF IsTrustedProxy
<1>4. ASSUME NEW i \in DOMAIN hops, i \notin 1 .. left PROVE i \notin Contract!Unknown(hops)
  <2>1. i \in left + 1 .. Len(hops)
    BY <1>2, <1>4
  <2>2. hops[i] # Opaque /\ Covers(hops[i].ip) # {}
    BY <1>1, <2>1
  <2>3. hops[i].ip \in IpAddr /\ ~IsMapped(hops[i].ip)
    BY <1>2, <2>2, HopParts DEF ChainState
  <2>4. IsTrustedProxy(hops[i].ip)
    BY <1>1, <2>2, <2>3, TrustedMeansCovered DEF IsTrustedProxy
  <2> QED
    BY <1>3, <2>2, <2>4, SameEntries DEF Contract!Unknown
<1>5. Contract!Unknown(hops) \in SUBSET (1 .. left)
  BY <1>4 DEF Contract!Unknown
<1>6. ASSUME left = 0 PROVE Contract!Chosen(hops) = 0
  <2>1. Contract!Unknown(hops) = {}
    BY <1>5, <1>6
  <2> QED
    BY <1>1, <2>1 DEF Contract!Chosen
<1>7. ASSUME left # 0, Last = Opaque \/ ~IsTrustedProxy(Last.ip) PROVE Contract!Chosen(hops) = left
  <2>1. left \in Contract!Unknown(hops)
    <3>1. left \in DOMAIN hops
      BY <1>2, <1>7
    <3> QED
      BY <1>3, <1>7, <3>1, SameEntries DEF Contract!Unknown, Last
  <2> DEFINE S == Contract!Unknown(hops)
  <2>2. left \in Nat /\ S \in SUBSET (1 .. left) /\ S # {}
    BY <1>2, <1>5, <2>1
  <2> HIDE DEF S
  <2> DEFINE c == CHOOSE i \in S : \A j \in S : i >= j
  <2>3. c \in S /\ \A j \in S : c >= j
    BY <2>2, LargestIsChosen
  <2> HIDE DEF c
  <2>4. c = left
    BY <2>1, <2>2, <2>3 DEF S
  <2>5. Contract!SequenceOps!Max(S) = left
    BY <2>4, SameOperators DEF c
  <2> QED
    BY <1>1, <2>2, <2>5 DEF Contract!Chosen, S
<1> QED
  BY <1>6, <1>7

\* Trusting everyone, the position is counted as the selection says.
LEMMA PickChoosesPosition ==
  ASSUME OrderInvariant, pc = "pick",
         NEW position, position = Position(config.chain_ip_selection)
  PROVE  /\ Picked(position) => position # 0 /\ Contract!Chosen(hops) = position
         /\ ~Picked(position) => \/ Contract!Chosen(hops) = 0
                                \/ hops[Contract!Chosen(hops)] = Opaque
<1> USE DEF OrderInvariant, ResolverInvariant
<1> DEFINE selection == config.chain_ip_selection
<1>1. config.trust = "TrustAllProxies" /\ selection \in Selection
  BY ConfigIsBuilt, ConfigParts DEF ScanState
<1>2. DOMAIN hops = 1 .. Len(hops) /\ Len(hops) \in Nat /\ (hops = <<>> <=> Len(hops) = 0)
  BY LenProperties, EmptySeq DEF TypeOK
<1>3. /\ selection.pick \in {"Leftmost", "Rightmost", "SkipRightmostHops"}
      /\ selection.pick = "SkipRightmostHops" => selection.hops \in Nat
  BY <1>1 DEF Selection
<1>4. Contract!Chosen(hops) =
        IF hops = <<>> THEN 0
        ELSE IF selection.pick = "Leftmost" THEN 1
        ELSE IF selection.pick = "Rightmost" THEN Len(hops)
        ELSE IF selection.hops >= Len(hops) THEN 0 ELSE Len(hops) - selection.hops
  BY <1>1, <1>2, <1>3 DEF Contract!Chosen
<1>5. position = IF selection.pick = "Leftmost" THEN 1
                 ELSE IF selection.pick = "Rightmost" THEN Len(hops)
                 ELSE Len(hops) - selection.hops
  BY <1>3 DEF Position
<1> HIDE DEF selection
<1>6. position \in DOMAIN hops => position # 0 /\ Contract!Chosen(hops) = position
  BY <1>2, <1>3, <1>4, <1>5
<1>7. ASSUME position \notin DOMAIN hops PROVE Contract!Chosen(hops) = 0
  <2>1. CASE hops = <<>>
    BY <1>4, <2>1
  <2>2. CASE hops # <<>>
    <3>1. 1 \in DOMAIN hops /\ Len(hops) \in DOMAIN hops
      BY <1>2, <2>2
    <3>2. selection.pick = "SkipRightmostHops" /\ position = Len(hops) - selection.hops
      BY <1>3, <1>5, <1>7, <3>1
    <3>3. selection.hops \in Nat /\ Len(hops) - selection.hops \notin 1 .. Len(hops)
      BY <1>2, <1>3, <1>7, <3>2
    <3>4. selection.hops >= Len(hops)
      BY <1>2, <3>3
    <3> QED
      BY <1>4, <2>2, <3>2, <3>4
  <2> QED
    BY <2>1, <2>2
<1> QED
  BY <1>6, <1>7 DEF Picked

-----------------------------------------------------------------------------
(* Every answer is promised.                                                *)

LEMMA PeerAnswersArePromised ==
  ASSUME OrderInvariant, MissingConnectInfo \/ TrustNoProxy \/ Stranger
  PROVE  answer' \in Contract!Promised
<1> USE DEF OrderInvariant, ResolverInvariant
<1>1. CASE MissingConnectInfo
  BY <1>1, SameAnswers DEF MissingConnectInfo, Answer, Contract!Promised
<1>2. CASE TrustNoProxy \/ Stranger
  <2>1. /\ request.connect_info # NoPeer /\ socket_ip = CanonicalIp(request.connect_info)
        /\ answer' = Socket(socket_ip)
    BY <1>2 DEF TrustNoProxy, Stranger, Answer, PeerState, PeerIsKnown
  <2>2. request.connect_info \in IpAddr
    BY <2>1 DEF TypeOK, Request
  <2>3. ~Contract!Believed
    <3>1. CASE TrustNoProxy
      BY <3>1 DEF TrustNoProxy, Contract!Believed
    <3>2. CASE Stranger
      <4>1. config.trust = "TrustedProxies" /\ RuleFor(config.rules, socket_ip) = 0
        BY <3>2 DEF Stranger
      <4>2. Contract!RulesOver(request.connect_info) =
              {config.rules[i] : i \in {RuleFor(config.rules, socket_ip)} \ {0}}
        BY <2>1, <2>2, <4>1, ConfigIsBuilt, RulesOverAreFound
      <4>3. Contract!RulesOver(request.connect_info) = {}
        BY <4>1, <4>2
      <4> QED
        BY <4>1, <4>3 DEF Contract!Believed
    <3> QED
      BY <1>2, <3>1, <3>2
  <2>4. Contract!Promised = {Socket(CanonicalIp(request.connect_info))}
    BY <2>1, <2>3, SameEntries, SameAnswers DEF Contract!Promised
  <2> QED
    BY <2>1, <2>4
<1> QED
  BY <1>1, <1>2

LEMMA HeaderAnswerIsPromised ==
  ASSUME OrderInvariant, UseClientIpHeader
  PROVE  answer' \in Contract!Promised
<1>1. MayRead /\ Usable /\ answer' = ConfiguredHeader(HeaderIp(request.headers[header]), header)
  BY DEF UseClientIpHeader, MayRead, Answer
<1>2. answer' \in Contract!HeaderAnswers
  BY <1>1, HeaderAnswersAreUsable
<1>3. request.connect_info # NoPeer /\ Contract!Believed
  BY <1>1, ReadersAreBelieved
<1> QED
  BY <1>2, <1>3 DEF Contract!Promised

\* A chain that cannot be read, or that is not there, leads to the peer.
LEMMA ReadingAnswersArePromised ==
  ASSUME OrderInvariant, NoChainHeaderLeft \/ UnreadableList \/ UnreadableForwarded
  PROVE  answer' \in Contract!Promised
<1>1. MayRead /\ answer' = Socket(socket_ip) /\ Contract!HeaderAnswers = {}
  BY DEF NoChainHeaderLeft, UnreadableList, UnreadableForwarded, MayRead, InChain, Answer,
         OrderInvariant, HeaderState
<1>2. Contract!Promised = {Contract!ChainAnswer}
  BY <1>1, ChainIsPromised
<1>3. CASE NoChainHeaderLeft
  <2>1. Contract!ChainAnswer = Socket(socket_ip)
    BY <1>3, NoChainNoAnswer DEF NoChainHeaderLeft
  <2> QED
    BY <1>1, <1>2, <2>1
<1>4. CASE UnreadableList
  <2>1. ~AllReadable(Values) /\ tried <= Len(Order)
    BY <1>4 DEF UnreadableList, AllReadable
  <2>2. Values # <<>>
    BY <2>1 DEF AllReadable
  <2> QED
    BY <1>1, <1>2, <2>1, <2>2, ChainIsJudged
<1>5. CASE UnreadableForwarded
  <2>1. unread # <<>> /\ unread \in Seq(HeaderValue) /\ ~Head(unread).readable /\ pc = "read"
    BY <1>5 DEF UnreadableForwarded, OrderInvariant, ResolverInvariant, TypeOK
  <2>2. 1 \in DOMAIN unread /\ Head(unread) = unread[1]
    BY <2>1, LenProperties, EmptySeq
  <2>3. ~AllReadable(unread)
    BY <2>1, <2>2 DEF AllReadable
  <2>4. ~AllReadable(Values)
    BY <2>1, <2>3 DEF OrderInvariant, ReadState, ReadSoFar
  <2>5. Values # <<>> /\ tried <= Len(Order)
    BY <2>1, TriedInOrder DEF OrderInvariant, InChain
  <2> QED
    BY <1>1, <1>2, <2>4, <2>5, ChainIsJudged
<1> QED
  BY <1>3, <1>4, <1>5

\* The hop that ends the scan, or that is picked, is the one that is chosen.
LEMMA HopAnswersArePromised ==
  ASSUME OrderInvariant, StopAtStranger \/ StopAtOpaque \/ RunOut \/ PickHop
  PROVE  answer' \in Contract!Promised
<1>1. pc \in {"scan", "pick"} /\ MayRead /\ InChain /\ Contract!HeaderAnswers = {}
  BY DEF StopAtStranger, StopAtOpaque, RunOut, PickHop, MayRead, InChain,
         OrderInvariant, HeaderState
<1>2. Contract!Promised = {Contract!ChainAnswer}
  BY <1>1, ChainIsPromised
<1>3. AllReadable(Values) /\ hops = Contract!HopsOf(Order[tried].kind, Values)
  BY <1>1 DEF OrderInvariant, ReadState
<1>4. Values # <<>> /\ tried <= Len(Order)
  BY <1>1, TriedInOrder DEF OrderInvariant
<1>5. Contract!ChainAnswer = Judged(hops)
  BY <1>1, <1>3, <1>4, ChainIsJudged
<1>6. left \in Nat
  BY LenProperties DEF OrderInvariant, ResolverInvariant, TypeOK
<1>7. CASE StopAtStranger
  <2>1. /\ pc = "scan" /\ left # 0 /\ Last # Opaque /\ ~IsTrustedProxy(Last.ip)
        /\ answer' = FromChain(Last.ip, Order[tried].name)
    BY <1>6, <1>7 DEF StopAtStranger, Answer
  <2>2. Contract!Chosen(hops) = left
    BY <2>1, ScanChoosesLast
  <2> QED
    BY <1>2, <1>5, <2>1, <2>2 DEF Judged, Last
<1>8. CASE StopAtOpaque
  <2>1. pc = "scan" /\ left # 0 /\ Last = Opaque /\ answer' = Socket(socket_ip)
    BY <1>6, <1>8 DEF StopAtOpaque, Answer
  <2>2. Contract!Chosen(hops) = left
    BY <2>1, ScanChoosesLast
  <2> QED
    BY <1>2, <1>5, <2>1, <2>2 DEF Judged, Last
<1>9. CASE RunOut
  <2>1. pc = "scan" /\ left = 0 /\ answer' = Socket(socket_ip)
    BY <1>9 DEF RunOut, Answer
  <2>2. Contract!Chosen(hops) = 0
    BY <2>1, ScanChoosesLast
  <2> QED
    BY <1>2, <1>5, <2>1, <2>2 DEF Judged
<1>10. CASE PickHop
  <2> DEFINE position == Position(config.chain_ip_selection)
  <2>1. /\ pc = "pick"
        /\ answer' = IF Picked(position) THEN FromChain(hops[position].ip, Order[tried].name)
                     ELSE Socket(socket_ip)
    BY <1>10 DEF PickHop, Answer
  <2>2. /\ Picked(position) => position # 0 /\ Contract!Chosen(hops) = position
        /\ ~Picked(position) => \/ Contract!Chosen(hops) = 0
                               \/ hops[Contract!Chosen(hops)] = Opaque
    BY <2>1, PickChoosesPosition
  <2> HIDE DEF position
  <2>3. answer' = Judged(hops)
    <3>1. CASE Picked(position)
      <4>1. hops[position] # Opaque
        BY <3>1 DEF Picked
      <4> QED
        BY <2>1, <2>2, <3>1, <4>1 DEF Judged
    <3>2. CASE ~Picked(position)
      BY <2>1, <2>2, <3>2 DEF Judged
    <3> QED
      BY <3>1, <3>2
  <2> QED
    BY <1>2, <1>5, <2>3
<1> QED
  BY <1>7, <1>8, <1>9, <1>10

-----------------------------------------------------------------------------
(* The invariant is inductive.                                              *)

LEMMA InitOrderInvariant == Init => OrderInvariant
<1> SUFFICES ASSUME Init PROVE OrderInvariant
  OBVIOUS
<1>1. ResolverInvariant
  BY InitInvariant
<1>2. HeaderState /\ ReadState
  BY DEF Init, HeaderState, ReadState, MayRead, InChain
<1> QED
  BY <1>1, <1>2 DEF OrderInvariant

\* What the client IP header says depends on the config and the request.
LEMMA HeaderAnswersStay ==
  ASSUME UNCHANGED <<config, request>>
  PROVE  Contract!HeaderAnswers' = Contract!HeaderAnswers
<1>1. Contract!Permitted' = Contract!Permitted
  BY DEF Contract!Permitted, Contract!RulesOver
<1> QED
  BY <1>1 DEF Contract!HeaderAnswers

LEMMA HeaderStateHolds ==
  ASSUME OrderInvariant, Resolve
  PROVE  HeaderState'
<1> USE DEF OrderInvariant, HeaderState
<1>1. CASE pc' \in {"done", "trust"}
  BY <1>1 DEF MayRead, InChain
<1>2. CASE TrustedPeer \/ TrustAnyPeer
  BY <1>2 DEF TrustedPeer, TrustAnyPeer, ReadHeaders, MayRead, InChain
<1>3. ASSUME UNCHANGED <<config, request, header>>, MayRead,
             pc \in {"chain", "read", "scan", "pick"} \/ ~Usable
      PROVE  HeaderState'
  <2>1. Contract!HeaderAnswers = {}
    BY <1>3, HeaderAnswersAreUsable
  <2>2. Contract!HeaderAnswers' = {}
    BY <1>3, <2>1, HeaderAnswersStay
  <2> QED
    BY <1>3, <2>2
<1>4. CASE TurnToChainHeaders
  BY <1>3, <1>4 DEF TurnToChainHeaders, MayRead, call
<1>5. CASE SkipAbsentHeader \/ OpenHeader \/ ReadPart \/ NextValue \/ HopsRead \/ WalkPastProxy
  BY <1>3, <1>5 DEF SkipAbsentHeader, OpenHeader, ReadPart, NextValue, HopsRead, WalkPastProxy,
                    MayRead, InChain, call
<1>6. CASE MissingConnectInfo \/ ExtractPeer \/ TrustNoProxy \/ Stranger \/ UseClientIpHeader
             \/ NoChainHeaderLeft \/ UnreadableList \/ UnreadableForwarded
             \/ StopAtStranger \/ StopAtOpaque \/ RunOut \/ PickHop
  BY <1>1, <1>6 DEF MissingConnectInfo, ExtractPeer, ResolveClientIp, TrustNoProxy, Stranger, UseClientIpHeader,
                    NoChainHeaderLeft, UnreadableList, UnreadableForwarded, StopAtStranger,
                    StopAtOpaque, RunOut, PickHop, Answer
<1> QED
  BY <1>2, <1>4, <1>5, <1>6 DEF Resolve

LEMMA ReadStateHolds ==
  ASSUME OrderInvariant, Resolve
  PROVE  ReadState'
<1> USE DEF OrderInvariant, ResolverInvariant, ReadState
<1> DEFINE kind == Order[tried].kind
<1>1. CASE pc' \notin {"read", "scan", "pick"}
  BY <1>1
<1>2. CASE OpenHeader
  <2>1. hops = <<>> /\ Values # <<>> /\ tried <= Len(Order) /\ config.trust # "NoProxy"
    BY <1>2 DEF OpenHeader, ChainState, PeerState, MayRead
  <2>2. Values \in Seq(HeaderValue)
    BY <2>1, TriedHeader DEF ChainState
  <2>3. ReadSoFar(kind, Values, Values, <<>>)
    BY <2>1, <2>2, ReadingStarts
  <2> QED
    BY <1>2, <2>1, <2>3 DEF OpenHeader, Order, Values
<1>3. ASSUME pc = "read"
      PROVE  /\ Values \in Seq(HeaderValue) /\ Values # <<>> /\ unread \in Seq(HeaderValue)
             /\ ReadSoFar(kind, Values, unread, hops)
  <2>1. Values # <<>> /\ tried <= Len(Order) /\ tried # 0 /\ config.trust # "NoProxy"
    BY <1>3, TriedInOrder DEF InChain, ChainState, PeerState, MayRead
  <2> QED
    BY <1>3, <2>1, TriedHeader DEF TypeOK
<1>4. CASE ReadPart
  <2>1. /\ unread # <<>> /\ Head(unread).readable /\ Head(unread).parts # <<>>
        /\ unread' = [unread EXCEPT ![1].parts = Tail(@)]
        /\ hops' = Longer(kind, hops, Head(Head(unread).parts))
        /\ pc = "read" /\ pc' = "read" /\ UNCHANGED <<config, request, tried>>
    BY <1>4 DEF ReadPart, Longer
  <2>2. ReadSoFar(kind, Values, unread', Longer(kind, hops, Head(Head(unread).parts)))
    BY <1>3, <2>1, ReadingAPart
  <2> QED
    BY <2>1, <2>2 DEF Order, Values
<1>5. CASE NextValue
  <2>1. /\ unread # <<>> /\ Head(unread).readable /\ Head(unread).parts = <<>>
        /\ unread' = Tail(unread) /\ pc = "read" /\ pc' = "read"
        /\ UNCHANGED <<config, request, tried, hops>>
    BY <1>5 DEF NextValue
  <2>2. ReadSoFar(kind, Values, Tail(unread), hops)
    BY <1>3, <2>1, ReadingALine
  <2> QED
    BY <2>1, <2>2 DEF Order, Values
<1>6. CASE HopsRead
  <2>1. unread = <<>> /\ pc = "read" /\ pc' \in {"scan", "pick"} /\ UNCHANGED <<config, call>>
    BY <1>6 DEF HopsRead
  <2>2. AllReadable(Values) /\ hops = Contract!HopsOf(kind, Values)
    BY <1>3, <2>1, ReadingIsOver
  <2> QED
    BY <2>1, <2>2 DEF Order, Values, call
<1>7. CASE WalkPastProxy
  BY <1>7 DEF WalkPastProxy, Order, Values
<1>8. CASE MissingConnectInfo \/ ExtractPeer \/ TrustNoProxy \/ Stranger \/ TrustedPeer \/ TrustAnyPeer
             \/ UseClientIpHeader \/ TurnToChainHeaders \/ NoChainHeaderLeft \/ SkipAbsentHeader
             \/ UnreadableList \/ UnreadableForwarded
             \/ StopAtStranger \/ StopAtOpaque \/ RunOut \/ PickHop
  BY <1>1, <1>8 DEF MissingConnectInfo, ExtractPeer, ResolveClientIp, TrustNoProxy, Stranger, TrustedPeer, TrustAnyPeer,
                    ReadHeaders, UseClientIpHeader, TurnToChainHeaders, NoChainHeaderLeft,
                    SkipAbsentHeader, UnreadableList, UnreadableForwarded, StopAtStranger,
                    StopAtOpaque, RunOut, PickHop, Answer
<1> QED
  BY <1>2, <1>4, <1>5, <1>6, <1>7, <1>8 DEF Resolve

LEMMA NextOrderInvariant == OrderInvariant /\ [Next]_vars => OrderInvariant'
<1> SUFFICES ASSUME OrderInvariant, [Next]_vars PROVE OrderInvariant'
  OBVIOUS
<1>1. ResolverInvariant'
  BY NextInvariant DEF OrderInvariant
<1>2. CASE Resolve
  BY <1>1, <1>2, HeaderStateHolds, ReadStateHolds DEF OrderInvariant
<1>3. CASE Return \/ \E r \in Requests : Receive(r)
  BY <1>1, <1>3 DEF Return, Receive, OrderInvariant, HeaderState, ReadState, MayRead, InChain
<1>4. CASE UNCHANGED vars
  <2>1. Contract!HeaderAnswers' = Contract!HeaderAnswers
    BY <1>4, HeaderAnswersStay DEF vars, call
  <2> QED
    BY <1>1, <1>4, <2>1 DEF vars, call, OrderInvariant, HeaderState, ReadState, MayRead, InChain,
                            Order, Values
<1> QED
  BY <1>2, <1>3, <1>4 DEF Next

-----------------------------------------------------------------------------
(* Every step of the resolver is one of the contract, or none.              *)

LEMMA AnswersAreReplies ==
  ASSUME OrderInvariant, Resolve
  PROVE  \/ Contract!Reply
         \/ UNCHANGED Contract!exchange
<1> USE DEF Contract!Reply, Contract!exchange
<1>1. ASSUME NEW a, Answer(a), pc \notin {"idle", "done"}, answer' \in Contract!Promised
      PROVE  Contract!Reply
  BY <1>1 DEF Answer
<1>2. CASE MissingConnectInfo \/ TrustNoProxy \/ Stranger
  BY <1>1, <1>2, PeerAnswersArePromised DEF MissingConnectInfo, TrustNoProxy, Stranger
<1>3. CASE UseClientIpHeader
  BY <1>1, <1>3, HeaderAnswerIsPromised DEF UseClientIpHeader
<1>4. CASE NoChainHeaderLeft \/ UnreadableList \/ UnreadableForwarded
  BY <1>1, <1>4, ReadingAnswersArePromised DEF NoChainHeaderLeft, UnreadableList, UnreadableForwarded
<1>5. CASE StopAtStranger \/ StopAtOpaque \/ RunOut \/ PickHop
  BY <1>1, <1>5, HopAnswersArePromised DEF StopAtStranger, StopAtOpaque, RunOut, PickHop
<1>6. CASE ExtractPeer \/ TrustedPeer \/ TrustAnyPeer \/ TurnToChainHeaders \/ SkipAbsentHeader
             \/ OpenHeader \/ ReadPart \/ NextValue \/ HopsRead \/ WalkPastProxy
  BY <1>6 DEF ExtractPeer, ResolveClientIp, TrustedPeer, TrustAnyPeer, ReadHeaders, TurnToChainHeaders,
              SkipAbsentHeader, OpenHeader, ReadPart, NextValue, HopsRead, WalkPastProxy, call
<1> QED
  BY <1>2, <1>3, <1>4, <1>5, <1>6 DEF Resolve

LEMMA StepsAreContracted ==
  OrderInvariant /\ [Next]_vars => [Contract!Next]_(Contract!exchange)
<1> SUFFICES ASSUME OrderInvariant, [Next]_vars PROVE Contract!Next \/ UNCHANGED Contract!exchange
  OBVIOUS
<1>1. CASE Resolve
  BY <1>1, AnswersAreReplies DEF Contract!Next
<1>2. CASE \E r \in Requests : Receive(r)
  BY <1>2 DEF Receive, Contract!Next, Contract!Ask
<1>3. CASE Return
  BY <1>3, SameAnswers DEF Return, Contract!Next, Contract!Forget
<1>4. CASE UNCHANGED vars
  BY <1>4 DEF vars, call, Contract!exchange
<1> QED
  BY <1>1, <1>2, <1>3, <1>4 DEF Next

(***************************************************************************)
(* The resolver implements the documented order of resolution: for every   *)
(* config that can be built and every request, the walk over rules,        *)
(* headers, lines, parts and hops ends in the answer the documentation     *)
(* gives at once, and the next request finds nothing of it.                *)
(***************************************************************************)
THEOREM ResolutionFollowsTheOrder == Spec => ImplementsResolutionOrder
<1>1. Init => Contract!Init
  BY SameAnswers DEF Init, Contract!Init
<1>2. Spec => []OrderInvariant
  BY InitOrderInvariant, NextOrderInvariant, PTL DEF Spec
<1> QED
  BY <1>1, <1>2, StepsAreContracted, PTL DEF Spec, ImplementsResolutionOrder, Contract!Spec

=============================================================================
