------------------------- MODULE TrustedProxyRules -------------------------
(***************************************************************************)
(* Trusted proxy rules, what merging does to a set of them                 *)
(* (src/cidr_merge.rs), and the binary search that finds the rule of an    *)
(* address (ClientIpConfig::rule_for in src/config.rs).                    *)
(***************************************************************************)
EXTENDS IpSpace, Sequences, FiniteSets

CONSTANTS
  HeaderName,  \* names of HTTP headers
  NoHeader     \* client_ip_header is None

ASSUME HeaderAssumption == NoHeader \notin HeaderName

\* The metadata of a rule is the client IP header its proxies may set.
Metadata == HeaderName \cup {NoHeader}

TrustedProxyRule == [cidr : IpCidr, metadata : Metadata]

RuleSet(rules) == {rules[i] : i \in DOMAIN rules}

\* Two rules that cover a common address but name different headers.
Conflict(r, s) == r.metadata # s.metadata /\ Overlap(r.cidr, s.cidr)

-----------------------------------------------------------------------------

(***************************************************************************)
(* merge_cidrs: the shortest list of networks that covers the same         *)
(* addresses is made of the largest networks that fit into what is         *)
(* covered.  The address families never merge, for no network spans both.  *)
(***************************************************************************)
Covered(cidrs) == UNION {c.first .. c.last : c \in cidrs}

\* Faulty: one network that spans all of them.
SpanningCidrs(cidrs) ==
  LET spanning == {c \in IpCidr : Covered(cidrs) \subseteq c.first .. c.last}
  IN  IF cidrs = {} \/ spanning = {} THEN cidrs
      ELSE {CHOOSE c \in spanning : \A d \in spanning : Size(c) <= Size(d)}

MergeCidrs(cidrs) ==
  LET fitting == {c \in IpCidr : c.first .. c.last \subseteq Covered(cidrs)}
  IN  {c \in fitting : \A d \in fitting :
         Contains(d, c.first) /\ Contains(d, c.last) => d = c}

\* merge_rules_by_metadata, before the order of its result is chosen.
MergedRules(rules) ==
  UNION {[cidr : MergeCidrs({r.cidr : r \in {s \in rules : s.metadata = m}}),
          metadata : {m}] : m \in Metadata}

-----------------------------------------------------------------------------

\* Faulty: a rule that starts at the address itself is passed over.
StartingBelow(rules, ip) == {i \in DOMAIN rules : rules[i].cidr.first < ip}

\* Positions of the rules that start at or before an address.
StartingUpTo(rules, ip) == {i \in DOMAIN rules : rules[i].cidr.first <= ip}

\* slice::partition_point, given the positions whose elements pass its test;
\* in a list that is sorted by it they come first.
PartitionPoint(passing) == Cardinality(passing)

(***************************************************************************)
(* rule_for: the index of the rule that covers an address, 0 for None.     *)
(* Only the last rule that starts at or before the address is looked at.   *)
(***************************************************************************)
RuleFor(rules, ip) ==
  LET index == PartitionPoint(StartingUpTo(rules, CanonicalIp(ip)))
  IN  IF index > 0 /\ Contains(rules[index].cidr, CanonicalIp(ip))
        THEN index ELSE 0

-----------------------------------------------------------------------------
(***************************************************************************)
(* What rules mean, said without rewriting any of them: a network covers   *)
(* the canonical forms of its addresses.  An IPv4-mapped address stands    *)
(* for its IPv4 form, except inside a network that is wider than the       *)
(* mapped range and so has no IPv4 form.                                   *)
(***************************************************************************)
WhollyMapped(cidr) == IsMapped(cidr.first) /\ IsMapped(cidr.last)

Addresses(cidr) ==
  {CanonicalIp(ip) : ip \in {a \in IpAddr :
     Contains(cidr, a) /\ (IsMapped(a) => WhollyMapped(cidr))}}

\* In address order and sharing no address.
Apart(rules) ==
  \A i, j \in DOMAIN rules : i < j => rules[i].cidr.last < rules[j].cidr.first

\* The rules of a config are what ClientIpConfigBuilder leaves: canonical,
\* in ascending order, and apart from each other.
BuiltRules ==
  {rules \in Seq(TrustedProxyRule) :
     /\ \A i \in DOMAIN rules : CanonicalCidr(rules[i].cidr) = rules[i].cidr
     /\ Apart(rules)}

GrantsOf(rules) == UNION {Addresses(r.cidr) \X {r.metadata} : r \in rules}

=============================================================================
