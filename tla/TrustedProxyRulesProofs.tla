---------------------- MODULE TrustedProxyRulesProofs ----------------------
(***************************************************************************)
(* Facts about lists of rules: what the binary search of rule_for finds,   *)
(* and that merging leaves no address to two networks.                     *)
(***************************************************************************)
EXTENDS TrustedProxyRules, IpSpaceProofs, FiniteSetTheorems, SequenceTheorems

\* A rule has a network and metadata.
LEMMA RuleParts ==
  ASSUME NEW r \in TrustedProxyRule
  PROVE  r.cidr \in IpCidr /\ r.metadata \in Metadata
BY DEF TrustedProxyRule

\* The elements of a list of rules are rules.
LEMMA RulesOfList ==
  ASSUME NEW list \in Seq(TrustedProxyRule)
  PROVE  /\ Len(list) \in Nat /\ DOMAIN list = 1..Len(list)
         /\ \A i \in DOMAIN list : list[i] \in TrustedProxyRule
                                     /\ list[i].cidr \in IpCidr
                                     /\ list[i].cidr.first \in Int
                                     /\ list[i].cidr.last \in Int
                                     /\ list[i].cidr.first <= list[i].cidr.last
<1>1. Len(list) \in Nat /\ DOMAIN list = 1..Len(list)
  BY LenProperties
<1>2. \A i \in DOMAIN list : list[i] \in TrustedProxyRule
  BY <1>1, ElementOfSeq
<1> QED
  BY <1>1, <1>2, RuleParts, NetworkBounds

-----------------------------------------------------------------------------
(* The lookup.                                                              *)

\* In a list that is apart, the rules up to the one that covers an address
\* are those that start at or before it.
LEMMA PartitionPointOfCovered ==
  ASSUME NEW rules \in Seq(TrustedProxyRule), Apart(rules), NEW ip \in Int,
         NEW i \in DOMAIN rules, Contains(rules[i].cidr, ip)
  PROVE  PartitionPoint(StartingUpTo(rules, ip)) = i
<1>1. {j \in DOMAIN rules : rules[j].cidr.first <= ip} = 1..i
  <2>1. ASSUME NEW j \in 1..i PROVE j \in DOMAIN rules /\ rules[j].cidr.first <= ip
    <3>1. j \in DOMAIN rules
      BY RulesOfList
    <3>2. CASE j = i
      BY <3>1, <3>2 DEF Contains
    <3>3. CASE j < i
      BY <3>1, <3>3, RulesOfList DEF Apart, Contains
    <3> QED
      BY <3>1, <3>2, <3>3, RulesOfList
  <2>2. ASSUME NEW j \in DOMAIN rules, rules[j].cidr.first <= ip PROVE j \in 1..i
    <3>1. ~(i < j)
      BY <2>2, RulesOfList DEF Apart, Contains
    <3> QED
      BY <3>1, RulesOfList
  <2> QED
    BY <2>1, <2>2
<1>2. i \in Nat /\ i >= 1
  BY RulesOfList
<1>3. Cardinality(1..i) = i
  BY <1>2, FS_Interval
<1> QED
  BY <1>1, <1>3 DEF PartitionPoint, StartingUpTo

\* An index that the search returns is one of the list.
LEMMA PartitionPointIsIndex ==
  ASSUME NEW rules \in Seq(TrustedProxyRule), NEW ip \in Int
  PROVE  PartitionPoint(StartingUpTo(rules, ip)) \in 0..Len(rules)
<1> DEFINE S == {i \in DOMAIN rules : rules[i].cidr.first <= ip}
<1>1. IsFiniteSet(DOMAIN rules) /\ Cardinality(DOMAIN rules) = Len(rules)
  <2>1. Len(rules) \in Nat /\ DOMAIN rules = 1..Len(rules)
    BY RulesOfList
  <2>2. Cardinality(1..Len(rules)) = IF 1 > Len(rules) THEN 0 ELSE Len(rules) - 1 + 1
    BY <2>1, FS_Interval
  <2> QED
    BY <2>1, <2>2, FS_Interval
<1>2. Cardinality(S) <= Len(rules)
  BY <1>1, FS_Subset
<1>3. IsFiniteSet(S)
  BY <1>1, FS_Subset
<1>4. Cardinality(S) \in Nat
  BY <1>3, FS_CardinalityType
<1> QED
  BY <1>2, <1>4, RulesOfList DEF PartitionPoint, StartingUpTo

(***************************************************************************)
(* rule_for looks at a single rule, and yet finds what a scan of all rules *)
(* would find, provided that they are in address order and share no        *)
(* address.                                                                *)
(***************************************************************************)
THEOREM LookupFindsTheRule ==
  ASSUME NEW rules \in Seq(TrustedProxyRule), Apart(rules), NEW ip \in IpAddr
  PROVE  {i \in DOMAIN rules : Contains(rules[i].cidr, CanonicalIp(ip))}
           = {RuleFor(rules, ip)} \ {0}
<1> DEFINE canonical == CanonicalIp(ip)
           point == PartitionPoint(StartingUpTo(rules, canonical))
<1>1. canonical \in Int
  BY CountsAreNumbers DEF CanonicalIp, IpAddr
<1>2. ASSUME NEW i \in DOMAIN rules, Contains(rules[i].cidr, canonical)
      PROVE  RuleFor(rules, ip) = i /\ i # 0
  <2>1. point = i
    BY <1>1, <1>2, PartitionPointOfCovered
  <2>2. i > 0
    BY RulesOfList
  <2> QED
    BY <1>2, <2>1, <2>2 DEF RuleFor
<1>3. ASSUME RuleFor(rules, ip) # 0
      PROVE  RuleFor(rules, ip) \in DOMAIN rules
               /\ Contains(rules[RuleFor(rules, ip)].cidr, canonical)
  <2>1. RuleFor(rules, ip) = point /\ point > 0 /\ Contains(rules[point].cidr, canonical)
    BY <1>3 DEF RuleFor
  <2>2. point \in 0..Len(rules)
    BY <1>1, PartitionPointIsIndex
  <2> QED
    BY <2>1, <2>2, RulesOfList
<1> HIDE DEF canonical
<1>4. {i \in DOMAIN rules : Contains(rules[i].cidr, canonical)} = {RuleFor(rules, ip)} \ {0}
  BY <1>2, <1>3
<1> QED
  BY <1>4 DEF canonical

-----------------------------------------------------------------------------
(* Merging.                                                                 *)

\* Of two merged networks none reaches into the other: both are maximal.
LEMMA MergedNetworksAreApart ==
  ASSUME NEW cidrs, NEW c \in MergeCidrs(cidrs), NEW d \in MergeCidrs(cidrs), c # d
  PROVE  ~Overlap(c, d)
<1>1. c \in IpCidr /\ d \in IpCidr
  BY DEF MergeCidrs
<1>2. ~(d.first <= c.first /\ c.last <= d.last)
  <2>1. ASSUME d.first <= c.first, c.last <= d.last PROVE Contains(d, c.first) /\ Contains(d, c.last)
    BY <2>1, <1>1, NetworkBounds DEF Contains
  <2> QED
    BY <2>1 DEF MergeCidrs
<1>3. ~(c.first <= d.first /\ d.last <= c.last)
  <2>1. ASSUME c.first <= d.first, d.last <= c.last PROVE Contains(c, d.first) /\ Contains(c, d.last)
    BY <2>1, <1>1, NetworkBounds DEF Contains
  <2> QED
    BY <2>1 DEF MergeCidrs
<1>4. c.last < d.first \/ d.last < c.first
  BY <1>1, <1>2, <1>3, NestedOrDisjoint
<1> QED
  BY <1>1, <1>4, OverlapOfIntervals, NetworkBounds

\* Merging covers no address that was not covered before.
LEMMA MergedNetworkIsCovered ==
  ASSUME NEW cidrs, NEW c \in MergeCidrs(cidrs), NEW ip \in IpAddr, Contains(c, ip)
  PROVE  \E d \in cidrs : ip \in d.first .. d.last
<1>1. c \in IpCidr /\ c.first .. c.last \subseteq Covered(cidrs)
  BY DEF MergeCidrs
<1>2. ip \in c.first .. c.last
  BY <1>1, NetworkBounds, CountsAreNumbers DEF Contains, IpAddr
<1> QED
  BY <1>1, <1>2 DEF Covered

(***************************************************************************)
(* Why the debug_assert of build() holds: if no two rules disagree on an   *)
(* address, then no two of the merged rules share one.                     *)
(***************************************************************************)
THEOREM MergedRulesAreApart ==
  ASSUME NEW set \in SUBSET TrustedProxyRule,
         \A r, s \in set : ~Conflict(r, s),
         NEW a \in MergedRules(set), NEW b \in MergedRules(set), a # b
  PROVE  ~Overlap(a.cidr, b.cidr)
<1> DEFINE CidrsOf(m) == {r.cidr : r \in {s \in set : s.metadata = m}}
<1>1. PICK m \in Metadata : a \in [cidr : MergeCidrs(CidrsOf(m)), metadata : {m}]
  BY DEF MergedRules
<1>2. PICK n \in Metadata : b \in [cidr : MergeCidrs(CidrsOf(n)), metadata : {n}]
  BY DEF MergedRules
<1>3. a.cidr \in MergeCidrs(CidrsOf(m)) /\ b.cidr \in MergeCidrs(CidrsOf(n))
  BY <1>1, <1>2
<1>4. CASE m = n
  <2>1. a.cidr # b.cidr
    BY <1>1, <1>2, <1>4
  <2> QED
    BY <1>3, <1>4, <2>1, MergedNetworksAreApart
<1>5. CASE m # n
  <2>1. SUFFICES ASSUME NEW ip \in IpAddr, Contains(a.cidr, ip), Contains(b.cidr, ip)
                 PROVE  FALSE
    BY DEF Overlap
  <2>2. \E d \in CidrsOf(m) : ip \in d.first .. d.last
    BY <1>3, <2>1, MergedNetworkIsCovered
  <2>3. \E d \in CidrsOf(n) : ip \in d.first .. d.last
    BY <1>3, <2>1, MergedNetworkIsCovered
  <2>4. PICK r \in set : r.metadata = m /\ ip \in r.cidr.first .. r.cidr.last
    BY <2>2
  <2>5. PICK s \in set : s.metadata = n /\ ip \in s.cidr.first .. s.cidr.last
    BY <2>3
  <2>6. Contains(r.cidr, ip) /\ Contains(s.cidr, ip)
    BY <2>4, <2>5 DEF Contains
  <2> QED
    BY <1>5, <2>4, <2>5, <2>6 DEF Conflict, Overlap
<1> QED
  BY <1>4, <1>5

(***************************************************************************)
(* Merging canonical networks makes no network that has an IPv4 form.      *)
(* Such a network would lie in the mapped range, what it covers is covered *)
(* by a canonical network, and a canonical network there is wider still.   *)
(***************************************************************************)
THEOREM MergedNetworkIsCanonical ==
  ASSUME NEW cidrs \in SUBSET IpCidr, \A d \in cidrs : CanonicalCidr(d) = d,
         NEW c \in MergeCidrs(cidrs)
  PROVE  CanonicalCidr(c) = c
<1>1. c \in IpCidr
  BY DEF MergeCidrs
<1> SUFFICES ASSUME Size(c) <= V4Count, IsMapped(c.first) PROVE FALSE
  BY DEF CanonicalCidr
<1>2. /\ c.first \in IpAddr /\ c.first \in Int /\ c.last \in Int
      /\ c.first <= c.last /\ Contains(c, c.first)
  BY <1>1, NetworkBounds DEF Contains
<1>3. PICK d \in cidrs : c.first \in d.first .. d.last
  BY <1>2, MergedNetworkIsCovered
<1>4. d \in IpCidr /\ d.first \in Int /\ d.last \in Int /\ d.first <= c.first /\ c.first <= d.last
  BY <1>3, NetworkBounds
<1>5. V4Count < Size(d)
  BY <1>3, <1>4, CanonicalAroundMapped DEF Contains
<1>6. c.last <= d.last
  BY <1>1, <1>2, <1>4, <1>5, NestedOrDisjoint, CountsAreNumbers DEF Size
<1>7. d.first .. d.last \subseteq Covered(cidrs)
  BY DEF Covered
<1>8. d = c
  BY <1>2, <1>4, <1>6, <1>7 DEF MergeCidrs, Contains
<1> QED
  BY <1>2, <1>5, <1>8, CountsAreNumbers DEF Size

LEMMA MergedRuleIsCanonical ==
  ASSUME NEW set \in SUBSET TrustedProxyRule,
         \A r \in set : CanonicalCidr(r.cidr) = r.cidr,
         NEW a \in MergedRules(set)
  PROVE  CanonicalCidr(a.cidr) = a.cidr
<1> DEFINE CidrsOf(m) == {r.cidr : r \in {s \in set : s.metadata = m}}
<1>1. PICK m \in Metadata : a \in [cidr : MergeCidrs(CidrsOf(m)), metadata : {m}]
  BY DEF MergedRules
<1>2. CidrsOf(m) \in SUBSET IpCidr /\ \A d \in CidrsOf(m) : CanonicalCidr(d) = d
  BY RuleParts
<1> QED
  BY <1>1, <1>2, MergedNetworkIsCanonical

(***************************************************************************)
(* Merging covers all that was covered: of the networks that fit into what *)
(* is covered and hold an address, the largest one lies in no other.       *)
(***************************************************************************)
THEOREM CoveredIsMerged ==
  ASSUME NEW cidrs \in SUBSET IpCidr, NEW d \in cidrs, NEW ip \in IpAddr, Contains(d, ip)
  PROVE  \E c \in MergeCidrs(cidrs) : Contains(c, ip)
<1> DEFINE fitting == {c \in IpCidr : c.first .. c.last \subseteq Covered(cidrs)}
           holding == {c \in fitting : Contains(c, ip)}
           sizes == {Size(c) : c \in holding}
           count == V4Count + V6Count
<1>1. d \in holding
  BY DEF Covered
<1>2. count \in Nat
  BY CountsAreNumbers
<1>3. \A c \in IpCidr : Size(c) \in 1 .. count
  <2> TAKE c \in IpCidr
  <2>1. c.first \in IpAddr /\ c.last \in IpAddr /\ Size(c) \in Nat \ {0}
    BY NetworkBounds
  <2> QED
    BY <2>1, CountsAreNumbers DEF IpAddr, Size
<1>4. sizes \in SUBSET (1 .. count) /\ sizes # {}
  BY <1>1, <1>3
<1>5. PICK size \in sizes : \A other \in sizes : size >= other
  BY <1>2, <1>4, LargestIsChosen, Zenon
<1>6. PICK c \in holding : Size(c) = size
  OBVIOUS
<1>7. ASSUME NEW e \in fitting, Contains(e, c.first), Contains(e, c.last)
      PROVE  e = c
  <2>1. /\ e.first \in Int /\ e.last \in Int /\ c.first \in Int /\ c.last \in Int
        /\ e = [first |-> e.first, last |-> e.last] /\ c = [first |-> c.first, last |-> c.last]
    BY NetworkBounds
  <2>2. e.first <= c.first /\ c.last <= e.last
    BY <1>7 DEF Contains
  <2>3. ip \in Int
    BY CountsAreNumbers DEF IpAddr
  <2>4. Contains(e, ip)
    BY <2>1, <2>2, <2>3 DEF Contains
  <2>5. Size(c) >= Size(e)
    BY <1>5, <1>6, <2>4
  <2>6. e.first = c.first /\ e.last = c.last
    BY <2>1, <2>2, <2>5 DEF Size
  <2> QED
    BY <2>1, <2>6
<1>8. c \in MergeCidrs(cidrs)
  BY <1>7 DEF MergeCidrs
<1> QED
  BY <1>8

-----------------------------------------------------------------------------
(* What rules grant.                                                        *)

\* The pairs of an address and metadata that some rule gives to it.  Only the
\* canonical forms of addresses are looked up.
GrantedBy(set) ==
  {grant \in IpAddr \X Metadata :
     /\ ~IsMapped(grant[1])
     /\ \E r \in set : r.metadata = grant[2] /\ Contains(r.cidr, grant[1])}

\* A narrow network with a mapped address lies in the mapped range.
LEMMA NarrowIsMapped ==
  ASSUME NEW c \in IpCidr, Size(c) <= V4Count, IsMapped(c.first)
  PROVE  MappedFirst <= c.first /\ c.last <= MappedFirst + V4Count - 1
<1>1. /\ c.first \in Int /\ c.last \in Int /\ c.first <= c.last
      /\ MappedFirst <= c.first /\ c.first <= MappedFirst + V4Count - 1
  BY NetworkBounds, CountsAreNumbers DEF IsMapped
<1>2. /\ MappedRange \in IpCidr
      /\ MappedRange.first = MappedFirst /\ MappedRange.last = MappedFirst + V4Count - 1
  BY MappedRangeIsNetwork DEF MappedRange
<1> QED
  BY <1>1, <1>2, NestedOrDisjoint, CountsAreNumbers DEF Size

(***************************************************************************)
(* What a network means without being rewritten is what its canonical form *)
(* contains.                                                               *)
(***************************************************************************)
LEMMA AddressesOfNetwork ==
  ASSUME NEW c \in IpCidr, NEW ip \in IpAddr, ~IsMapped(ip)
  PROVE  ip \in Addresses(c) <=> Contains(CanonicalCidr(c), ip)
<1>1. /\ c.first \in Int /\ c.last \in Int /\ c.first <= c.last
      /\ c.first \in IpAddr /\ c.last \in IpAddr
  BY NetworkBounds
<1>2. CASE Size(c) <= V4Count /\ IsMapped(c.first)
  <2>1. MappedFirst <= c.first /\ c.last <= MappedFirst + V4Count - 1
    BY <1>2, NarrowIsMapped
  <2>2. WhollyMapped(c)
    BY <1>1, <2>1, CountsAreNumbers DEF WhollyMapped, IsMapped
  <2>3. \A a \in IpAddr : Contains(c, a) => CanonicalIp(a) = a - MappedFirst
    BY <1>1, <2>1, CountsAreNumbers DEF Contains, CanonicalIp, IsMapped, IpAddr
  <2>4. CanonicalCidr(c) = [first |-> c.first - MappedFirst, last |-> c.last - MappedFirst]
    BY <1>2 DEF CanonicalCidr
  <2>5. ASSUME ip \in Addresses(c) PROVE Contains(CanonicalCidr(c), ip)
    <3>1. PICK a \in IpAddr : Contains(c, a) /\ ip = CanonicalIp(a)
      BY <2>5 DEF Addresses
    <3>2. ip = a - MappedFirst
      BY <2>3, <3>1
    <3> QED
      BY <1>1, <2>4, <3>1, <3>2, CountsAreNumbers DEF Contains, IpAddr
  <2>6. ASSUME Contains(CanonicalCidr(c), ip) PROVE ip \in Addresses(c)
    <3>1. PICK a : a = ip + MappedFirst
      OBVIOUS
    <3>2. a \in IpAddr /\ Contains(c, a) /\ a - MappedFirst = ip
      BY <1>1, <2>4, <2>6, <3>1, CountsAreNumbers DEF Contains, IpAddr
    <3>3. CanonicalIp(a) = ip
      BY <2>3, <3>2
    <3> QED
      BY <2>2, <3>2, <3>3 DEF Addresses
  <2> QED
    BY <2>5, <2>6
<1>3. CASE ~(Size(c) <= V4Count /\ IsMapped(c.first))
  <2>1. CanonicalCidr(c) = c
    BY <1>3 DEF CanonicalCidr
  <2>2. ASSUME ip \in Addresses(c) PROVE Contains(c, ip)
    <3>1. PICK a \in IpAddr :
            Contains(c, a) /\ (IsMapped(a) => WhollyMapped(c)) /\ ip = CanonicalIp(a)
      BY <2>2 DEF Addresses
    <3>2. ~WhollyMapped(c)
      BY <1>1, <1>3, CountsAreNumbers DEF WhollyMapped, IsMapped, Size
    <3> QED
      BY <3>1, <3>2 DEF CanonicalIp
  <2>3. ASSUME Contains(c, ip) PROVE ip \in Addresses(c)
    BY <2>3 DEF Addresses, CanonicalIp
  <2> QED
    BY <2>1, <2>2, <2>3
<1> QED
  BY <1>2, <1>3

LEMMA AddressesAreCanonical ==
  ASSUME NEW c, NEW ip \in Addresses(c)
  PROVE  ip \in IpAddr /\ ~IsMapped(ip)
<1>1. PICK a \in IpAddr : ip = CanonicalIp(a)
  BY DEF Addresses
<1> QED
  BY <1>1, CanonicalIpIsCanonical

\* Merging grants what was granted, and nothing else.
THEOREM MergingKeepsGrants ==
  ASSUME NEW set \in SUBSET TrustedProxyRule
  PROVE  GrantedBy(MergedRules(set)) = GrantedBy(set)
<1> DEFINE CidrsOf(m) == {r.cidr : r \in {s \in set : s.metadata = m}}
<1>1. \A m : CidrsOf(m) \in SUBSET IpCidr
  BY RuleParts
<1>2. ASSUME NEW ip \in IpAddr, NEW m \in Metadata, NEW r \in MergedRules(set),
             r.metadata = m, Contains(r.cidr, ip)
      PROVE  \E s \in set : s.metadata = m /\ Contains(s.cidr, ip)
  <2>1. PICK n \in Metadata : r \in [cidr : MergeCidrs(CidrsOf(n)), metadata : {n}]
    BY DEF MergedRules
  <2>2. n = m /\ r.cidr \in MergeCidrs(CidrsOf(m))
    BY <1>2, <2>1
  <2>3. PICK d \in CidrsOf(m) : ip \in d.first .. d.last
    BY <1>2, <2>2, MergedNetworkIsCovered
  <2>4. PICK s \in set : s.metadata = m /\ s.cidr = d
    OBVIOUS
  <2> QED
    BY <2>3, <2>4 DEF Contains
<1>3. ASSUME NEW ip \in IpAddr, NEW m \in Metadata, NEW s \in set,
             s.metadata = m, Contains(s.cidr, ip)
      PROVE  \E r \in MergedRules(set) : r.metadata = m /\ Contains(r.cidr, ip)
  <2>1. s.cidr \in CidrsOf(m)
    BY <1>3
  <2>2. PICK c \in MergeCidrs(CidrsOf(m)) : Contains(c, ip)
    <3> HIDE DEF CidrsOf
    <3> QED
      BY <1>1, <1>3, <2>1, CoveredIsMerged
  <2>3. PICK r : r = [cidr |-> c, metadata |-> m]
    OBVIOUS
  <2>4. r \in [cidr : MergeCidrs(CidrsOf(m)), metadata : {m}]
    BY <2>3
  <2>5. r \in MergedRules(set)
    BY <2>4 DEF MergedRules
  <2> QED
    BY <2>2, <2>3, <2>5
<1> QED
  BY <1>2, <1>3 DEF GrantedBy

(***************************************************************************)
(* What rule_for says of all addresses is what the rules grant.            *)
(***************************************************************************)
FoundBy(rules, ip) ==
  IF RuleFor(rules, ip) # 0 THEN {rules[RuleFor(rules, ip)].metadata} ELSE {}

THEOREM LookupFindsWhatIsGranted ==
  ASSUME NEW rules \in Seq(TrustedProxyRule), Apart(rules)
  PROVE  UNION {{CanonicalIp(ip)} \X FoundBy(rules, ip) : ip \in IpAddr}
           = GrantedBy(RuleSet(rules))
<1>1. \A ip \in IpAddr : {i \in DOMAIN rules : Contains(rules[i].cidr, CanonicalIp(ip))}
                           = {RuleFor(rules, ip)} \ {0}
  BY LookupFindsTheRule
<1>2. ASSUME NEW ip \in IpAddr, RuleFor(rules, ip) # 0
      PROVE  <<CanonicalIp(ip), rules[RuleFor(rules, ip)].metadata>> \in GrantedBy(RuleSet(rules))
  <2>1. PICK i : i = RuleFor(rules, ip)
    OBVIOUS
  <2>2. i \in DOMAIN rules /\ Contains(rules[i].cidr, CanonicalIp(ip))
    BY <1>1, <1>2, <2>1
  <2>3. rules[i] \in RuleSet(rules) /\ rules[i].metadata \in Metadata
    BY <2>2, RulesOfList, RuleParts DEF RuleSet
  <2>4. CanonicalIp(ip) \in IpAddr /\ ~IsMapped(CanonicalIp(ip))
    BY CanonicalIpIsCanonical
  <2> QED
    BY <2>1, <2>2, <2>3, <2>4 DEF GrantedBy
<1>3. ASSUME NEW ip \in IpAddr, NEW m \in Metadata, <<ip, m>> \in GrantedBy(RuleSet(rules))
      PROVE  CanonicalIp(ip) = ip /\ m \in FoundBy(rules, ip)
  <2>1. CanonicalIp(ip) = ip
    BY <1>3 DEF GrantedBy, CanonicalIp
  <2>2. PICK i \in DOMAIN rules : rules[i].metadata = m /\ Contains(rules[i].cidr, ip)
    BY <1>3 DEF GrantedBy, RuleSet
  <2>3. RuleFor(rules, ip) = i /\ i # 0
    BY <1>1, <2>1, <2>2
  <2> QED
    BY <2>1, <2>2, <2>3 DEF FoundBy
<1>4. GrantedBy(RuleSet(rules)) \subseteq IpAddr \X Metadata
  BY DEF GrantedBy
<1>5. ASSUME NEW p \in UNION {{CanonicalIp(ip)} \X FoundBy(rules, ip) : ip \in IpAddr}
      PROVE  p \in GrantedBy(RuleSet(rules))
  <2>1. PICK ip \in IpAddr : p \in {CanonicalIp(ip)} \X FoundBy(rules, ip)
    OBVIOUS
  <2>2. RuleFor(rules, ip) # 0 /\ p = <<CanonicalIp(ip), rules[RuleFor(rules, ip)].metadata>>
    BY <2>1 DEF FoundBy
  <2> QED
    BY <1>2, <2>2
<1>6. ASSUME NEW p \in GrantedBy(RuleSet(rules))
      PROVE  p \in UNION {{CanonicalIp(ip)} \X FoundBy(rules, ip) : ip \in IpAddr}
  <2>1. PICK ip \in IpAddr, m \in Metadata : p = <<ip, m>>
    BY <1>4
  <2>2. CanonicalIp(ip) = ip /\ m \in FoundBy(rules, ip)
    BY <1>3, <1>6, <2>1
  <2>3. p \in {CanonicalIp(ip)} \X FoundBy(rules, ip)
    BY <2>1, <2>2
  <2> QED
    BY <2>3
<1> QED
  BY <1>5, <1>6

\* A listing has all elements of the set.
LEMMA ListingIsComplete ==
  ASSUME NEW set, IsFiniteSet(set),
         NEW list \in [1 .. Cardinality(set) -> set],
         \A i, j \in 1 .. Cardinality(set) : i # j => list[i] # list[j]
  PROVE  RuleSet(list) = set
<1>1. Cardinality(set) \in Nat
  BY FS_CardinalityType
<1>2. list \in Injection(1 .. Cardinality(set), set)
  BY DEF Injection, IsInjective
<1>3. Cardinality(1 .. Cardinality(set)) = Cardinality(set)
  BY <1>1, FS_Interval
<1>4. list \in Surjection(1 .. Cardinality(set), set)
  BY <1>2, <1>3, FS_Injection
<1> QED
  BY <1>4 DEF Surjection, RuleSet

=============================================================================
