-------------------- MODULE ClientIpConfigBuilderProofs --------------------
(***************************************************************************)
(* Proofs about ClientIpConfigBuilder, for every address space, every set  *)
(* of headers and any number of rules.                                     *)
(***************************************************************************)
EXTENDS ClientIpConfigBuilder, TrustedProxyRulesProofs

(***************************************************************************)
(* What the sweep of build() works on, and what it leaves behind.          *)
(***************************************************************************)
SweepState ==
  /\ stage \in {"overlap", "merge", "rejected"} =>
       rules = [i \in DOMAIN added |-> Canonical(added[i])]
  /\ stage \in {"choose", "setup", "merge", "sort"} => pending = {} /\ open = None

\* The inductive invariant.
BuilderInvariant ==
  /\ TypeOK
  /\ SweepState
  /\ SweepInvariant
  /\ NoAddressHasTwoPolicies
  /\ RejectionNamesARealConflict

-----------------------------------------------------------------------------
(* Rules.                                                                   *)

\* A canonicalized rule is a rule.
LEMMA CanonicalIsRule ==
  ASSUME NEW r \in TrustedProxyRule
  PROVE  Canonical(r) \in TrustedProxyRule
<1>1. CanonicalCidr(r.cidr) \in IpCidr
  BY RuleParts, CanonicalCidrIsNetwork
<1> QED
  BY <1>1 DEF Canonical, TrustedProxyRule

\* Canonicalizing a list of rules gives a list of rules.
LEMMA CanonicalListIsList ==
  ASSUME NEW list \in Seq(TrustedProxyRule)
  PROVE  /\ [i \in DOMAIN list |-> Canonical(list[i])] \in Seq(TrustedProxyRule)
         /\ DOMAIN [i \in DOMAIN list |-> Canonical(list[i])] = DOMAIN list
<1>1. DOMAIN list = 1..Len(list) /\ Len(list) \in Nat
  BY LenProperties
<1>2. \A i \in 1..Len(list) : Canonical(list[i]) \in TrustedProxyRule
  BY <1>1, ElementOfSeq, CanonicalIsRule
<1>3. [i \in 1..Len(list) |-> Canonical(list[i])] \in [1..Len(list) -> TrustedProxyRule]
  BY <1>2
<1> QED
  BY <1>1, <1>3, SeqDef

\* Merging rules gives rules.
LEMMA MergedRulesAreRules ==
  ASSUME NEW set
  PROVE  MergedRules(set) \subseteq TrustedProxyRule
BY DEF MergedRules, MergeCidrs, TrustedProxyRule

(***************************************************************************)
(* There are only finitely many networks, and merging invents no metadata. *)
(***************************************************************************)
LEMMA MergedRulesAreFinite ==
  ASSUME NEW list \in Seq(TrustedProxyRule)
  PROVE  IsFiniteSet(MergedRules(RuleSet(list)))
<1> DEFINE S == MergedRules(RuleSet(list))
           Names == {list[i].metadata : i \in DOMAIN list}
           T == (IpAddr \X IpAddr) \X Names
           f == [r \in S |-> << <<r.cidr.first, r.cidr.last>>, r.metadata>>]
<1>1. IsFiniteSet(IpAddr)
  BY CountsAreNumbers, FS_Interval DEF IpAddr
<1>2. IsFiniteSet(Names)
  <2>1. DOMAIN list = 1..Len(list) /\ Len(list) \in Nat
    BY LenProperties
  <2>2. IsFiniteSet(DOMAIN list)
    BY <2>1, FS_Interval
  <2> DEFINE g == [i \in DOMAIN list |-> list[i].metadata]
  <2>3. g \in Surjection(DOMAIN list, Names)
    BY DEF Surjection
  <2> QED
    BY <2>2, <2>3, FS_Surjection
<1>3. IsFiniteSet(T)
  BY <1>1, <1>2, FS_Product
<1>4. S \subseteq TrustedProxyRule
  BY MergedRulesAreRules
<1>5. ASSUME NEW r \in S PROVE r.metadata \in Names
  <2>1. PICK m \in Metadata :
          r \in [cidr : MergeCidrs({q.cidr : q \in {s \in RuleSet(list) : s.metadata = m}}),
                 metadata : {m}]
    BY <1>5 DEF MergedRules
  <2>2. CASE \E s \in RuleSet(list) : s.metadata = m
    BY <2>1, <2>2 DEF RuleSet
  <2>3. CASE ~\E s \in RuleSet(list) : s.metadata = m
    <3> DEFINE none == {q.cidr : q \in {s \in RuleSet(list) : s.metadata = m}}
    <3>1. none = {}
      BY <2>3
    <3>2. Covered({}) = {}
      BY DEF Covered
    <3>3. r.cidr \in IpCidr /\ r.cidr.first .. r.cidr.last \subseteq {}
      BY <2>1, <3>1, <3>2 DEF MergeCidrs
    <3> QED
      BY <3>3, NetworkBounds
  <2> QED
    BY <2>2, <2>3
<1>6. f \in [S -> T]
  BY <1>4, <1>5, RuleParts, NetworkBounds
<1>7. ASSUME NEW r \in S, NEW s \in S, f[r] = f[s] PROVE r = s
  <2>1. r.cidr.first = s.cidr.first /\ r.cidr.last = s.cidr.last /\ r.metadata = s.metadata
    BY <1>7
  <2>2. r.cidr = s.cidr
    BY <2>1, <1>4, RuleParts, NetworkBounds
  <2> QED
    BY <2>1, <2>2, <1>4 DEF TrustedProxyRule
<1>8. f \in Injection(S, T)
  BY <1>6, <1>7 DEF Injection, IsInjective
<1> QED
  BY <1>3, <1>8, FS_Injection

\* Every listing of the merged rules is a list of rules.
LEMMA MergedListingIsList ==
  ASSUME NEW list \in Seq(TrustedProxyRule),
         NEW merged \in Listings(MergedRules(RuleSet(list)))
  PROVE  merged \in Seq(TrustedProxyRule)
<1>1. Cardinality(MergedRules(RuleSet(list))) \in Nat
  BY MergedRulesAreFinite, FS_CardinalityType
<1>2. merged \in [1..Cardinality(MergedRules(RuleSet(list))) -> TrustedProxyRule]
  BY MergedRulesAreRules DEF Listings
<1> QED
  BY <1>1, <1>2, SeqDef

\* Only finitely many rules are in a list.
LEMMA RulesOfListAreFinite ==
  ASSUME NEW list \in Seq(TrustedProxyRule)
  PROVE  IsFiniteSet(RuleSet(list))
<1>1. [i \in DOMAIN list |-> list[i]] \in Surjection(DOMAIN list, RuleSet(list))
  BY DEF Surjection, RuleSet
<1>2. IsFiniteSet(DOMAIN list)
  BY RulesOfList, FS_Interval
<1> QED
  BY <1>1, <1>2, FS_Surjection

\* Every listing of the rules of a list is a list of rules.
LEMMA SortedListingIsList ==
  ASSUME NEW list \in Seq(TrustedProxyRule), NEW sorted \in Listings(RuleSet(list))
  PROVE  sorted \in Seq(TrustedProxyRule)
<1>1. DOMAIN list = 1..Len(list) /\ Len(list) \in Nat
  BY LenProperties
<1>2. RuleSet(list) \subseteq TrustedProxyRule
  BY <1>1, ElementOfSeq DEF RuleSet
<1>3. IsFiniteSet(RuleSet(list))
  BY RulesOfListAreFinite
<1>4. Cardinality(RuleSet(list)) \in Nat
  BY <1>3, FS_CardinalityType
<1>5. sorted \in [1..Cardinality(RuleSet(list)) -> TrustedProxyRule]
  BY <1>2 DEF Listings
<1> QED
  BY <1>4, <1>5, SeqDef

-----------------------------------------------------------------------------
(* Type correctness.                                                        *)

LEMMA InitTypeOK == Init => TypeOK
<1>1. <<>> \in Seq(TrustedProxyRule)
  BY EmptySeq
<1> QED
  BY <1>1, BuilderAssumption
  DEF Init, TypeOK, None, NoConflict, Metadata

LEMMA NextTypeOK == TypeOK /\ SweepState /\ [Next]_vars => TypeOK'
<1> SUFFICES ASSUME TypeOK, SweepState, [Next]_vars PROVE TypeOK'
  OBVIOUS
<1> USE BuilderAssumption DEF TypeOK, settings, sweep
<1>1. CASE Choose
  BY <1>1 DEF Choose, TrustNoProxy, TrustedProxies, TrustAllProxies
<1>2. CASE Configure
  <2>1. ASSUME NEW rule \in RuleChoices, ProxyRule(rule) PROVE TypeOK'
    <3>1. added' \in Seq(TrustedProxyRule)
      BY <2>1 DEF ProxyRule
    <3> QED
      BY <2>1, <3>1 DEF ProxyRule
  <2>2. ASSUME NEW batch \in Batches, Proxies(batch) PROVE TypeOK'
    <3>1. batch \in Seq(TrustedProxyRule)
      BY SeqMonotonic
    <3>2. added' \in Seq(TrustedProxyRule)
      BY <2>2, <3>1, ConcatProperties DEF Proxies
    <3> QED
      BY <2>2, <3>2 DEF Proxies
  <2>3. ASSUME NEW order \in ChainHeaderOrders, SetChainHeaderOrder(order) PROVE TypeOK'
    BY <2>3 DEF SetChainHeaderOrder
  <2>4. ASSUME NEW name \in HeaderName, SetClientIpHeader(name) PROVE TypeOK'
    BY <2>4 DEF SetClientIpHeader, Metadata
  <2>5. ASSUME NEW selection \in Selections, SetChainIpSelection(selection) PROVE TypeOK'
    BY <2>5 DEF SetChainIpSelection
  <2> QED
    BY <1>2, <2>1, <2>2, <2>3, <2>4, <2>5 DEF Configure
<1>3. CASE BuildTrustAll
  BY <1>3 DEF BuildTrustAll
<1>4. CASE Build
  <2>1. rules' \in Seq(TrustedProxyRule) /\ DOMAIN rules' = DOMAIN added
    BY <1>4, CanonicalListIsList DEF Build
  <2>2. open' = None
    BY <1>4 DEF Build, SweepState
  <2> QED
    BY <1>4, <2>1, <2>2 DEF Build
<1>5. CASE BuildStep
  <2>1. ASSUME NEW i \in DOMAIN rules, SweepStep(i) PROVE TypeOK'
    <3>1. CASE StayOpen(i)
      BY <3>1 DEF StayOpen
    <3>2. CASE Clash(i)
      <4>1. i \in Nat /\ open \in Nat
        BY LenProperties DEF None
      <4> QED
        BY <3>2, <4>1 DEF Clash
    <3>3. CASE OpenNext(i)
      BY <3>3 DEF OpenNext
    <3> QED
      BY <2>1, <3>1, <3>2, <3>3 DEF SweepStep
  <2>2. CASE SweepDone
    BY <2>2 DEF SweepDone
  <2>3. CASE MergeRules
    <3>1. rules' \in Seq(TrustedProxyRule)
      BY <2>3, MergedListingIsList DEF MergeRules
    <3>2. pending' = {} /\ open' = None
      BY <2>3 DEF MergeRules, SweepState
    <3> QED
      BY <2>3, <3>1, <3>2 DEF MergeRules
  <2>4. CASE SortRules
    <3>1. rules' \in Seq(TrustedProxyRule)
      BY <2>4, SortedListingIsList DEF SortRules
    <3>2. pending' = {} /\ open' = None
      BY <2>4 DEF SortRules, SweepState
    <3> QED
      BY <2>4, <3>1, <3>2 DEF SortRules
  <2> QED
    BY <1>5, <2>1, <2>2, <2>3, <2>4 DEF BuildStep
<1>6. CASE Finished
  BY <1>6 DEF Finished, vars
<1>7. CASE UNCHANGED vars
  BY <1>7 DEF vars
<1> QED
  BY <1>1, <1>2, <1>3, <1>4, <1>5, <1>6, <1>7 DEF Next

-----------------------------------------------------------------------------
(* One step of the sweep.                                                   *)

\* In terms of the ends of two networks, as the sweep sees them.
LEMMA ConflictOfRules ==
  ASSUME NEW r \in TrustedProxyRule, NEW s \in TrustedProxyRule
  PROVE  Conflict(r, s) <=> /\ r.metadata # s.metadata
                            /\ r.cidr.first <= s.cidr.last
                            /\ s.cidr.first <= r.cidr.last
BY RuleParts, OverlapOfIntervals DEF Conflict

(***************************************************************************)
(* A rule that starts inside the open network ends inside it as well: it   *)
(* is not before the open one in address order, and networks are laminar.  *)
(***************************************************************************)
LEMMA ReachingInIsNesting ==
  ASSUME TypeOK, NEW i \in DOMAIN rules, open \in DOMAIN rules,
         Precedes(open, i), ReachesIntoOpen(i)
  PROVE  /\ rules[open].cidr.first <= rules[i].cidr.first
         /\ rules[i].cidr.last <= rules[open].cidr.last
<1> DEFINE c == rules[open].cidr
           d == rules[i].cidr
<1>1. c \in IpCidr /\ d \in IpCidr
  BY RuleParts, ElementOfSeq, LenProperties DEF TypeOK
<1>2. /\ c.first \in Int /\ c.last \in Int /\ c.first <= c.last
      /\ d.first \in Int /\ d.last \in Int /\ d.first <= d.last
  BY <1>1, NetworkBounds
<1>3. d.first <= c.last
  BY DEF ReachesIntoOpen
<1>4. c.first < d.first \/ (c.first = d.first /\ c.last > d.last) \/ c = d
  BY DEF Precedes
<1>5. \/ c.last < d.first \/ d.last < c.first
      \/ d.first <= c.first /\ c.last <= d.last
      \/ c.first <= d.first /\ d.last <= c.last
  BY <1>1, NestedOrDisjoint
<1> HIDE DEF c, d
<1>6. c.first <= d.first /\ d.last <= c.last
  BY <1>2, <1>3, <1>4, <1>5
<1> QED
  BY <1>6 DEF c, d

\* Neither type nor order of the rules depends on what the sweep writes.
LEMMA StayOpenKeepsSweepInvariant ==
  ASSUME TypeOK, SweepInvariant, NEW i \in DOMAIN rules, StayOpen(i)
  PROVE  SweepInvariant'
<1> USE DEF StayOpen
<1>1. open \in Visited /\ open \in DOMAIN rules /\ open # None
  BY DEF SweepInvariant, ReachesIntoOpen, Visited
<1>2. Precedes(open, i)
  BY <1>1 DEF SweepInvariant, IsNext
<1>3. /\ rules[open].cidr.first <= rules[i].cidr.first
      /\ rules[i].cidr.last <= rules[open].cidr.last
  BY <1>1, <1>2, ReachingInIsNesting
<1>4. Visited' = Visited \cup {i} /\ rules' = rules /\ open' = open
  BY DEF Visited, IsNext
<1>5. \A j \in DOMAIN rules : rules[j] \in TrustedProxyRule
  BY ElementOfSeq, LenProperties DEF TypeOK
<1>6. \A j \in DOMAIN rules : /\ rules[j].cidr.first \in Int
                              /\ rules[j].cidr.last \in Int
                              /\ rules[j].cidr.first <= rules[j].cidr.last
  BY <1>5, RuleParts, NetworkBounds
<1>7. \A j \in Visited', k \in pending' : Precedes(j, k)'
  BY <1>4 DEF SweepInvariant, IsNext, Precedes
<1>8. ASSUME NEW j \in Visited
      PROVE  ~Conflict(rules[i], rules[j]) /\ ~Conflict(rules[j], rules[i])
  <2>1. j \in DOMAIN rules
    BY DEF Visited
  <2>2. CASE rules[j].cidr.last < rules[open].cidr.first
    BY <1>1, <1>3, <1>5, <1>6, <2>1, <2>2, ConflictOfRules
  <2>3. CASE rules[j].metadata = rules[open].metadata
    BY <1>5, <2>1, <2>3, ConflictOfRules
  <2> QED
    BY <1>1, <2>2, <2>3 DEF SweepInvariant
<1>9. ~Conflict(rules[i], rules[i])
  BY DEF Conflict
<1>10. \A j, k \in Visited' : ~Conflict(rules'[j], rules'[k])
  BY <1>4, <1>8, <1>9 DEF SweepInvariant
<1>11. \A j \in Visited' :
         \/ rules'[j].cidr.last < rules'[open'].cidr.first
         \/ /\ rules'[open'].cidr.first <= rules'[j].cidr.first
            /\ rules'[j].cidr.last <= rules'[open'].cidr.last
            /\ rules'[j].metadata = rules'[open'].metadata
  BY <1>1, <1>3, <1>4 DEF SweepInvariant
<1> QED
  BY <1>1, <1>4, <1>7, <1>10, <1>11 DEF SweepInvariant

\* The next network is open, and everything before it has ended.
LEMMA OpenNextKeepsSweepInvariant ==
  ASSUME TypeOK, SweepInvariant, NEW i \in DOMAIN rules, OpenNext(i)
  PROVE  SweepInvariant'
<1> USE DEF OpenNext
<1>1. i # None /\ None \notin DOMAIN rules
  BY LenProperties DEF None, TypeOK
<1>2. Visited' = Visited \cup {i} /\ rules' = rules /\ open' = i
  BY DEF Visited, IsNext
<1>3. \A j \in DOMAIN rules : rules[j] \in TrustedProxyRule
  BY ElementOfSeq, LenProperties DEF TypeOK
<1>4. \A j \in DOMAIN rules : /\ rules[j].cidr.first \in Int
                              /\ rules[j].cidr.last \in Int
                              /\ rules[j].cidr.first <= rules[j].cidr.last
  BY <1>3, RuleParts, NetworkBounds
<1>5. ASSUME NEW j \in Visited PROVE rules[j].cidr.last < rules[i].cidr.first
  <2>1. open # None /\ open \in DOMAIN rules /\ j \in DOMAIN rules
    BY DEF SweepInvariant, Visited
  <2>2. rules[open].cidr.last < rules[i].cidr.first
    BY <1>4, <2>1 DEF ReachesIntoOpen
  <2>3. rules[j].cidr.last <= rules[open].cidr.last
    BY <1>4, <2>1 DEF SweepInvariant
  <2> QED
    BY <1>4, <2>1, <2>2, <2>3
<1>6. \A j \in Visited', k \in pending' : Precedes(j, k)'
  BY <1>2 DEF SweepInvariant, IsNext, Precedes
<1>7. \A j \in Visited : ~Conflict(rules[i], rules[j]) /\ ~Conflict(rules[j], rules[i])
  BY <1>3, <1>4, <1>5, ConflictOfRules DEF Visited
<1>8. ~Conflict(rules[i], rules[i])
  BY DEF Conflict
<1>9. \A j, k \in Visited' : ~Conflict(rules'[j], rules'[k])
  BY <1>2, <1>7, <1>8 DEF SweepInvariant
<1>10. \A j \in Visited' :
         \/ rules'[j].cidr.last < rules'[open'].cidr.first
         \/ /\ rules'[open'].cidr.first <= rules'[j].cidr.first
            /\ rules'[j].cidr.last <= rules'[open'].cidr.last
            /\ rules'[j].metadata = rules'[open'].metadata
  BY <1>2, <1>4, <1>5
<1> QED
  BY <1>1, <1>2, <1>6, <1>9, <1>10 DEF SweepInvariant

\* What the sweep refuses is a conflict of two rules that were added.
LEMMA ClashIsAConflict ==
  ASSUME TypeOK, SweepState, SweepInvariant, NEW i \in DOMAIN rules, Clash(i)
  PROVE  RejectionNamesARealConflict'
<1> USE DEF Clash
<1>1. open \in Visited /\ open \in DOMAIN rules /\ open # None
  BY DEF SweepInvariant, ReachesIntoOpen, Visited
<1>2. rules[open] \in TrustedProxyRule /\ rules[i] \in TrustedProxyRule
  BY <1>1, ElementOfSeq, LenProperties DEF TypeOK
<1>3. Precedes(open, i)
  BY <1>1 DEF SweepInvariant, IsNext
<1>4. /\ rules[open].cidr.first <= rules[i].cidr.first
      /\ rules[i].cidr.first <= rules[open].cidr.last
  BY <1>1, <1>3, ReachingInIsNesting DEF ReachesIntoOpen
<1>5. /\ rules[open].cidr.first \in Int /\ rules[open].cidr.last \in Int
      /\ rules[i].cidr.first \in Int /\ rules[i].cidr.last \in Int
      /\ rules[i].cidr.first <= rules[i].cidr.last
  BY <1>2, RuleParts, NetworkBounds
<1>6. Conflict(rules[open], rules[i])
  BY <1>2, <1>4, <1>5, ConflictOfRules
<1>7. DOMAIN rules = DOMAIN added
  BY DEF SweepState
<1>8. rules[open] = Canonical(added[open]) /\ rules[i] = Canonical(added[i])
  BY <1>1, <1>7 DEF SweepState
<1> QED
  BY <1>1, <1>6, <1>7, <1>8 DEF RejectionNamesARealConflict

-----------------------------------------------------------------------------
(* The inductive invariant.                                                 *)

LEMMA InitInvariant == Init => BuilderInvariant
BY InitTypeOK
DEF Init, BuilderInvariant, SweepState, SweepInvariant, NoAddressHasTwoPolicies,
    RejectionNamesARealConflict, Accepted

\* Before build() there is nothing to be said, and after it nothing changes.
LEMMA SettingUpKeepsInvariant ==
  ASSUME BuilderInvariant, Choose \/ Configure \/ BuildTrustAll
  PROVE  SweepState' /\ SweepInvariant' /\ NoAddressHasTwoPolicies'
           /\ RejectionNamesARealConflict'
<1> USE DEF BuilderInvariant, SweepState, SweepInvariant, NoAddressHasTwoPolicies,
            RejectionNamesARealConflict, Accepted, sweep, settings
<1>1. CASE Choose
  BY <1>1 DEF Choose, TrustNoProxy, TrustedProxies, TrustAllProxies
<1>2. CASE Configure
  BY <1>2 DEF Configure, ProxyRule, Proxies, SetChainHeaderOrder, SetClientIpHeader,
              SetChainIpSelection
<1>3. CASE BuildTrustAll
  BY <1>3 DEF BuildTrustAll
<1> QED
  BY <1>1, <1>2, <1>3

\* build() starts its sweep with nothing visited.
LEMMA BuildKeepsInvariant ==
  ASSUME BuilderInvariant, Build
  PROVE  SweepState' /\ SweepInvariant' /\ NoAddressHasTwoPolicies'
           /\ RejectionNamesARealConflict'
<1> USE DEF BuilderInvariant, Build
<1>1. rules' = [i \in DOMAIN added |-> Canonical(added[i])] /\ DOMAIN rules' = DOMAIN added
  OBVIOUS
<1>2. Visited' = {} /\ open' = None
  BY <1>1 DEF Visited, SweepState
<1> QED
  BY <1>1, <1>2
  DEF SweepState, SweepInvariant, NoAddressHasTwoPolicies, RejectionNamesARealConflict, Accepted

\* Once every rule is visited, the rules agree as they were added.
LEMMA SweepDoneKeepsInvariant ==
  ASSUME BuilderInvariant, SweepDone
  PROVE  SweepState' /\ SweepInvariant' /\ NoAddressHasTwoPolicies'
           /\ RejectionNamesARealConflict'
<1> USE DEF BuilderInvariant, SweepDone
<1>1. Visited = DOMAIN added /\ DOMAIN rules = DOMAIN added
  BY DEF Visited, SweepState
<1>2. \A i \in DOMAIN added : rules[i] = Canonical(added[i])
  BY DEF SweepState
<1>3. \A i, j \in DOMAIN added : ~Conflict(rules[i], rules[j])
  BY <1>1 DEF SweepInvariant
<1>4. \A i, j \in DOMAIN added : ~Conflict(Canonical(added[i]), Canonical(added[j]))
  BY <1>2, <1>3
<1>5. NoAddressHasTwoPolicies'
  BY <1>4 DEF NoAddressHasTwoPolicies
<1> QED
  BY <1>5 DEF SweepState, SweepInvariant, RejectionNamesARealConflict

LEMMA NextInvariant == BuilderInvariant /\ [Next]_vars => BuilderInvariant'
<1> SUFFICES ASSUME BuilderInvariant, [Next]_vars PROVE BuilderInvariant'
  OBVIOUS
<1>1. TypeOK'
  BY NextTypeOK DEF BuilderInvariant
<1> DEFINE Rest == SweepState' /\ SweepInvariant' /\ NoAddressHasTwoPolicies'
                     /\ RejectionNamesARealConflict'
<1>2. ASSUME Choose \/ Configure \/ BuildTrustAll PROVE Rest
  BY <1>2, SettingUpKeepsInvariant
<1>3. ASSUME Build PROVE Rest
  BY <1>3, BuildKeepsInvariant
<1>4. ASSUME BuildStep PROVE Rest
  <2>1. ASSUME NEW i \in DOMAIN rules, StayOpen(i) PROVE Rest
    <3>1. SweepInvariant'
      BY <2>1, StayOpenKeepsSweepInvariant DEF BuilderInvariant
    <3> QED
      BY <2>1, <3>1 DEF StayOpen, BuilderInvariant, SweepState, NoAddressHasTwoPolicies,
                        RejectionNamesARealConflict, Accepted
  <2>2. ASSUME NEW i \in DOMAIN rules, Clash(i) PROVE Rest
    <3>1. RejectionNamesARealConflict'
      BY <2>2, ClashIsAConflict DEF BuilderInvariant
    <3> QED
      BY <2>2, <3>1 DEF Clash, BuilderInvariant, SweepState, SweepInvariant,
                        NoAddressHasTwoPolicies, Accepted
  <2>3. ASSUME NEW i \in DOMAIN rules, OpenNext(i) PROVE Rest
    <3>1. SweepInvariant'
      BY <2>3, OpenNextKeepsSweepInvariant DEF BuilderInvariant
    <3> QED
      BY <2>3, <3>1 DEF OpenNext, BuilderInvariant, SweepState, NoAddressHasTwoPolicies,
                        RejectionNamesARealConflict, Accepted
  <2>4. ASSUME SweepDone PROVE Rest
    BY <2>4, SweepDoneKeepsInvariant
  <2>5. ASSUME MergeRules \/ SortRules PROVE Rest
    BY <2>5 DEF MergeRules, SortRules, sweep, BuilderInvariant, SweepState, SweepInvariant,
                NoAddressHasTwoPolicies, RejectionNamesARealConflict, Accepted
  <2> QED
    BY <1>4, <2>1, <2>2, <2>3, <2>4, <2>5 DEF BuildStep, SweepStep
<1>5. ASSUME Finished \/ UNCHANGED vars PROVE Rest
  BY <1>5 DEF Finished, vars, sweep, BuilderInvariant, SweepState, SweepInvariant, Visited,
              Precedes, NoAddressHasTwoPolicies, RejectionNamesARealConflict, Accepted
<1> QED
  BY <1>1, <1>2, <1>3, <1>4, <1>5 DEF Next, BuilderInvariant

-----------------------------------------------------------------------------
(* Theorems.                                                                *)

(***************************************************************************)
(* Every state of the builder satisfies the inductive invariant.           *)
(***************************************************************************)
THEOREM InvariantHolds == Spec => []BuilderInvariant
BY InitInvariant, NextInvariant, PTL DEF Spec

(***************************************************************************)
(* The builder's state has the types it is declared with; in particular    *)
(* canonicalizing and merging give networks again, and finitely many.      *)
(***************************************************************************)
THEOREM TypeCorrect == Spec => []TypeOK
<1>1. BuilderInvariant => TypeOK
  BY DEF BuilderInvariant
<1> QED
  BY <1>1, InvariantHolds, PTL

(***************************************************************************)
(* The argument of the comments in ensure_no_cross_metadata_overlap: one   *)
(* open network stands for all the visited ones.                           *)
(***************************************************************************)
THEOREM OpenNetworkStandsForAll == Spec => []SweepInvariant
<1>1. BuilderInvariant => SweepInvariant
  BY DEF BuilderInvariant
<1> QED
  BY <1>1, InvariantHolds, PTL

(***************************************************************************)
(* One socket peer leads to one policy: rules that disagree on a common    *)
(* address are never accepted.                                             *)
(***************************************************************************)
THEOREM AcceptedRulesAgree == Spec => []NoAddressHasTwoPolicies
<1>1. BuilderInvariant => NoAddressHasTwoPolicies
  BY DEF BuilderInvariant
<1> QED
  BY <1>1, InvariantHolds, PTL

(***************************************************************************)
(* Rules are refused only for a conflict, and the error names it.          *)
(***************************************************************************)
THEOREM RejectionIsJustified == Spec => []RejectionNamesARealConflict
<1>1. BuilderInvariant => RejectionNamesARealConflict
  BY DEF BuilderInvariant
<1> QED
  BY <1>1, InvariantHolds, PTL

-----------------------------------------------------------------------------
(* Merged and sorted rules.                                                 *)

(***************************************************************************)
(* Every rule has the form that rule_for looks for.                        *)
(***************************************************************************)
RulesAreCanonical == \A i \in DOMAIN rules : CanonicalCidr(rules[i].cidr) = rules[i].cidr

(***************************************************************************)
(* What merging and sorting establish for the rules of the config.  It is  *)
(* inductive next to BuilderInvariant.                                     *)
(***************************************************************************)
MergedState ==
  /\ stage \in {"choose", "setup"} => rules = <<>>
  /\ NoAddressMatchesTwoRules
  /\ stage = "built" => Apart(rules)
  /\ stage \in {"overlap", "merge", "sort", "built"} => RulesAreCanonical

\* The sweep has let the canonical rules through, so merging keeps them apart.
LEMMA MergeRulesSetsApart ==
  ASSUME BuilderInvariant, MergeRules
  PROVE  NoAddressMatchesTwoRules'
<1> USE DEF BuilderInvariant
<1>1. rules = [i \in DOMAIN added |-> Canonical(added[i])]
  BY DEF MergeRules, SweepState
<1>2. RuleSet(rules) \in SUBSET TrustedProxyRule
  BY RulesOfList DEF TypeOK, RuleSet
<1>3. \A r, s \in RuleSet(rules) : ~Conflict(r, s)
  BY <1>1 DEF MergeRules, NoAddressHasTwoPolicies, Accepted, RuleSet
<1>4. rules' \in Listings(MergedRules(RuleSet(rules)))
  BY DEF MergeRules
<1>5. ASSUME NEW i \in DOMAIN rules', NEW j \in DOMAIN rules', i # j
      PROVE  ~Overlap(rules'[i].cidr, rules'[j].cidr)
  <2>1. /\ rules'[i] \in MergedRules(RuleSet(rules))
        /\ rules'[j] \in MergedRules(RuleSet(rules))
        /\ rules'[i] # rules'[j]
    BY <1>4, <1>5 DEF Listings
  <2> QED
    BY <1>2, <1>3, <2>1, MergedRulesAreApart
<1> QED
  BY <1>5 DEF NoAddressMatchesTwoRules

\* Sorting keeps them apart, and puts them into the order of the search.
LEMMA SortRulesSetsApart ==
  ASSUME BuilderInvariant, NoAddressMatchesTwoRules, SortRules, TypeOK'
  PROVE  NoAddressMatchesTwoRules' /\ Apart(rules')
<1>1. rules' \in Listings(RuleSet(rules))
      /\ \A i, j \in DOMAIN rules' : i < j => Ascending(rules', i, j)
  BY DEF SortRules
<1>2. ASSUME NEW i \in DOMAIN rules', NEW j \in DOMAIN rules', i # j
      PROVE  ~Overlap(rules'[i].cidr, rules'[j].cidr)
  <2>1. /\ rules'[i] \in RuleSet(rules) /\ rules'[j] \in RuleSet(rules)
        /\ rules'[i] # rules'[j]
    BY <1>1, <1>2 DEF Listings
  <2>2. PICK k \in DOMAIN rules : rules[k] = rules'[i]
    BY <2>1 DEF RuleSet
  <2>3. PICK l \in DOMAIN rules : rules[l] = rules'[j]
    BY <2>1 DEF RuleSet
  <2> QED
    BY <2>1, <2>2, <2>3 DEF NoAddressMatchesTwoRules, SortRules
<1>3. ASSUME NEW i \in DOMAIN rules', NEW j \in DOMAIN rules', i < j
      PROVE  rules'[i].cidr.last < rules'[j].cidr.first
  <2>1. rules' \in Seq(TrustedProxyRule)
    BY DEF TypeOK
  <2>2. i # j
    BY <1>3, <2>1, RulesOfList
  <2>3. ~Overlap(rules'[i].cidr, rules'[j].cidr) /\ rules'[i].cidr.first < rules'[j].cidr.first
    BY <1>1, <1>2, <1>3, <2>2 DEF Ascending
  <2>4. /\ rules'[i].cidr \in IpCidr /\ rules'[j].cidr \in IpCidr
        /\ rules'[i].cidr.first \in Int /\ rules'[i].cidr.last \in Int
        /\ rules'[j].cidr.first \in Int /\ rules'[j].cidr.last \in Int
        /\ rules'[j].cidr.first <= rules'[j].cidr.last
    BY <2>1, RulesOfList
  <2>5. ~(/\ rules'[i].cidr.first <= rules'[j].cidr.last
          /\ rules'[j].cidr.first <= rules'[i].cidr.last)
    BY <2>3, <2>4, OverlapOfIntervals
  <2> QED
    BY <2>3, <2>4, <2>5
<1> QED
  BY <1>2, <1>3 DEF NoAddressMatchesTwoRules, Apart

\* The rules that were added are canonicalized, merged and sorted in turn.
LEMMA BuildKeepsRulesCanonical ==
  ASSUME TypeOK, Build
  PROVE  RulesAreCanonical'
<1>1. rules' = [i \in DOMAIN added |-> Canonical(added[i])]
  BY DEF Build
<1>2. ASSUME NEW i \in DOMAIN rules'
      PROVE  CanonicalCidr(rules'[i].cidr) = rules'[i].cidr
  <2>1. added[i] \in TrustedProxyRule
    BY <1>1, <1>2, RulesOfList DEF TypeOK
  <2>2. Canonical(added[i]).cidr = CanonicalCidr(added[i].cidr)
    BY <2>1 DEF Canonical, TrustedProxyRule
  <2> QED
    BY <1>1, <1>2, <2>1, <2>2, RuleParts, CanonicalCidrIsCanonical
<1> QED
  BY <1>2 DEF RulesAreCanonical

LEMMA MergeRulesKeepsRulesCanonical ==
  ASSUME TypeOK, RulesAreCanonical, MergeRules
  PROVE  RulesAreCanonical'
<1>1. RuleSet(rules) \in SUBSET TrustedProxyRule
  BY RulesOfList DEF TypeOK, RuleSet
<1>2. \A r \in RuleSet(rules) : CanonicalCidr(r.cidr) = r.cidr
  BY DEF RulesAreCanonical, RuleSet
<1>3. \A i \in DOMAIN rules' : rules'[i] \in MergedRules(RuleSet(rules))
  BY DEF MergeRules, Listings
<1> QED
  BY <1>1, <1>2, <1>3, MergedRuleIsCanonical DEF RulesAreCanonical

LEMMA SortRulesKeepsRulesCanonical ==
  ASSUME RulesAreCanonical, SortRules
  PROVE  RulesAreCanonical'
<1>1. \A i \in DOMAIN rules' : rules'[i] \in RuleSet(rules)
  BY DEF SortRules, Listings
<1> QED
  BY <1>1 DEF RulesAreCanonical, RuleSet

LEMMA NextMergedState ==
  ASSUME BuilderInvariant, BuilderInvariant', MergedState, [Next]_vars
  PROVE  MergedState'
<1> USE DEF MergedState
<1>1. CASE Choose \/ Configure \/ BuildTrustAll
  <2>1. rules' = rules /\ rules = <<>>
    BY <1>1 DEF Choose, TrustNoProxy, TrustedProxies, TrustAllProxies, Configure, ProxyRule,
                Proxies, SetChainHeaderOrder, SetClientIpHeader, SetChainIpSelection,
                BuildTrustAll
  <2>2. DOMAIN rules' = {}
    BY <2>1
  <2> QED
    BY <2>1, <2>2 DEF NoAddressMatchesTwoRules, Apart, RulesAreCanonical
<1>2. CASE Build
  BY <1>2, BuildKeepsRulesCanonical DEF Build, NoAddressMatchesTwoRules, BuilderInvariant
<1>3. CASE BuildStep
  <2>1. ASSUME NEW i \in DOMAIN rules, SweepStep(i) PROVE MergedState'
    BY <2>1 DEF SweepStep, StayOpen, Clash, OpenNext, NoAddressMatchesTwoRules,
                RulesAreCanonical
  <2>2. CASE SweepDone
    BY <2>2 DEF SweepDone, NoAddressMatchesTwoRules, RulesAreCanonical
  <2>3. CASE MergeRules
    BY <2>3, MergeRulesSetsApart, MergeRulesKeepsRulesCanonical DEF MergeRules, BuilderInvariant
  <2>4. CASE SortRules
    BY <2>4, SortRulesSetsApart, SortRulesKeepsRulesCanonical DEF SortRules, BuilderInvariant
  <2> QED
    BY <1>3, <2>1, <2>2, <2>3, <2>4 DEF BuildStep
<1>4. CASE Finished \/ UNCHANGED vars
  BY <1>4 DEF Finished, vars, NoAddressMatchesTwoRules, Apart, RulesAreCanonical
<1> QED
  BY <1>1, <1>2, <1>3, <1>4 DEF Next

LEMMA MergedStateHolds == Spec => []MergedState
<1>1. Init => MergedState
  BY DEF Init, MergedState, NoAddressMatchesTwoRules, RulesAreCanonical
<1>2. BuilderInvariant /\ BuilderInvariant' /\ MergedState /\ [Next]_vars => MergedState'
  BY NextMergedState
<1> QED
  BY <1>1, <1>2, InvariantHolds, PTL DEF Spec

(***************************************************************************)
(* The rules of a config never overlap: the debug_assert of build() cannot *)
(* fail, whatever the order of the HashMap.                                *)
(***************************************************************************)
THEOREM MergedRulesShareNoAddress == Spec => []NoAddressMatchesTwoRules
<1>1. MergedState => NoAddressMatchesTwoRules
  BY DEF MergedState
<1> QED
  BY <1>1, MergedStateHolds, PTL

(***************************************************************************)
(* The binary search in a config that was built finds what a scan of all   *)
(* its rules would find.                                                   *)
(***************************************************************************)
THEOREM LookupFindsWhatAScanFinds == Spec => []LookupIsExhaustive
<1>1. BuilderInvariant /\ MergedState => LookupIsExhaustive
  BY LookupFindsTheRule DEF BuilderInvariant, TypeOK, MergedState, LookupIsExhaustive, None
<1> QED
  BY <1>1, InvariantHolds, MergedStateHolds, PTL

(***************************************************************************)
(* Every config that is built has the rules that resolution counts on:     *)
(* canonical, in address order, and sharing no address.                    *)
(***************************************************************************)
THEOREM BuiltRulesAreLookedUp == Spec => []BuiltRulesAreCanonical
<1>1. BuilderInvariant /\ MergedState => BuiltRulesAreCanonical
  BY DEF BuilderInvariant, TypeOK, MergedState, RulesAreCanonical, BuiltRulesAreCanonical,
         BuiltRules
<1> QED
  BY <1>1, InvariantHolds, MergedStateHolds, PTL

-----------------------------------------------------------------------------
(* The builder implements TrustPolicy.                                      *)

(***************************************************************************)
(* What merging and sorting keep: the addresses that the rules of the      *)
(* config are found for, and the headers, are those of the rules as they   *)
(* were added.  Rules are added under one trust model only.                *)
(***************************************************************************)
GrantState ==
  /\ stage = "choose" => trust = "Unset"
  /\ stage \in {"overlap", "merge", "sort", "rejected"} => trust = "TrustedProxies"
  /\ trust # "TrustedProxies" => added = <<>>
  /\ stage = "sort" \/ (stage = "built" /\ trust = "TrustedProxies") =>
       GrantedBy(RuleSet(rules)) = GrantsOf(RuleSet(added))

\* Canonicalizing a list of rules does not change what they mean.
LEMMA CanonicalRulesGrant ==
  ASSUME NEW list \in Seq(TrustedProxyRule)
  PROVE  GrantedBy(RuleSet([i \in DOMAIN list |-> Canonical(list[i])]))
           = GrantsOf(RuleSet(list))
<1> DEFINE forms == [i \in DOMAIN list |-> Canonical(list[i])]
<1>1. \A i \in DOMAIN list : /\ list[i] \in TrustedProxyRule /\ list[i].cidr \in IpCidr
                             /\ list[i].metadata \in Metadata
  BY RulesOfList, RuleParts
<1>2. \A i \in DOMAIN list : /\ forms[i].cidr = CanonicalCidr(list[i].cidr)
                             /\ forms[i].metadata = list[i].metadata
  BY <1>1 DEF Canonical, TrustedProxyRule
<1>3. DOMAIN forms = DOMAIN list
  OBVIOUS
<1> HIDE DEF forms
<1>4. ASSUME NEW ip \in IpAddr, NEW m \in Metadata,
             <<ip, m>> \in GrantedBy(RuleSet(forms))
      PROVE  <<ip, m>> \in GrantsOf(RuleSet(list))
  <2>1. PICK i \in DOMAIN list : forms[i].metadata = m /\ Contains(forms[i].cidr, ip)
    BY <1>3, <1>4 DEF GrantedBy, RuleSet
  <2>2. ~IsMapped(ip)
    BY <1>4 DEF GrantedBy
  <2>3. ip \in Addresses(list[i].cidr) /\ list[i].metadata = m
    BY <1>1, <1>2, <2>1, <2>2, AddressesOfNetwork
  <2>4. <<ip, m>> \in Addresses(list[i].cidr) \X {list[i].metadata} /\ list[i] \in RuleSet(list)
    BY <2>3 DEF RuleSet
  <2> QED
    BY <2>4 DEF GrantsOf
<1>5. ASSUME NEW i \in DOMAIN list, NEW p \in Addresses(list[i].cidr) \X {list[i].metadata}
      PROVE  p \in GrantedBy(RuleSet(forms))
  <2>1. PICK ip \in Addresses(list[i].cidr) : p = <<ip, list[i].metadata>>
    OBVIOUS
  <2>2. ip \in IpAddr /\ ~IsMapped(ip)
    BY AddressesAreCanonical
  <2>3. Contains(forms[i].cidr, ip)
    BY <1>1, <1>2, <2>2, AddressesOfNetwork
  <2>4. forms[i] \in RuleSet(forms)
    BY <1>3 DEF RuleSet
  <2> QED
    BY <1>1, <1>2, <2>1, <2>2, <2>3, <2>4 DEF GrantedBy
<1>6. GrantedBy(RuleSet(forms)) \subseteq GrantsOf(RuleSet(list))
  BY <1>4 DEF GrantedBy
<1>7. GrantsOf(RuleSet(list)) \subseteq GrantedBy(RuleSet(forms))
  BY <1>5 DEF GrantsOf, RuleSet
<1> QED
  BY <1>6, <1>7 DEF forms

LEMMA MergeRulesKeepsGrants ==
  ASSUME BuilderInvariant, MergeRules
  PROVE  GrantedBy(RuleSet(rules')) = GrantsOf(RuleSet(added))
<1>1. rules \in Seq(TrustedProxyRule) /\ added \in Seq(TrustedProxyRule)
  BY DEF BuilderInvariant, TypeOK
<1>2. rules = [i \in DOMAIN added |-> Canonical(added[i])]
  BY DEF BuilderInvariant, SweepState, MergeRules
<1>3. RuleSet(rules) \in SUBSET TrustedProxyRule
  BY <1>1, RulesOfList DEF RuleSet
<1>4. GrantedBy(MergedRules(RuleSet(rules))) = GrantedBy(RuleSet(rules))
  BY <1>3, MergingKeepsGrants
<1>5. IsFiniteSet(MergedRules(RuleSet(rules)))
  BY <1>1, MergedRulesAreFinite
<1>6. rules' \in Listings(MergedRules(RuleSet(rules)))
  BY DEF MergeRules
<1>7. RuleSet(rules') = MergedRules(RuleSet(rules))
  BY <1>5, <1>6, ListingIsComplete DEF Listings
<1>8. GrantedBy(RuleSet(rules)) = GrantsOf(RuleSet(added))
  BY <1>1, <1>2, CanonicalRulesGrant
<1> QED
  BY <1>4, <1>7, <1>8

LEMMA SortRulesKeepsRules ==
  ASSUME TypeOK, SortRules
  PROVE  RuleSet(rules') = RuleSet(rules)
<1>1. IsFiniteSet(RuleSet(rules))
  BY RulesOfListAreFinite DEF TypeOK
<1>2. rules' \in Listings(RuleSet(rules))
  BY DEF SortRules
<1> QED
  BY <1>1, <1>2, ListingIsComplete DEF Listings

LEMMA NextGrantState ==
  ASSUME BuilderInvariant, GrantState, [Next]_vars
  PROVE  GrantState'
<1> USE DEF GrantState
<1>1. CASE Choose
  BY <1>1 DEF Choose, TrustNoProxy, TrustedProxies, TrustAllProxies
<1>2. CASE Configure
  BY <1>2 DEF Configure, ProxyRule, Proxies, SetChainHeaderOrder, SetClientIpHeader,
              SetChainIpSelection
<1>3. CASE BuildTrustAll
  BY <1>3 DEF BuildTrustAll
<1>4. CASE Build
  BY <1>4 DEF Build
<1>5. CASE BuildStep
  <2>1. ASSUME NEW i \in DOMAIN rules, SweepStep(i) PROVE GrantState'
    BY <2>1 DEF SweepStep, StayOpen, Clash, OpenNext
  <2>2. CASE SweepDone
    BY <2>2 DEF SweepDone
  <2>3. CASE MergeRules
    <3>1. GrantedBy(RuleSet(rules')) = GrantsOf(RuleSet(added))
      BY <2>3, MergeRulesKeepsGrants
    <3> QED
      BY <2>3, <3>1 DEF MergeRules
  <2>4. CASE SortRules
    <3>1. RuleSet(rules') = RuleSet(rules)
      BY <2>4, SortRulesKeepsRules DEF BuilderInvariant
    <3> QED
      BY <2>4, <3>1 DEF SortRules
  <2> QED
    BY <1>5, <2>1, <2>2, <2>3, <2>4 DEF BuildStep
<1>6. CASE Finished \/ UNCHANGED vars
  BY <1>6 DEF Finished, vars
<1> QED
  BY <1>1, <1>2, <1>3, <1>4, <1>5, <1>6 DEF Next

LEMMA GrantStateHolds == Spec => []GrantState
<1>1. Init => GrantState
  BY DEF Init, GrantState
<1> QED
  BY <1>1, NextGrantState, InvariantHolds, PTL DEF Spec

-----------------------------------------------------------------------------
(* The abstract state, and the abstract steps in terms of it.               *)

Verdict == CASE stage = "built" -> "accepted"
             [] stage = "rejected" -> "refused"
             [] OTHER -> "open"

Grants == IF stage = "built"
            THEN UNION {{CanonicalIp(ip)} \X TrustedBy(ip) : ip \in IpAddr}
            ELSE GrantsOf(RuleSet(added))

OnePolicy(grants) == \A p, q \in grants : p[1] = q[1] => p[2] = q[2]

Asked == {{r} : r \in RuleChoices} \cup {RuleSet(b) : b \in Batches}

LEMMA SamePolicyStart == Contract!Init <=> Grants = {} /\ Verdict = "open"
BY DEF Contract!Init, Grants, Verdict

LEMMA SameMeaning == \A set : Contract!GrantsOf(set) = GrantsOf(set)
BY DEF Contract!GrantsOf, Contract!Addresses, Contract!CanonicalIp, Contract!IsMapped,
       Contract!MappedFirst, Contract!IpAddr, Contract!Contains, Contract!WhollyMapped,
       GrantsOf, Addresses, CanonicalIp, IsMapped, MappedFirst, IpAddr, Contains, WhollyMapped

LEMMA SameSpace ==
  /\ Contract!Metadata = Metadata
  /\ {Contract!CanonicalIp(ip) : ip \in Contract!IpAddr} = {CanonicalIp(ip) : ip \in IpAddr}
BY DEF Contract!Metadata, Contract!CanonicalIp, Contract!IsMapped, Contract!MappedFirst,
       Contract!IpAddr, Metadata, CanonicalIp, IsMapped, MappedFirst, IpAddr

LEMMA GrantIsAStep ==
  ASSUME NEW request \in Asked, Verdict = "open", Verdict' = Verdict,
         Grants' = Grants \cup GrantsOf(request)
  PROVE  Contract!Next
<1>1. Contract!Grant(request)
  BY SameMeaning DEF Contract!Grant, Grants, Verdict
<1> QED
  BY <1>1 DEF Contract!Next, Asked

LEMMA GrantEveryoneIsAStep ==
  ASSUME NEW header \in Metadata, Verdict = "open", Verdict' = "accepted", Grants = {},
         Grants' = {CanonicalIp(ip) : ip \in IpAddr} \X {header}
  PROVE  Contract!Next
<1>1. Contract!GrantEveryone(header)
  BY SameSpace DEF Contract!GrantEveryone, Grants, Verdict
<1> QED
  BY <1>1, SameSpace DEF Contract!Next

LEMMA AcceptIsAStep ==
  ASSUME Verdict = "open", Verdict' = "accepted", Grants' = Grants, OnePolicy(Grants)
  PROVE  Contract!Next
<1>1. Contract!Accept
  BY DEF Contract!Accept, Contract!OnePolicyPerAddress, OnePolicy, Grants, Verdict
<1> QED
  BY <1>1 DEF Contract!Next

LEMMA RefuseIsAStep ==
  ASSUME Verdict = "open", Verdict' = "refused", Grants' = Grants, ~OnePolicy(Grants)
  PROVE  Contract!Next
<1>1. Contract!Refuse
  BY DEF Contract!Refuse, Contract!OnePolicyPerAddress, OnePolicy, Grants, Verdict
<1> QED
  BY <1>1 DEF Contract!Next

LEMMA NothingIsAStutter ==
  ASSUME Verdict' = Verdict, Grants' = Grants
  PROVE  UNCHANGED Contract!policy
BY DEF Contract!policy, Grants, Verdict

-----------------------------------------------------------------------------
(* Conflicts, and what is granted.                                          *)

LEMMA GrantsAddUp ==
  \A a, b : GrantsOf(a \cup b) = GrantsOf(a) \cup GrantsOf(b)
BY DEF GrantsOf

LEMMA RulesAddUp ==
  ASSUME NEW list \in Seq(TrustedProxyRule)
  PROVE  /\ \A rule \in TrustedProxyRule : RuleSet(Append(list, rule)) = RuleSet(list) \cup {rule}
         /\ \A batch \in Seq(TrustedProxyRule) :
              RuleSet(list \o batch) = RuleSet(list) \cup RuleSet(batch)
<1>1. Len(list) \in Nat /\ DOMAIN list = 1 .. Len(list)
  BY LenProperties
<1>2. ASSUME NEW rule \in TrustedProxyRule
      PROVE  RuleSet(Append(list, rule)) = RuleSet(list) \cup {rule}
  <2> DEFINE longer == Append(list, rule)
  <2>1. /\ DOMAIN longer = 1 .. Len(list) + 1
        /\ \A i \in 1 .. Len(list) : longer[i] = list[i]
        /\ longer[Len(list) + 1] = rule
    BY <1>1, AppendProperties
  <2> HIDE DEF longer
  <2> QED
    BY <1>1, <2>1 DEF RuleSet, longer
<1>3. ASSUME NEW batch \in Seq(TrustedProxyRule)
      PROVE  RuleSet(list \o batch) = RuleSet(list) \cup RuleSet(batch)
  <2> DEFINE longer == list \o batch
  <2>1. Len(batch) \in Nat /\ DOMAIN batch = 1 .. Len(batch)
    BY LenProperties
  <2>2. /\ DOMAIN longer = 1 .. Len(list) + Len(batch)
        /\ \A i \in 1 .. Len(list) + Len(batch) :
             longer[i] = IF i <= Len(list) THEN list[i] ELSE batch[i - Len(list)]
    BY <1>1, <2>1, ConcatProperties, LenProperties
  <2> HIDE DEF longer
  <2>3. ASSUME NEW i \in DOMAIN batch PROVE batch[i] \in RuleSet(longer)
    <3>1. PICK k : k = i + Len(list)
      OBVIOUS
    <3>2. k \in DOMAIN longer /\ longer[k] = batch[i]
      BY <1>1, <2>1, <2>2, <3>1
    <3> QED
      BY <3>2 DEF RuleSet
  <2>4. ASSUME NEW i \in DOMAIN list PROVE list[i] \in RuleSet(longer)
    <3>1. i \in DOMAIN longer /\ longer[i] = list[i]
      BY <1>1, <2>1, <2>2
    <3> QED
      BY <3>1 DEF RuleSet
  <2>5. ASSUME NEW k \in DOMAIN longer PROVE longer[k] \in RuleSet(list) \cup RuleSet(batch)
    <3>1. CASE k <= Len(list)
      <4>1. k \in DOMAIN list /\ longer[k] = list[k]
        BY <1>1, <2>1, <2>2, <3>1
      <4> QED
        BY <4>1 DEF RuleSet
    <3>2. CASE ~(k <= Len(list))
      <4>1. k - Len(list) \in DOMAIN batch /\ longer[k] = batch[k - Len(list)]
        BY <1>1, <2>1, <2>2, <3>2
      <4> QED
        BY <4>1 DEF RuleSet
    <3> QED
      BY <3>1, <3>2
  <2> QED
    BY <2>3, <2>4, <2>5 DEF RuleSet, longer
<1> QED
  BY <1>2, <1>3

\* Rules that agree in their canonical form grant one policy per address.
LEMMA AgreementIsOnePolicy ==
  ASSUME NEW list \in Seq(TrustedProxyRule),
         \A i, j \in DOMAIN list : ~Conflict(Canonical(list[i]), Canonical(list[j]))
  PROVE  OnePolicy(GrantsOf(RuleSet(list)))
<1> DEFINE forms == [i \in DOMAIN list |-> Canonical(list[i])]
<1>1. GrantsOf(RuleSet(list)) = GrantedBy(RuleSet(forms))
  BY CanonicalRulesGrant
<1>2. \A r, s \in RuleSet(forms) : ~Conflict(r, s)
  BY DEF RuleSet
<1> HIDE DEF forms
<1>3. ASSUME NEW p \in GrantedBy(RuleSet(forms)), NEW q \in GrantedBy(RuleSet(forms)),
             p[1] = q[1]
      PROVE  p[2] = q[2]
  <2>1. PICK r \in RuleSet(forms) : r.metadata = p[2] /\ Contains(r.cidr, p[1])
    BY DEF GrantedBy
  <2>2. PICK s \in RuleSet(forms) : s.metadata = q[2] /\ Contains(s.cidr, q[1])
    BY DEF GrantedBy
  <2>3. p[1] \in IpAddr
    BY DEF GrantedBy
  <2> QED
    BY <1>2, <1>3, <2>1, <2>2, <2>3 DEF Conflict, Overlap
<1> QED
  BY <1>1, <1>3 DEF OnePolicy

\* Two rules in conflict give one canonical address two policies.
LEMMA ConflictIsTwoPolicies ==
  ASSUME NEW list \in Seq(TrustedProxyRule), NEW i \in DOMAIN list, NEW j \in DOMAIN list,
         Conflict(Canonical(list[i]), Canonical(list[j]))
  PROVE  ~OnePolicy(GrantsOf(RuleSet(list)))
<1> DEFINE forms == [k \in DOMAIN list |-> Canonical(list[k])]
<1>1. GrantsOf(RuleSet(list)) = GrantedBy(RuleSet(forms))
  BY CanonicalRulesGrant
<1>2. forms[i] \in RuleSet(forms) /\ forms[j] \in RuleSet(forms) /\ Conflict(forms[i], forms[j])
  BY DEF RuleSet
<1>3. \A k \in DOMAIN list : /\ list[k] \in TrustedProxyRule /\ list[k].cidr \in IpCidr
                             /\ list[k].metadata \in Metadata
  BY RulesOfList, RuleParts
<1>4. \A k \in DOMAIN list : /\ forms[k].cidr = CanonicalCidr(list[k].cidr)
                             /\ forms[k].metadata = list[k].metadata
  BY <1>3 DEF Canonical, TrustedProxyRule
<1> HIDE DEF forms
<1>5. \A k \in DOMAIN list : /\ forms[k].cidr \in IpCidr
                             /\ CanonicalCidr(forms[k].cidr) = forms[k].cidr
                             /\ forms[k].metadata \in Metadata
  BY <1>3, <1>4, CanonicalCidrIsNetwork, CanonicalCidrIsCanonical
<1>6. Overlap(forms[i].cidr, forms[j].cidr) /\ forms[i].metadata # forms[j].metadata
  BY <1>2 DEF Conflict
<1>7. PICK ip \in IpAddr :
        ~IsMapped(ip) /\ Contains(forms[i].cidr, ip) /\ Contains(forms[j].cidr, ip)
  BY <1>5, <1>6, CanonicalNetworksMeet
<1>8. /\ <<ip, forms[i].metadata>> \in GrantedBy(RuleSet(forms))
      /\ <<ip, forms[j].metadata>> \in GrantedBy(RuleSet(forms))
  BY <1>2, <1>5, <1>7 DEF GrantedBy
<1> QED
  BY <1>1, <1>6, <1>8 DEF OnePolicy

-----------------------------------------------------------------------------
(* Each step of the builder is a step of the policy, or none.               *)

LEMMA NothingIsGranted == RuleSet(<<>>) = {} /\ GrantsOf({}) = {} /\ OnePolicy({})
<1>1. DOMAIN <<>> = {}
  OBVIOUS
<1> QED
  BY <1>1 DEF RuleSet, GrantsOf, OnePolicy

LEMMA InitIsContracted == Init => Contract!Init
<1> SUFFICES ASSUME Init PROVE Contract!Init
  OBVIOUS
<1>1. Verdict = "open" /\ Grants = {}
  BY NothingIsGranted DEF Init, Verdict, Grants
<1> QED
  BY <1>1, SamePolicyStart

\* As long as build() has not answered, the grants are those of the added rules.
LEMMA OpenKeepsQuiet ==
  ASSUME stage \notin {"built", "rejected"}, stage' \notin {"built", "rejected"}, added' = added
  PROVE  UNCHANGED Contract!policy
<1>1. Verdict = "open" /\ Verdict' = "open" /\ Grants' = Grants
  BY DEF Verdict, Grants
<1> QED
  BY <1>1, NothingIsAStutter

LEMMA ChooseIsContracted ==
  ASSUME GrantState, Choose
  PROVE  [Contract!Next]_(Contract!policy)
<1>1. CASE TrustNoProxy
  <2>1. added = <<>> /\ stage = "choose" /\ stage' = "built" /\ trust' = "NoProxy"
    BY <1>1 DEF GrantState, TrustNoProxy
  <2>2. Verdict = "open" /\ Verdict' = "accepted" /\ Grants = {}
    BY <2>1, NothingIsGranted DEF Verdict, Grants
  <2>3. \A ip : TrustedBy(ip)' = {}
    BY <2>1 DEF TrustedBy
  <2>4. Grants' = {}
    BY <2>1, <2>3 DEF Grants
  <2> QED
    BY <2>2, <2>4, NothingIsGranted, AcceptIsAStep
<1>2. CASE TrustedProxies \/ TrustAllProxies
  BY <1>2, OpenKeepsQuiet DEF TrustedProxies, TrustAllProxies
<1> QED
  BY <1>1, <1>2 DEF Choose

LEMMA ConfigureIsContracted ==
  ASSUME TypeOK, Configure
  PROVE  [Contract!Next]_(Contract!policy)
<1>1. added \in Seq(TrustedProxyRule)
  BY DEF TypeOK
<1>2. ASSUME NEW request \in Asked, stage = "setup", stage' = "setup",
             RuleSet(added') = RuleSet(added) \cup request
      PROVE  Contract!Next
  <2>1. Verdict = "open" /\ Verdict' = Verdict
    BY <1>2 DEF Verdict
  <2>2. Grants' = Grants \cup GrantsOf(request)
    BY <1>2, GrantsAddUp DEF Grants
  <2> QED
    BY <2>1, <2>2, GrantIsAStep
<1>3. ASSUME NEW rule \in RuleChoices, ProxyRule(rule) PROVE Contract!Next
  <2>1. rule \in TrustedProxyRule
    BY BuilderAssumption
  <2>2. RuleSet(added') = RuleSet(added) \cup {rule}
    BY <1>1, <1>3, <2>1, RulesAddUp DEF ProxyRule
  <2> QED
    BY <1>2, <1>3, <2>2 DEF ProxyRule, Asked
<1>4. ASSUME NEW batch \in Batches, Proxies(batch) PROVE Contract!Next
  <2>1. batch \in Seq(TrustedProxyRule)
    BY BuilderAssumption, SeqMonotonic
  <2>2. RuleSet(added') = RuleSet(added) \cup RuleSet(batch)
    BY <1>1, <1>4, <2>1, RulesAddUp DEF Proxies
  <2> QED
    BY <1>2, <1>4, <2>2 DEF Proxies, Asked
<1>5. ASSUME NEW order \in ChainHeaderOrders, SetChainHeaderOrder(order)
      PROVE  UNCHANGED Contract!policy
  BY <1>5, OpenKeepsQuiet DEF SetChainHeaderOrder
<1>6. ASSUME NEW header \in HeaderName, SetClientIpHeader(header)
      PROVE  UNCHANGED Contract!policy
  BY <1>6, OpenKeepsQuiet DEF SetClientIpHeader
<1>7. ASSUME NEW selection \in Selections, SetChainIpSelection(selection)
      PROVE  UNCHANGED Contract!policy
  BY <1>7, OpenKeepsQuiet DEF SetChainIpSelection
<1> QED
  BY <1>3, <1>4, <1>5, <1>6, <1>7 DEF Configure

LEMMA BuildTrustAllIsContracted ==
  ASSUME TypeOK, GrantState, BuildTrustAll
  PROVE  [Contract!Next]_(Contract!policy)
<1>1. /\ stage = "setup" /\ stage' = "built" /\ added = <<>>
      /\ trust' = "TrustAllProxies" /\ client_ip_header' = client_ip_header
  BY DEF BuildTrustAll, GrantState, settings
<1>2. Verdict = "open" /\ Verdict' = "accepted" /\ Grants = {}
  BY <1>1, NothingIsGranted DEF Verdict, Grants
<1>3. \A ip : TrustedBy(ip)' = {client_ip_header}
  BY <1>1 DEF TrustedBy
<1>4. Grants' = UNION {{CanonicalIp(ip)} \X {client_ip_header} : ip \in IpAddr}
  BY <1>1, <1>3 DEF Grants
<1>5. Grants' = {CanonicalIp(ip) : ip \in IpAddr} \X {client_ip_header}
  BY <1>4
<1>6. client_ip_header \in Metadata
  BY DEF TypeOK
<1> QED
  BY <1>2, <1>5, <1>6, GrantEveryoneIsAStep

\* The sweep refuses what gives one address two policies.
LEMMA ClashIsContracted ==
  ASSUME BuilderInvariant, BuilderInvariant', NEW i \in DOMAIN rules, Clash(i)
  PROVE  [Contract!Next]_(Contract!policy)
<1>1. stage = "overlap" /\ stage' = "rejected" /\ added' = added
  BY DEF Clash
<1>2. Verdict = "open" /\ Verdict' = "refused" /\ Grants' = Grants
  BY <1>1 DEF Verdict, Grants
<1>3. /\ conflict'.left \in DOMAIN added /\ conflict'.right \in DOMAIN added
      /\ Conflict(Canonical(added[conflict'.left]), Canonical(added[conflict'.right]))
  BY <1>1 DEF BuilderInvariant, RejectionNamesARealConflict
<1>4. ~OnePolicy(GrantsOf(RuleSet(added)))
  BY <1>3, ConflictIsTwoPolicies DEF BuilderInvariant, TypeOK
<1>5. ~OnePolicy(Grants)
  BY <1>1, <1>4 DEF Grants
<1> QED
  BY <1>2, <1>5, RefuseIsAStep

\* Sorting finishes a config that grants what the added rules mean.
LEMMA SortRulesIsContracted ==
  ASSUME BuilderInvariant, BuilderInvariant', MergedState', GrantState, GrantState', SortRules
  PROVE  [Contract!Next]_(Contract!policy)
<1>1. /\ stage = "sort" /\ stage' = "built" /\ added' = added
      /\ trust = "TrustedProxies" /\ trust' = "TrustedProxies"
  BY DEF SortRules, GrantState
<1>2. Verdict = "open" /\ Verdict' = "accepted"
  BY <1>1 DEF Verdict
<1>3. rules' \in Seq(TrustedProxyRule) /\ Apart(rules')
  BY <1>1 DEF BuilderInvariant, TypeOK, MergedState
<1>4. \A ip : TrustedBy(ip)' = FoundBy(rules', ip)
  BY <1>1 DEF TrustedBy, FoundBy, None
<1>5. Grants' = UNION {{CanonicalIp(ip)} \X FoundBy(rules', ip) : ip \in IpAddr}
  BY <1>1, <1>4 DEF Grants
<1>6. Grants' = GrantedBy(RuleSet(rules'))
  BY <1>3, <1>5, LookupFindsWhatIsGranted
<1>7. GrantedBy(RuleSet(rules')) = GrantsOf(RuleSet(added))
  BY <1>1 DEF GrantState
<1>8. Grants = GrantsOf(RuleSet(added))
  BY <1>1 DEF Grants
<1>9. OnePolicy(Grants)
  <2>1. \A j, k \in DOMAIN added : ~Conflict(Canonical(added[j]), Canonical(added[k]))
    BY <1>1 DEF BuilderInvariant, NoAddressHasTwoPolicies, Accepted
  <2> QED
    BY <1>8, <2>1, AgreementIsOnePolicy DEF BuilderInvariant, TypeOK
<1> QED
  BY <1>2, <1>6, <1>7, <1>8, <1>9, AcceptIsAStep

LEMMA StepsAreContracted ==
  ASSUME BuilderInvariant, BuilderInvariant', MergedState', GrantState, GrantState', [Next]_vars
  PROVE  [Contract!Next]_(Contract!policy)
<1>1. CASE Choose
  BY <1>1, ChooseIsContracted
<1>2. CASE Configure
  BY <1>2, ConfigureIsContracted DEF BuilderInvariant
<1>3. CASE BuildTrustAll
  BY <1>3, BuildTrustAllIsContracted DEF BuilderInvariant
<1>4. CASE Build
  BY <1>4, OpenKeepsQuiet DEF Build
<1>5. CASE BuildStep
  <2>1. ASSUME NEW i \in DOMAIN rules, SweepStep(i)
        PROVE  [Contract!Next]_(Contract!policy)
    <3>1. CASE StayOpen(i) \/ OpenNext(i)
      BY <3>1, OpenKeepsQuiet DEF StayOpen, OpenNext
    <3>2. CASE Clash(i)
      BY <3>2, ClashIsContracted
    <3> QED
      BY <2>1, <3>1, <3>2 DEF SweepStep
  <2>2. CASE SweepDone \/ MergeRules
    BY <2>2, OpenKeepsQuiet DEF SweepDone, MergeRules
  <2>3. CASE SortRules
    BY <2>3, SortRulesIsContracted
  <2> QED
    BY <1>5, <2>1, <2>2, <2>3 DEF BuildStep
<1>6. CASE Finished \/ UNCHANGED vars
  <2>1. UNCHANGED vars
    BY <1>6 DEF Finished
  <2>2. Verdict' = Verdict /\ Grants' = Grants
    BY <2>1 DEF vars, settings, Verdict, Grants, TrustedBy
  <2> QED
    BY <2>2, NothingIsAStutter
<1> QED
  BY <1>1, <1>2, <1>3, <1>4, <1>5, <1>6 DEF Next

(***************************************************************************)
(* Whatever rules are added, in whatever order and notation, and whatever  *)
(* the order of the HashMap: build() accepts them exactly if they give no  *)
(* address two policies, and the config it returns finds for each address  *)
(* what the rules said of it as they were added.                           *)
(***************************************************************************)
THEOREM BuilderKeepsItsPromise == Spec => ImplementsTrustPolicy
<1>1. Init => Contract!Init
  BY InitIsContracted
<1>2. BuilderInvariant /\ BuilderInvariant' /\ MergedState' /\ GrantState /\ GrantState'
        /\ [Next]_vars => [Contract!Next]_(Contract!policy)
  BY StepsAreContracted
<1> QED
  BY <1>1, <1>2, InvariantHolds, MergedStateHolds, GrantStateHolds, PTL
  DEF Spec, ImplementsTrustPolicy, Contract!Spec

=============================================================================
