----------------------- MODULE ClientIpConfigBuilder -----------------------
(***************************************************************************)
(* Building a ClientIpConfig (src/config.rs): the trust model is chosen,   *)
(* the builder of that model collects its settings, and build() turns them *)
(* into an immutable config or, for trusted proxies, into an error.        *)
(*                                                                         *)
(* TrustedProxiesBuilder::build is taken apart into its passes, because    *)
(* they lean on each other: rules are canonicalized, swept in address      *)
(* order for two policies on one address, merged per client IP header in   *)
(* the undefined order of a HashMap, and sorted for the binary search of   *)
(* rule_for.  The sweep visits one rule per step.                          *)
(***************************************************************************)
EXTENDS TrustedProxyRules

CONSTANTS
  RuleChoices,        \* rules an application may add
  Batches,            \* lists of rules it may add with one call of proxies()
  MaxRules,           \* bound on the number of rules
  ChainHeaderOrders,  \* chain header orders it may ask for
  DefaultOrder,       \* default_chain_header_order()
  Selections,         \* values of TrustAllChainIpSelection
  Rightmost           \* its default

\* disable_chain_headers() asks for the empty order.
ASSUME BuilderAssumption ==
  /\ RuleChoices \subseteq TrustedProxyRule
  /\ Batches \subseteq Seq(RuleChoices)
  /\ MaxRules \in Nat
  /\ DefaultOrder \in ChainHeaderOrders
  /\ <<>> \in ChainHeaderOrders
  /\ Rightmost \in Selections

VARIABLES
  stage,               \* what the builder, or the build, is doing
  trust,               \* the trust model chosen
  added,               \* rules of the TrustedProxiesBuilder, as given
  rules,               \* rules that build() works on and leaves in the config
  pending,             \* rules the sweep has not visited
  open,                \* the widest network still open in the sweep, or None
  conflict,            \* left and right of OverlappingTrustedProxyRules
  chain_header_order,  \* of either builder, then of the config
  client_ip_header,    \* of TrustAllProxyMode
  chain_ip_selection   \* of TrustAllProxyMode

settings == <<chain_header_order, client_ip_header, chain_ip_selection>>
sweep    == <<pending, open, conflict>>
vars     == <<stage, trust, added, rules, sweep, settings>>

None       == 0
NoConflict == [left |-> None, right |-> None]

TypeOK ==
  /\ stage \in {"choose", "setup", "overlap", "merge", "sort", "built", "rejected"}
  /\ trust \in {"Unset", "NoProxy", "TrustedProxies", "TrustAllProxies"}
  /\ added \in Seq(TrustedProxyRule)
  /\ rules \in Seq(TrustedProxyRule)
  /\ pending \subseteq DOMAIN rules
  /\ open \in DOMAIN rules \cup {None}
  /\ conflict \in [left : Nat, right : Nat]
  /\ chain_header_order \in ChainHeaderOrders
  /\ client_ip_header \in Metadata
  /\ chain_ip_selection \in Selections

Init ==
  /\ stage = "choose"
  /\ trust = "Unset"
  /\ added = <<>>
  /\ rules = <<>>
  /\ pending = {}
  /\ open = None
  /\ conflict = NoConflict
  /\ chain_header_order = <<>>
  /\ client_ip_header = NoHeader
  /\ chain_ip_selection = Rightmost

-----------------------------------------------------------------------------
(* ClientIpConfigBuilder: the trust model is chosen first.                  *)

TrustNoProxy ==
  /\ stage = "choose"
  /\ trust' = "NoProxy"
  /\ stage' = "built"
  /\ UNCHANGED <<added, rules, sweep, settings>>

TrustedProxies ==
  /\ stage = "choose"
  /\ trust' = "TrustedProxies"
  /\ stage' = "setup"
  /\ chain_header_order' = DefaultOrder
  /\ UNCHANGED <<added, rules, sweep, client_ip_header, chain_ip_selection>>

TrustAllProxies ==
  /\ stage = "choose"
  /\ trust' = "TrustAllProxies"
  /\ stage' = "setup"
  /\ chain_header_order' = DefaultOrder
  /\ UNCHANGED <<added, rules, sweep, client_ip_header, chain_ip_selection>>

-----------------------------------------------------------------------------
(* The setters of the two builders.                                         *)

\* proxy, proxy_with_client_ip_header, proxy_with_x_real_ip and proxy_rule.
ProxyRule(rule) ==
  /\ stage = "setup" /\ trust = "TrustedProxies"
  /\ Len(added) < MaxRules
  /\ added' = Append(added, rule)
  /\ UNCHANGED <<stage, trust, rules, sweep, settings>>

Proxies(batch) ==
  /\ stage = "setup" /\ trust = "TrustedProxies"
  /\ Len(added) + Len(batch) <= MaxRules
  /\ added' = added \o batch
  /\ UNCHANGED <<stage, trust, rules, sweep, settings>>

\* Of either builder; disable_chain_headers is SetChainHeaderOrder(<<>>).
SetChainHeaderOrder(order) ==
  /\ stage = "setup"
  /\ chain_header_order' = order
  /\ UNCHANGED <<stage, trust, added, rules, sweep,
                 client_ip_header, chain_ip_selection>>

SetClientIpHeader(header) ==
  /\ stage = "setup" /\ trust = "TrustAllProxies"
  /\ client_ip_header' = header
  /\ UNCHANGED <<stage, trust, added, rules, sweep,
                 chain_header_order, chain_ip_selection>>

SetChainIpSelection(selection) ==
  /\ stage = "setup" /\ trust = "TrustAllProxies"
  /\ chain_ip_selection' = selection
  /\ UNCHANGED <<stage, trust, added, rules, sweep,
                 chain_header_order, client_ip_header>>

\* TrustAllProxiesBuilder::build cannot fail.
BuildTrustAll ==
  /\ stage = "setup" /\ trust = "TrustAllProxies"
  /\ stage' = "built"
  /\ UNCHANGED <<trust, added, rules, sweep, settings>>

-----------------------------------------------------------------------------
(* TrustedProxiesBuilder::build.                                            *)

\* Faulty: rules keep the networks they were given.
CanonicalAsWritten(rule) == rule

Canonical(rule) == [rule EXCEPT !.cidr = CanonicalCidr(rule.cidr)]

\* Faulty: indices counted from zero.
BuildFromZero ==
  /\ stage = "setup" /\ trust = "TrustedProxies"
  /\ rules' = [i \in DOMAIN added |-> Canonical(added[i])]
  /\ pending' = {i - 1 : i \in DOMAIN added}
  /\ stage' = "overlap"
  /\ UNCHANGED <<trust, added, open, conflict, settings>>

Build ==
  /\ stage = "setup" /\ trust = "TrustedProxies"
  /\ rules' = [i \in DOMAIN added |-> Canonical(added[i])]
  /\ pending' = DOMAIN added
  /\ stage' = "overlap"
  /\ UNCHANGED <<trust, added, open, conflict, settings>>

(***************************************************************************)
(* ensure_no_cross_metadata_overlap.  The stable sort visits networks by   *)
(* first address, the wider one first on a tie, and equal networks in the  *)
(* order they were added.                                                  *)
(***************************************************************************)
\* Faulty: Reverse is missing, so a tie puts the narrower network first.
PrecedesNarrowFirst(i, j) ==
  LET c == rules[i].cidr
      d == rules[j].cidr
  IN  \/ c.first < d.first
      \/ c.first = d.first /\ c.last < d.last
      \/ c = d /\ i < j

Precedes(i, j) ==
  LET c == rules[i].cidr
      d == rules[j].cidr
  IN  \/ c.first < d.first
      \/ c.first = d.first /\ c.last > d.last
      \/ c = d /\ i < j

IsNext(i) == i \in pending /\ \A j \in pending \ {i} : Precedes(i, j)

\* Faulty: a network that starts right after the open one reaches into it.
TouchesOpen(i) ==
  open # None /\ rules[i].cidr.first <= rules[open].cidr.last + 1

\* The rule starts before the open network has ended.
ReachesIntoOpen(i) ==
  open # None /\ rules[i].cidr.first <= rules[open].cidr.last

\* Faulty: the sweep goes on with the nested network and forgets the wider one.
StayWithNested(i) ==
  /\ stage = "overlap" /\ IsNext(i)
  /\ ReachesIntoOpen(i)
  /\ rules[open].metadata = rules[i].metadata
  /\ pending' = pending \ {i}
  /\ open' = i
  /\ UNCHANGED <<stage, trust, added, rules, conflict, settings>>

\* Faulty: the loop does not go on to the next rule.
StayForever(i) ==
  /\ stage = "overlap" /\ IsNext(i)
  /\ ReachesIntoOpen(i)
  /\ rules[open].metadata = rules[i].metadata
  /\ UNCHANGED vars

StayOpen(i) ==
  /\ stage = "overlap" /\ IsNext(i)
  /\ ReachesIntoOpen(i)
  /\ rules[open].metadata = rules[i].metadata
  /\ pending' = pending \ {i}
  /\ UNCHANGED <<stage, trust, added, rules, open, conflict, settings>>

Clash(i) ==
  /\ stage = "overlap" /\ IsNext(i)
  /\ ReachesIntoOpen(i)
  /\ rules[open].metadata # rules[i].metadata
  /\ conflict' = [left |-> open, right |-> i]
  /\ stage' = "rejected"
  /\ UNCHANGED <<trust, added, rules, pending, open, settings>>

OpenNext(i) ==
  /\ stage = "overlap" /\ IsNext(i)
  /\ ~ReachesIntoOpen(i)
  /\ open' = i
  /\ pending' = pending \ {i}
  /\ UNCHANGED <<stage, trust, added, rules, conflict, settings>>

SweepDone ==
  /\ stage = "overlap" /\ pending = {}
  /\ stage' = "merge"
  /\ open' = None
  /\ UNCHANGED <<trust, added, rules, pending, conflict, settings>>

\* The lists that hold every rule of a finite set once.
Listings(set) ==
  {list \in [1..Cardinality(set) -> set] :
     \A i, j \in 1..Cardinality(set) : i # j => list[i] # list[j]}

Ascending(list, i, j) == list[i].cidr.first < list[j].cidr.first

(***************************************************************************)
(* merge_rules_by_metadata.  The HashMap yields the metadata groups in any *)
(* order, each of them in the order of the combiner it comes from.         *)
(***************************************************************************)
GroupedByMetadata(list) ==
  \A i, k \in DOMAIN list :
    i < k /\ list[i].metadata = list[k].metadata =>
      /\ Ascending(list, i, k)
      /\ \A j \in i..k : list[j].metadata = list[i].metadata

MergeRules ==
  /\ stage = "merge"
  /\ rules' \in {list \in Listings(MergedRules(RuleSet(rules))) : GroupedByMetadata(list)}
  /\ stage' = "sort"
  /\ UNCHANGED <<trust, added, sweep, settings>>

SortRules ==
  /\ stage = "sort"
  /\ rules' \in {list \in Listings(RuleSet(rules)) :
                   \A i, j \in DOMAIN list : i < j => Ascending(list, i, j)}
  /\ stage' = "built"
  /\ UNCHANGED <<trust, added, sweep, settings>>

\* The config is immutable, and so is the error.
Finished ==
  /\ stage \in {"built", "rejected"}
  /\ UNCHANGED vars

-----------------------------------------------------------------------------

Choose == TrustNoProxy \/ TrustedProxies \/ TrustAllProxies

Configure ==
  \/ \E rule \in RuleChoices : ProxyRule(rule)
  \/ \E batch \in Batches : Proxies(batch)
  \/ \E order \in ChainHeaderOrders : SetChainHeaderOrder(order)
  \/ \E header \in HeaderName : SetClientIpHeader(header)
  \/ \E selection \in Selections : SetChainIpSelection(selection)

SweepStep(i) == StayOpen(i) \/ Clash(i) \/ OpenNext(i)

BuildStep ==
  \/ \E i \in DOMAIN rules : SweepStep(i)
  \/ SweepDone
  \/ MergeRules
  \/ SortRules

Next == Choose \/ Configure \/ BuildTrustAll \/ Build \/ BuildStep \/ Finished

\* build() is one call, so once begun it goes on; nothing makes an
\* application call it.
Spec == Init /\ [][Next]_vars /\ WF_vars(BuildStep)

-----------------------------------------------------------------------------
(* Properties.                                                              *)

Accepted ==
  stage \in {"merge", "sort"} \/ (stage = "built" /\ trust = "TrustedProxies")

(***************************************************************************)
(* "One socket peer must lead to one policy" (cidr_merge.rs): once the     *)
(* sweep has let a set of rules through, no address is covered by two of   *)
(* the rules that were added with different client IP headers, whatever    *)
(* the order and the notation they were added in.  The sweep compares each *)
(* rule with a single other one.                                           *)
(***************************************************************************)
NoAddressHasTwoPolicies ==
  Accepted => \A i, j \in DOMAIN added :
                ~Conflict(Canonical(added[i]), Canonical(added[j]))

(***************************************************************************)
(* No set of rules is refused for nothing: the two rules an error names    *)
(* share an address and disagree on its header (errors.rs).                *)
(***************************************************************************)
RejectionNamesARealConflict ==
  stage = "rejected" =>
    /\ {conflict.left, conflict.right} \subseteq DOMAIN added
    /\ Conflict(Canonical(added[conflict.left]), Canonical(added[conflict.right]))

Visited == DOMAIN rules \ pending

(***************************************************************************)
(* Why the sweep may forget all visited rules but one: what was visited is *)
(* an initial part of the address order and agrees with itself, the open   *)
(* network reaches further than anything visited, and a visited network    *)
(* either ended before it or lies inside it with the same header.          *)
(***************************************************************************)
SweepInvariant ==
  stage = "overlap" =>
    /\ \A i \in Visited, j \in pending : Precedes(i, j)
    /\ \A i, j \in Visited : ~Conflict(rules[i], rules[j])
    /\ open = None => Visited = {}
    /\ open # None =>
         /\ open \in Visited
         /\ \A i \in Visited :
              \/ rules[i].cidr.last < rules[open].cidr.first
              \/ /\ rules[open].cidr.first <= rules[i].cidr.first
                 /\ rules[i].cidr.last <= rules[open].cidr.last
                 /\ rules[i].metadata = rules[open].metadata

(***************************************************************************)
(* Merging leaves no address to two rules, so that the debug_assert of     *)
(* build() holds for every order the HashMap may have, and the rules of a  *)
(* config never overlap.                                                   *)
(***************************************************************************)
NoAddressMatchesTwoRules ==
  stage \in {"sort", "built"} =>
    \A i, j \in DOMAIN rules : i # j => ~Overlap(rules[i].cidr, rules[j].cidr)

(***************************************************************************)
(* Networks are brought into canonical form before they are merged, and    *)
(* never again: merging has to leave them in it, although it makes wider   *)
(* networks, of which some would have an IPv4 form.  rule_for looks for    *)
(* canonical addresses only.                                               *)
(***************************************************************************)
BuiltRulesAreCanonical == stage = "built" => rules \in BuiltRules

(***************************************************************************)
(* The binary search of rule_for, which looks at one rule, finds what a    *)
(* scan of all the rules of the config would find.                         *)
(***************************************************************************)
LookupIsExhaustive ==
  stage = "built" =>
    \A ip \in IpAddr :
      {i \in DOMAIN rules : Contains(rules[i].cidr, CanonicalIp(ip))}
        = {RuleFor(rules, ip)} \ {None}

(***************************************************************************)
(* Once entered, build() comes to an answer.                               *)
(***************************************************************************)
BuildReturns == (stage = "overlap") ~> (stage \in {"built", "rejected"})

-----------------------------------------------------------------------------
(* The builder implements TrustPolicy.  Before build() has answered, what  *)
(* has been asked for is in the rules that were added; afterwards it is in *)
(* the config alone, through is_trusted_proxy and rule_for.                *)

TrustedBy(ip) ==
  CASE trust = "TrustAllProxies" -> {client_ip_header}
    [] trust = "TrustedProxies" /\ RuleFor(rules, ip) # None ->
         {rules[RuleFor(rules, ip)].metadata}
    [] OTHER -> {}

Contract == INSTANCE TrustPolicy WITH
  Requests <- {{r} : r \in RuleChoices} \cup {RuleSet(b) : b \in Batches},
  verdict  <- CASE stage = "built" -> "accepted"
                [] stage = "rejected" -> "refused"
                [] OTHER -> "open",
  grants   <- IF stage = "built"
                THEN UNION {{CanonicalIp(ip)} \X TrustedBy(ip) : ip \in IpAddr}
                ELSE GrantsOf(RuleSet(added))

(***************************************************************************)
(* The whole of the builder, with its passes, its undefined HashMap order  *)
(* and its canonical forms, does what TrustPolicy promises.                *)
(***************************************************************************)
ImplementsTrustPolicy == Contract!Spec

=============================================================================
