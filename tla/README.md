# A verification project for axum-client-addr

`axum-client-addr` finds the address of the client behind a request: the socket
peer, or an address that a trusted proxy has written into a header. It starts no
threads and keeps no state between requests. What makes it hard is that several
pieces of pure logic lean on each other: a builder accepts or refuses trusted
proxy rules with one sweep over a sorted list, a merge in the undefined order of
a `HashMap` and a sort prepare a binary search, and a resolver follows that
search through headers, header lines, parts of lines and hops. A mistake in any
of them shows only for particular combinations of networks or headers.

## Inventory

| component (source) | state | operations | interacts with | what makes it correct |
|---|---|---|---|---|
| canonicalization (`src/canonical.rs`) | none | `canonical_ip`, `canonical_cidr` | used by the builder, the lookup, the resolver and the header readers | one client has one address; a mapped network stays a network |
| rule merging (`src/cidr_merge.rs`) | `order`, `open`, the `HashMap` groups, all local to a call | `ensure_no_cross_metadata_overlap`, `merge_rules_by_metadata`, `merge_cidrs` | called by `build()`, uses the combiner of `cidr-utils` | conflicting rules, and only those, are refused; merging covers what was covered |
| builders (`src/config.rs`) | trust model, rules, chain header order, trust-all settings | the three choices, the setters, `build()` | consume themselves and return a config or an error | the config means what was asked for |
| config lookup (`src/config.rs`) | the immutable config, shared behind `Arc` | `rule_for`, `is_trusted_proxy`, accessors | called for the peer and for each hop | the search finds what a scan would find |
| resolution (`src/resolve.rs`) | locals of a call | `resolve_client_ip`, both trust models, the chain scan, the pick | lookup, header readers | the documented order of resolution |
| header reading (`src/headers.rs`) | two nested iterators, the quote state of a scan | list and `Forwarded` readers, `SplitQuoted`, unquoting, `parse_ip_like` | called by the resolver | every hop keeps its place and its address, wherever quotes and escapes stand |
| extractor (`src/extractor.rs`) | none | required and optional extraction | axum, `ConnectInfo` | every request gets an answer, a rejection or `None` |
| errors (`src/errors.rs`) | none | display, response | axum | the error names the rules in conflict |
| proxies in front (environment) | the headers of a request on its way | append, overwrite, hide an address, add a line, invent | deliver requests to the extractor | the documented use of each trust model finds the client |
| throttling service (`examples/throttle.rs`) | the limiter, one stage per request | middleware, handler, rejection | shares one limiter between all requests | quotas belong to clients, however requests interleave |

Hard behaviours: order of rules and of equal keys in the sort; networks that nest
or touch; IPv4-mapped spellings of peers, hops and networks; the order of the
`HashMap`; a header that is present but useless; hops without an address; walks
over nested lists; quotes that are open or escaped where a list is cut; hosts on the
way that write what they like. There is no concurrency inside the crate (a config is
never changed after `build()`), no persistence, and no timeout; requests run
concurrently in the service of `examples/throttle.rs`, whose limiter they share. `PROJECT.json` lists
the hazards with their lines.

## Modules

* `IpSpace`: addresses, networks, canonical forms. The order of Rust's `IpAddr`
  puts all IPv4 addresses before all IPv6 addresses, so addresses are numbers on
  one line, and a network is an aligned interval in one of the two families. The
  sizes of the families and of the networks are constants; `IpSpaceAssumption`
  asks only that sizes divide one another and that the mapped range is a network.
* `TrustedProxyRules`: rules, merging, and the lookup `RuleFor`. `MergeCidrs` is the
  set of the largest networks inside what is covered, which is the shortest list
  that covers it. `GrantsOf` says what rules mean without rewriting them.
* `ClientIpConfigBuilder`: the state machine of the builders. One action per method;
  `build()` is `Build` (canonicalize), the sweep (`StayOpen`, `Clash`, `OpenNext` for
  one rule each, in the order of the stable sort, and `SweepDone`), `MergeRules` and
  `SortRules`. `added` is the builder's list, `rules` the local list that becomes the
  config's. The only nondeterminism inside `build()` is the `HashMap` order.
* `TrustPolicy`: the abstract specification of the builder. A policy is a set of
  grants (address, header); it is accepted as a whole or refused as a whole.
* `ChainEntries`: what each reader makes of one part of a header value. A part is what
  stands between two commas: a plain address, an address with a port, a `for=` element,
  opaque or empty.
* `ForwardingHeaders`: requests, chain headers, configs and answers. A header value is
  unreadable or a list of parts.
* `ClientIpResolver`: the state machine of one request after another: extractor, peer
  lookup, client IP header, choice of the chain header, reading line by line and part
  by part, and the scan from the right or the pick by position.
* `ResolutionOrder`: the abstract specification of the resolver: the answer, in one
  step, as a function of config and request, in the words of the crate documentation.
* `HeaderText`: characters, slices, trimming, searching. The marks the readers look for
  are characters; an address, a run of digits, `for`, `unknown` or another name is one
  character too, and `Lexed` keeps two of them from touching, which would make them one.
* `HeaderReader`: the state machine of both readers on the lines of a header.
  `SplitQuoted::next` is `NextItem`, then one step per character (`PassEscaped`, `Escape`,
  `OpenOrCloseQuotes`, `Pass`), then `CutAtDelimiter` or `LastItem`. `level` says which of
  the two iterators runs, the one over elements or the one over the pairs of an
  element; `input` and `start` are their fields. The loops over items (`SkipEmpty`,
  `OpenElement`, `SkipPair`, `ForPair`, `NoForPair`, `ListedHop`) and over lines
  (`NextLine`, `NoLineLeft`) are actions, the forms of a hop (`EntryOf`) operators.
* `HeaderGrammar`: what a header says as a whole: `Hops`. The quoted strings are the one
  set of strings that puts each quote into exactly one of them; elements and pairs are cut
  outside of them; several lines are joined to one. A string without an end may be read as
  anything it holds.
* `HeaderReading`: the abstract specification of the readers: asked about a header, they
  hand over one entry for each of its hops, in one step.
* `ProxyPath`: the environment, composed with `ClientIpResolver`. A request goes from
  host to host; `Relay`, `Overwrite` and `Invent` say what each does to the headers, and
  `Arrive` hands the request to the resolver with the last host as socket peer. Nothing
  in the code keeps a config from naming the chain header as client IP header too; a
  proxy then writes that header once, as a chain header.
* `Throttle`: the service of `examples/throttle.rs`. Every request is a task that goes
  through the extractor, the check of the limiter and the handler; `tat` is the time
  the limiter keeps per key, `Tick` lets a second pass.
* `MCClientIpConfigBuilder`, `MCClientIpResolver`, `MCHeaderReader`, `MCProxyPath`,
  `MCThrottle`: small instances.
* `IpSpaceProofs`, `TrustedProxyRulesProofs`, `ClientIpConfigBuilderProofs`,
  `ClientIpResolverProofs`, `HeaderGrammarProofs`, `HeaderReaderProofs`,
  `ProxyPathProofs`, `ThrottleProofs`: theorems. `IpSpaceProofs` also has the induction
  over numbers that the others use, and `HeaderGrammarProofs` the lemmas about `HeaderText`
  and `HeaderGrammar`.

Operators marked "Faulty" are plausible mistakes in the code. They are not used
by any specification; put in the place of the operator that follows them they
make the property named for them in `PROJECT.json` fail.

`ClientIpConfigBuilder` refines `TrustPolicy`: until `build()` answers, the grants are
those of the added rules; from then on they are what `is_trusted_proxy` and `rule_for`
say of each address. `SortRules` is thus checked to hand over exactly what was asked
for. `ClientIpResolver` refines `ResolutionOrder`: all steps of a call but the one
that gives the answer are stuttering. `HeaderReader` refines `HeaderReading`, with the
hops of `HeaderGrammar`: the entries appear when the last line has been read, and all
other steps are stuttering.

`ClientIpResolver` works on parts and `HeaderReader` on characters. `PartsTellTheHops` is
the bridge: for a line without an open string and without a quoted comma, the hops
that either reader finds in its characters are those that `Entry` gives for its parts.
Whether the forms of a hop are read rightly is the question of `ImplementsHeaderGrammar`;
`PartsTellTheHops` takes them from the reader.
The parts are found from the text alone, so the same list of parts serves the header
both when it is read as a list and when it is read as `Forwarded`, as the resolver
has it. A comma inside of quotes splits an element for the list reader only; such
values have no list of parts and are checked in `HeaderReader` alone.

## What the runs check

| run | instance | shows |
|---|---|---|
| `builder_mixed` | 2 IPv4 and 4 IPv6 addresses, half of the latter mapped; all 10 networks with and without a header, up to 3 rules, batches | `NoAddressHasTwoPolicies`, `RejectionNamesARealConflict`, `SweepInvariant`, `BuiltRulesAreCanonical`, `TypeOK`, and the refinement `ImplementsTrustPolicy` |
| `builder_nested` | 4 IPv4 addresses, networks nested three deep, up to 4 rules | `NoAddressHasTwoPolicies`, `NoAddressMatchesTwoRules`, `LookupIsExhaustive` |
| `builder_returns` | all setters, two headers, up to 2 rules | `BuildReturns` under weak fairness |
| `resolver_order` | 8 configs, every combination of a few values in three headers, five kinds of peers | `HeadersComeFromTrustedPeers`, `AnswersAreCanonical` (mapped peers, client IP headers and hops), `OnlyTheFirstCarriedHeaderIsRead`, `ImplementsResolutionOrder` |
| `resolver_chain` | every chain of up to three parts in one or two lines, 7 configs | `ChainAnswerIsNearestStranger`, `AnswersAreCanonical` (mapped hops), `RequestsAreAnswered`, `TypeOK`, `ImplementsResolutionOrder` |
| `reader_scan` | `Forwarded` lines: up to 5 of quote, backslash, comma, semicolon and address behind `for=`; up to 4 before, behind or inside of another parameter | `ScansAgreeWithTheLine`, `ImplementsHeaderGrammar` |
| `reader_forms` | both readers: every way to write a hop with brackets, ports, quotes, escapes and white space; lists of three elements on one or two lines; short lines that leave strings open, and three lines with empty and open ones | `TypeOK`, `PartsTellTheHops`, `ImplementsHeaderGrammar`, `ReadingEnds` under weak fairness |
| `reader_unclosed` | values with quotes and backslashes | `OnlyQuotedStringsAreUnquoted` is violated, see Findings |
| `path_rules` | trusted proxies, with X-Real-IP or the chain header itself as client IP header, ways of up to 4 hosts, 5 inventions | `StrangersCannotChooseTheirAddress` |
| `path_positions` | trust-all with every selection and the same client IP headers, the same ways | `FittingSelectionFindsTheClient` |
| `throttle_quota` | 5 requests from 2 clients, one of them in two forms, burst 2, 3 moments | `TypeOK`, `NoClientExceedsItsQuota`, `OnlyOwnRequestsCount` |
| `throttle_served` | 3 requests, burst 1, 2 moments | `RequestsAreServed` under weak fairness |

Bounds. A wrong sweep needs three rules (a wide network, one nested in it, and one
that conflicts with the wide one only); `builder_nested` has a fourth so that
something can also stand before or behind. Two IPv4 addresses give a network with
two halves; four give three levels. Four IPv6 addresses hold the mapped range, its
halves, a range beside it and a network around both. `MaxRules` bounds the list of
rules, and the inputs of the resolver are sets of requests: two-line headers, parts
of every kind, and a chain of three hops, which has a first, a middle and a last
hop. `SkipRightmostHops(2)` on chains of up to three hops skips all but one and more
than there are. For the readers, five characters behind `for=` hold an opening quote, an
escaped quote, a delimiter and a closing quote, which is the shortest text that an
escape and a delimiter can both disturb; the element after it, or the parameter before
it, is what a wrong quote state would swallow. Ways of four hosts (`MaxHosts`) have a
client, a stranger and two proxies, or a client and three proxies in a row, so that
`SkipRightmostHops(2)` fits. Five requests (`Tasks`) are two more than a burst of two
and one for each of the next two moments let through; `MaxTime` bounds the time, and
`SYMMETRY` is used in `throttle_quota` only, which has no liveness property.

Fairness. `WF_vars(BuildStep)` and `WF_vars(Resolve)` say that a call, once
begun, runs to its end: both are straight code in one thread with no await
on the way (the extractor awaits only `ConnectInfo`, which is ready at once).
`WF_vars(Step)` says the same of the
readers. `WF_vars(Work(t))` says that the runtime goes on with a task that can run; no
fairness is stated for `Tick` or `Accept`, so that no answer may depend on time passing.
Nothing is assumed about applications or clients: no one has to call `build()`
or send a request.

Deadlock is checked everywhere: `Finished` says that a config or an error stays as
it is, and a resolver goes back to waiting for a request, `HandedOver` that entries are handed
over, and `Over` that all requests have been answered and the time is over.

## What is proved

For all values of the constants that satisfy `IpSpaceAssumption`, `HeaderAssumption`,
`BuilderAssumption`, `ResolverAssumption`, `ReaderAssumption`, `PathAssumption` and
`ThrottleAssumption`, so for the real address spaces, any headers, any number of rules,
requests with any number of headers, lines and parts, lines and ways of any length:

### Networks, rules and lookup

* `NestedOrDisjoint`: two networks are nested or apart. The sizes divide one another,
  so a network of size `s` starting at `k * s` lies before, in or behind one of size
  `m * s` starting at `l * m * s` as `k` lies to `l * m` and `(l + 1) * m`.
* `CanonicalCidrIsNetwork`: the IPv4 form of a mapped network is a network, which is
  why the `Err` branch of `canonical_cidr` is dead code. `CanonicalCidrIsCanonical`: it
  has nothing left to do on what it returns.
* `LookupFindsTheRule`: in rules that are in address order and apart, the rules that
  start at or before an address are those up to the one that covers it, so the one
  rule that `rule_for` looks at is the right one. `LookupFindsWhatIsGranted` says it of
  all addresses at once.
* `MergedRulesAreApart`: two networks of one merged group are both maximal, so by
  `NestedOrDisjoint` they are apart; an address common to two groups was covered by
  two rules that disagree on it.
* `CoveredIsMerged` and `MergingKeepsGrants`: merging loses no address and wins none. Of
  the networks that fit into what is covered and hold an address, the largest one lies
  in no other, so it is one of the merged ones.
* `MergedNetworkIsCanonical`: `build()` does not canonicalize after merging, and does not
  have to. A merged network with an IPv4 form would begin in the mapped range and be no
  larger than it. Its first address was covered by a canonical network, and a canonical
  network that meets the mapped range is wider than it (`CanonicalAroundMapped`), so the
  merged one was not maximal.

### Builder

* `TypeCorrect`, `OpenNetworkStandsForAll`, `AcceptedRulesAgree`,
  `RejectionIsJustified`: the type invariant and the three safety properties of
  the sweep. `NoAddressHasTwoPolicies` is not inductive: it says nothing while
  the sweep runs. The inductive `BuilderInvariant` adds `SweepInvariant`: the visited
  rules are an initial part of the address order, agree with each other, and either
  ended before the open network or lie inside it with its header. A rule that
  starts inside the open network lies inside it (`ReachingInIsNesting`), and one
  that starts behind it starts behind everything visited. `SweepState` adds that
  `rules` holds the canonical forms of `added` until they are merged, and that no
  sweep is under way elsewhere.
* `MergedRulesShareNoAddress`, `LookupFindsWhatAScanFinds` and `BuiltRulesAreLookedUp`:
  the facts about merging and lookup, carried through `build()`. `MergedState` is
  inductive next to `BuilderInvariant`, which supplies that the rules agree when they are
  merged. `BuiltRules` is what the resolver assumes of configs.
* `BuilderKeepsItsPromise`: the builder implements `TrustPolicy`. `GrantState`, the third
  inductive invariant, says that once the rules are merged they grant what the added
  rules mean. It starts to hold when they are merged: what a network means is what its
  canonical form contains (`AddressesOfNetwork`), and merging keeps that
  (`MergingKeepsGrants`). Adding a rule then is `Grant`, the end of the sort is `Accept`
  by `LookupFindsWhatIsGranted`, and a clash is `Refuse`, for which two canonical networks
  that share any address must share a canonical one (`CanonicalNetworksMeet`).

### Resolver

* `StrangersSetNoHeader`, `ScanStopsAtNearestStranger`, `ChainHeadersAreAlternatives`,
  `OneFormPerClient` and the resolver's `TypeCorrect`. None of the four properties is
  inductive: they speak of the answer, when the steps that justify it are over.
  `ResolverInvariant` adds what each step hands to the next: `PeerState` (the peer is
  canonical, and headers are read only for a peer with a rule, whose header they
  are), `ChainState` (all chain headers before the one that is tried are absent, and
  hops are canonical) and `ScanState` (everything right of the scan is a trusted
  proxy). Configs are those with `BuiltRules`, which is what
  `BuiltRulesAreLookedUp` says of every built config; `LookupFindsTheRule` turns the
  search into `Covers`.
* `ResolutionFollowsTheOrder`: the resolver implements `ResolutionOrder`. `OrderInvariant`
  adds to `ResolverInvariant` that no client IP header has given an answer once the chain
  headers are looked at, and, while a chain header is read, `ReadSoFar`: the hops so far
  are what `HopsOf` has made of the parts before the present one. `HopsOf` puts all lines
  into one list first and the resolver does not, so the place of a part in that list is
  the number of parts in the lines before it plus its place in its line
  (`FlattenJoins`). Each step of a line, each end of a line and the end of the last one
  keeps that. At the end, the last of the unknown hops is where the scan stops
  (`ScanChoosesLast`), and the picked position is the chosen one (`PickChoosesPosition`).

### Header reader

* `ReaderInvariantHolds`, `TypesHold`, `QuotesAreKnown`. `ScansAgreeWithTheLine` compares a
  scan with the strings of the line, which `HeaderGrammar` chooses as a whole. They
  exist and are the only ones (`PartitionExists`, `StringsArePartition`): going through the
  quotes from the left, each one is in the string of a quote before it or opens its
  own. A character on, the run of backslashes grows or ends (`RunGrows`), so a
  scan that knows of one position knows of the next (`FromOutside`, `FromInside`). What
  makes it inductive is `ItemsStartOutside`: a delimiter counts only outside of strings,
  and trimming passes blanks, which open none, so the items of either iterator start
  where a scan with no quote open is right, and the items of items do as well.

* `HeaderIsRead` and `HeaderGrammarIsImplemented`: the readers implement `HeaderReading`. The
  grammar names an item of a list by the position at which it ends, so that a list is a
  set of positions, and its order is that of the positions (`InOrder`). The second
  inductive invariant, `ReadingStands`, follows from this: where an iterator starts next
  tells the ends it has `Reached`, the scan that is under way has met no cut since
  (`ScanStands`), and the item in hand is the grammar's with that end (`ItemStands`).
  `ElementStands` says that no pair up to there is a `for`, and `EntriesStand` that the
  entries are readings of the hops up to there, after those of the lines before. Three
  groups of lemmas meet in it:
  - Forms of a hop. `EntryOf` and `Node` agree on every text (`EntryOfIsNode`, from
    `FormMakes` and `MakesForm`): a text that has one of the forms gives its address, and
    what gives an address has one of the forms. This needs the last colon and the first
    bracket to be the only ones that can matter. `EntryOfValue` adds the quotes: the
    loop that drops backslashes keeps what `Contents` keeps (`LoopKeepsContents`).
  - Places. What stands in a slice of a line says the same in a text of its own, as long
    as the slice begins and ends outside of strings: strings, items and hops move with it
    (`PieceScan`, `ElementHopMoves`).
  - Lines. The reader splits each line by itself and the grammar joins them first. A line
    that leaves nothing open has the same strings in front of others as alone, and so has
    what is behind it, so the hops of the joined lines are the hops of the lines
    one after the other.
* `PartsTell`: the parts of a line stand for its text. `PartTells` says it of a text of its
  own: what a part is called (`PartOf`) is told from the text, and both readers get from
  it what `ListEntry` and `ForwardedEntry` have for it. A text that gives a bare
  address holds no `=` (`NodeHolds`), so it has no `for` and is opaque to the other reader;
  a piece that leaves nothing open has one reading only (`OneReading`). By the lemmas on
  places a part says so where it stands (`PartTellsHop`), and by `HeaderIsRead` the entries
  are those of the parts.

### Proxies in front

* `PathInvariantHolds`, `ClientIsNearestStranger`, `SelectionFindsCaller`: for ways of any
  number of hosts. The invariant follows the headers on the way and the resolver
  through them. `ChainOfProxies` says that the chain header is a `Listing` of the hosts from
  the nearest stranger on: there is a place in the chain for each of them, in their
  order, which holds the host's address or nothing if the proxy kept it back, and
  nothing stands behind the last. It grows by a part or a line with each proxy
  (`GrowsByPart`, `GrowsByLine`), moves from lines to hops while the resolver reads
  (`ReadsPart`, `ReadsLine`), and is a property of the hops alone when it scans. Then
  `ScanState` says which of these hosts are trusted proxies and the first one that is
  not is the nearest stranger. `OwnHeaderState` says the same of the client IP header.
  The proof found a gap in the model: a proxy whose client IP header is the chain
  header would have written it twice. The instances of both runs now have such proxies.

### Throttling service

* `QuotaHolds`: the limiter keeps one time per key, and the requests it has let through
  since any moment are no more than that time is ahead of the moment (`QuotaState`);
  that the time is never ahead of the clock by more than the burst bounds them. It is
  inductive because a task at the check holds the canonical form of its peer
  (`TaskState`).
* `RefusalsAreOwn`: the other direction. For every key there is a moment since which the
  requests let through account for all of the time the limiter is ahead (`Accounted`):
  the moment stays while the limiter is ahead, and is the present one when it is not.

### Induction

The provers cannot instantiate the induction theorems of the library, which take an
operator. `IpSpaceProofs` therefore states induction over sets of numbers: a set of numbers
has a least one (`LeastOfSet`, from the well-founded order of the numbers), so a set that
holds 0 and with each number the next one holds all up to a bound (`InductionUpTo`), and a
recursion over them defines exactly one function (`RecursionExists`, `RecursionAgrees`).
What the recursive functions of the model and the folds of the community modules compute
is proved from these; `HopsOf`, `WithoutEscapes` and `InOrder` are written as recursive
functions for that reason.

### Model-checked only

* The four liveness properties, `BuildReturns`, `RequestsAreAnswered`, `ReadingEnds` and
  `RequestsAreServed`: they need `ENABLED`, which the provers do not have.

All other properties of the passing runs are theorems.

## Findings

`reader_unclosed`: `unquote_http_quoted_string` says that it removes the quotes of an HTTP
quoted string and returns "Input that is not quoted" as it is, but it looks at the first
and the last character only (`src/headers.rs:179`). In `for="203.0.113.10\"` the last
quote is escaped and the string has no end, which is how `SplitQuoted` reads it; the
value is stripped of both quotes all the same and gives the address. A well-formed
header never has such a value, and `ImplementsHeaderGrammar` shows that nothing but hops
from open strings is concerned: `HeaderGrammar` allows any reading of them.

## What is not modelled

* The characters inside of words: that a text parses as an address is a fact about its
  word, and the spellings of one address are not told apart. Words are lexed, so that
  `2001:db8::17:4711` is one address and not an address with a port. Left out are texts
  whose words join once a backslash between them is gone, such as `for="192.0\.2.1"`.
* What proxies do to a header other than to add to it, to overwrite it or to make it up,
  for instance removing hops from the middle.
* Texts of errors, bodies of HTTP responses, `Display`, conversions and plain accessors.
* `cidr`, `cidr-utils`, `std::net`, `HeaderMap`, `partition_point` and axum are external
  and modelled from their use; `partition_point` by its result on a sorted list, and the
  limiter of `governor` by its algorithm, with whole seconds instead of nanoseconds. That
  its check of a key is one atomic step is `governor`'s promise.
* The other examples and the integration tests have no state of their own.

## Plan

Done: the modules above, and proofs of all safety properties and action properties of the
passing runs, among them the refinements of `TrustPolicy`, `ResolutionOrder` and
`HeaderReading`. Left:

1. `ClientIpResolver` works on lists of parts, and `PartsTell` says which lines these
   stand for. Composing the two machines, with the header text in the requests, would
   also cover lines with quoted commas and open strings end to end.
2. A liveness proof, once the provers have `ENABLED`.
