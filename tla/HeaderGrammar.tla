--------------------------- MODULE HeaderGrammar ---------------------------
(***************************************************************************)
(* What a chain header says, read at once and as a whole (the doc comments *)
(* of src/headers.rs and the RFC 7239 syntax they refer to).  Its lines    *)
(* are one list, every line is cut into quoted strings a single time, and  *)
(* a comma or a semicolon counts only outside of them.                     *)
(***************************************************************************)
EXTENDS HeaderText

-----------------------------------------------------------------------------
(* Quoted strings.                                                          *)

\* Backslashes that stand right before a position of a string opened at o.
Run(text, o, at) ==
  Cardinality({i \in o + 1 .. at - 1 : \A j \in i .. at - 1 : text[j] = Backslash})

Closes(text, o) ==
  {c \in o + 1 .. Len(text) : text[c] = Quote /\ Run(text, o, c) % 2 = 0}

\* From its opening quote to its closing one, or to the end of the line.
String(text, o) ==
  LET closes == Closes(text, o)
  IN  Slice(o, IF closes = {} THEN Len(text) + 1 ELSE Least(closes))

Quotes(text) == {i \in DOMAIN text : text[i] = Quote}

\* The one choice of strings that puts every quote into exactly one of them.
Strings(text) ==
  CHOOSE strings \in SUBSET {String(text, o) : o \in Quotes(text)} :
    \A q \in Quotes(text) :
      Cardinality({s \in strings : s.first <= q /\ q <= s.last}) = 1

\* Positions after an opening quote, up to the closing one.
Inside(text) == UNION {s.first + 1 .. s.last : s \in Strings(text)}

Escaped(text) ==
  UNION {{i \in s.first + 1 .. s.last : Run(text, s.first, i) % 2 = 1} : s \in Strings(text)}

IsClosed(text) == Len(text) + 1 \notin Inside(text)

-----------------------------------------------------------------------------
(* Lists.                                                                   *)

\* The positions of a set up to the last one, in their order.
InOrder(positions, last) ==
  LET upto[n \in 0 .. last] ==
        IF n = 0 THEN <<>>
        ELSE IF n \in positions THEN Append(upto[n - 1], n) ELSE upto[n - 1]
  IN  upto[last]

Cuts(text, mark) == {i \in DOMAIN text : text[i] = mark}

\* Where the items of a list end: at a cut, or behind its last position.
Ends(slice, cuts) == (cuts \cap (slice.first .. slice.last)) \cup {slice.last + 1}

\* The item with that end: no cut is in it, and white space around it says nothing.
Item(text, slice, cuts, end) ==
  LET first == CHOOSE i \in slice.first .. end :
                 /\ i = slice.first \/ i - 1 \in cuts
                 /\ i .. end - 1 \cap cuts = {}
  IN  Trim(text, Slice(first, end - 1))

-----------------------------------------------------------------------------
(* Hops.  A hop is the set of entries that may be read for it.              *)

\* The forms in which a hop may give an address.
Gives(text, ip) ==
  LET address == [char |-> "address", ip |-> ip]
      Begins(front) == Len(text) > Len(front) /\ SubSeq(text, 1, Len(front)) = front
      HasPort(front) == Begins(front) /\ IsNodePort(SubSeq(text, Len(front) + 1, Len(text)))
  IN  \/ text = <<address>>
      \/ text = <<OpenBracket, address, CloseBracket>>
      \/ HasPort(<<OpenBracket, address, CloseBracket, Colon>>)
      \/ ip < V4Count /\ HasPort(<<address, Colon>>)

\* White space around a hop says nothing, in a string no more than outside.
Node(text) ==
  LET node == Trimmed(text)
  IN  IF \E ip \in IpAddr : Gives(node, ip)
        THEN Ip(CHOOSE ip \in IpAddr : Gives(node, ip)) ELSE Opaque

IsUnclosed(value) == value # <<>> /\ value[1] = Quote /\ Closes(value, 1) = {}

\* What is between the quotes of a quoted string, without its escapes.
Contents(value) ==
  LET kept == InOrder({i \in 2 .. Len(value) - 1 :
                         value[i] = Backslash => Run(value, 1, i) % 2 = 1}, Len(value))
  IN  [k \in DOMAIN kept |-> value[kept[k]]]

\* A string without an end may be read as anything that it holds.
Value(value) ==
  CASE value = <<>> \/ value[1] # Quote -> {Node(value)}
    [] IsUnclosed(value) ->
         {Opaque} \cup {Ip(ip) : ip \in {a \in IpAddr :
            \E i \in DOMAIN value : value[i] = [char |-> "address", ip |-> a]}}
    [] OTHER ->
         IF String(value, 1) = Whole(value) THEN {Node(Contents(value))} ELSE {Opaque}

NameIsFor(text, pair) ==
  LET equals == Find(text, pair, Equals)
  IN  /\ equals # 0
      /\ Text(text, Trim(text, Slice(pair.first, equals - 1))) = <<For>>

\* The value of its first for, wherever that stands in the element.
ElementHop(text, element) ==
  LET cuts      == Cuts(text, Semicolon) \ Inside(text)
      Pair(end) == Item(text, element, cuts, end)
      fors      == {end \in Ends(element, cuts) : NameIsFor(text, Pair(end))}
      pair      == Pair(Least(fors))
      value     == Slice(Find(text, pair, Equals) + 1, pair.last)
  IN  IF fors = {} THEN {Opaque} ELSE Value(Text(text, Trim(text, value)))

ListCuts(kind, text) ==
  IF kind = "Forwarded" THEN Cuts(text, Comma) \ Inside(text) ELSE Cuts(text, Comma)

ListItem(kind, text, end) == Item(text, Whole(text), ListCuts(kind, text), end)

\* An empty part is list punctuation, not a hop.
HopEnds(kind, text) ==
  {end \in Ends(Whole(text), ListCuts(kind, text)) : ~IsEmpty(ListItem(kind, text, end))}

Hop(kind, text, end) ==
  IF kind = "Forwarded" THEN ElementHop(text, ListItem(kind, text, end))
  ELSE {Node(Text(text, ListItem(kind, text, end)))}

LineHops(kind, text) ==
  LET ends == InOrder(HopEnds(kind, text), Len(text) + 1)
  IN  [k \in DOMAIN ends |-> Hop(kind, text, ends[k])]

Joined(lines) ==
  LET join[n \in 1 .. Len(lines)] ==
        IF n = 1 THEN lines[1] ELSE join[n - 1] \o <<Comma>> \o lines[n]
  IN  join[Len(lines)]

HopsOneByOne(kind, lines) ==
  LET upto[n \in 0 .. Len(lines)] ==
        IF n = 0 THEN <<>> ELSE upto[n - 1] \o LineHops(kind, lines[n])
  IN  upto[Len(lines)]

\* Several lines of one header are one list, unless a string has no end.
Hops(header) ==
  IF \/ header.kind = "XForwardedFor"
     \/ \A n \in 1 .. Len(header.lines) - 1 : IsClosed(header.lines[n])
    THEN LineHops(header.kind, Joined(header.lines))
    ELSE HopsOneByOne(header.kind, header.lines)

=============================================================================
