---------------------------- MODULE HeaderReader ----------------------------
(***************************************************************************)
(* Reading the lines of a chain header character by character              *)
(* (src/headers.rs).  A Forwarded line is split at its commas by one       *)
(* SplitQuoted, and each of the elements it yields is split at semicolons  *)
(* by another, which knows nothing of what stands around its element.      *)
(***************************************************************************)
EXTENDS HeaderGrammar

CONSTANT Headers  \* the chain headers that are read

ASSUME ReaderAssumption == Headers \subseteq Header

VARIABLES
  header,     \* the values of the chain header, and its kind
  line,       \* which of its lines is being read
  pc,         \* what the reader is doing
  level,      \* the iterator that is asked for an item
  input,      \* what each iterator runs over
  start,      \* where its next item starts, or None
  at,         \* the scan of SplitQuoted::next
  in_quotes,
  escaped,
  item,       \* what it has yielded
  entries

scan      == <<at, in_quotes, escaped>>
iterators == <<input, start>>
vars      == <<header, line, pc, level, iterators, scan, item, entries>>

None  == 0
Level == {"element", "pair"}

raw == header.lines[line]

Delimiter == [element |-> Comma, pair |-> Semicolon]

TypeOK ==
  /\ header \in Header
  /\ line \in DOMAIN header.lines
  /\ pc \in {"next", "scan", "item", "read"}
  /\ level \in Level
  /\ input \in [Level -> SlicesOf(raw)]
  /\ start \in [Level -> 0 .. Len(raw) + 1]
  /\ at \in 1 .. Len(raw) + 1
  /\ in_quotes \in BOOLEAN
  /\ escaped \in BOOLEAN
  /\ item \in SlicesOf(raw)
  /\ entries \in Seq(ChainEntry)

Init ==
  /\ header \in Headers
  /\ line = 1
  /\ pc = "next"
  /\ level = "element"
  /\ input = [element |-> Whole(raw), pair |-> Slice(1, 0)]
  /\ start = [element |-> 1, pair |-> None]
  /\ at = 1 /\ in_quotes = FALSE /\ escaped = FALSE
  /\ item = Slice(1, 0)
  /\ entries = <<>>

-----------------------------------------------------------------------------
(* SplitQuoted::next.  The quotes are counted anew for every item.          *)

\* Faulty: a quote that an item leaves open is still open in the next one.
NextItemInQuotes ==
  /\ pc = "next" /\ header.kind = "Forwarded"
  /\ start[level] # None
  /\ at' = start[level] /\ escaped' = FALSE
  /\ pc' = "scan"
  /\ UNCHANGED <<header, line, level, iterators, in_quotes, item, entries>>

NextItem ==
  /\ pc = "next" /\ header.kind = "Forwarded"
  /\ start[level] # None
  /\ at' = start[level] /\ in_quotes' = FALSE /\ escaped' = FALSE
  /\ pc' = "scan"
  /\ UNCHANGED <<header, line, level, iterators, item, entries>>

Ch == raw[at]

Scanning == pc = "scan" /\ at <= input[level].last

Go == at' = at + 1 /\ UNCHANGED <<header, line, pc, level, iterators, item, entries>>

PassEscaped ==
  /\ Scanning /\ escaped
  /\ escaped' = FALSE
  /\ Go /\ UNCHANGED in_quotes

\* Faulty: a backslash starts an escape outside of quotes as well.
EscapeAnywhere ==
  /\ Scanning /\ ~escaped
  /\ Ch = Backslash
  /\ escaped' = TRUE
  /\ Go /\ UNCHANGED in_quotes

Escape ==
  /\ Scanning /\ ~escaped
  /\ in_quotes /\ Ch = Backslash
  /\ escaped' = TRUE
  /\ Go /\ UNCHANGED in_quotes

OpenOrCloseQuotes ==
  /\ Scanning /\ ~escaped
  /\ Ch = Quote
  /\ in_quotes' = ~in_quotes
  /\ Go /\ UNCHANGED escaped

Pass ==
  /\ Scanning /\ ~escaped
  /\ Ch # Quote
  /\ ~(in_quotes /\ Ch = Backslash)
  /\ ~(~in_quotes /\ Ch = Delimiter[level])
  /\ Go /\ UNCHANGED <<in_quotes, escaped>>

Yield(last, next) ==
  /\ item' = Trim(raw, Slice(start[level], last))
  /\ start' = [start EXCEPT ![level] = next]
  /\ pc' = "item"
  /\ UNCHANGED <<header, line, level, input, scan, entries>>

CutAtDelimiter ==
  /\ Scanning /\ ~escaped
  /\ ~in_quotes /\ Ch = Delimiter[level]
  /\ Yield(at - 1, at + 1)

\* Faulty: the next item is an empty one at the end of the input.
LastItemForever ==
  /\ pc = "scan" /\ at > input[level].last
  /\ Yield(input[level].last, input[level].last + 1)

\* Faulty: the next item starts behind the end, as if there were a delimiter.
LastItemAgain ==
  /\ pc = "scan" /\ at > input[level].last
  /\ Yield(input[level].last, at + 1)

LastItem ==
  /\ pc = "scan" /\ at > input[level].last
  /\ Yield(input[level].last, None)

-----------------------------------------------------------------------------
(* list_header_entries splits at every comma.                               *)

NextListed ==
  /\ pc = "next" /\ header.kind = "XForwardedFor"
  /\ start[level] # None
  /\ LET rest  == Slice(start[level], input[level].last)
         comma == Find(raw, rest, Comma)
     IN  IF comma = None THEN Yield(rest.last, None) ELSE Yield(comma - 1, comma + 1)

-----------------------------------------------------------------------------
(* What the text of a hop gives.                                            *)

Parsed(text) == IF IsAddress(text) THEN Ip(text[1].ip) ELSE Opaque

\* Faulty: what stands behind the bracket is not looked at.
BracketedWithAnything(text) ==
  LET close == Find(text, Slice(2, Len(text)), CloseBracket)
  IN  IF close # None THEN Parsed(SubSeq(text, 2, close - 1)) ELSE Opaque

\* [2001:db8::17] and [2001:db8::17]:4711
Bracketed(text) ==
  LET close == Find(text, Slice(2, Len(text)), CloseBracket)
      tail  == SubSeq(text, close + 1, Len(text))
  IN  IF /\ close # None
         /\ tail = <<>> \/ (Head(tail) = Colon /\ IsNodePort(Tail(tail)))
        THEN Parsed(SubSeq(text, 2, close - 1)) ELSE Opaque

\* 192.0.2.43:47011 and 192.0.2.43:_secret, split at the last colon.
Ported(text) ==
  LET colons == {i \in DOMAIN text : text[i] = Colon}
      colon  == Greatest(colons)
  IN  IF /\ colons # {}
         /\ IsV4(SubSeq(text, 1, colon - 1))
         /\ IsNodePort(SubSeq(text, colon + 1, Len(text)))
        THEN Parsed(SubSeq(text, 1, colon - 1)) ELSE Opaque

\* chain_entry and parse_ip_like.
EntryOf(raw_hop) ==
  LET text == Trimmed(raw_hop)
  IN  IF text = <<>> THEN Opaque
      ELSE CASE text = <<Unknown>> \/ text[1] = Underscore -> Opaque
             [] IsAddress(text)         -> Parsed(text)
             [] text[1] = OpenBracket   -> Bracketed(text)
             [] OTHER                   -> Ported(text)

\* unquote_http_quoted_string: its loop drops a backslash that is not escaped.
WithoutEscapes(inner) ==
  LET after[n \in 0 .. Len(inner)] ==
        IF n = 0 THEN [output |-> <<>>, escaped |-> FALSE]
        ELSE IF inner[n] = Backslash /\ ~after[n - 1].escaped
               THEN [output |-> after[n - 1].output, escaped |-> TRUE]
               ELSE [output |-> Append(after[n - 1].output, inner[n]), escaped |-> FALSE]
  IN  after[Len(inner)].output

Unquoted(text) ==
  IF Len(text) < 2 \/ text[1] # Quote \/ text[Len(text)] # Quote THEN text
  ELSE WithoutEscapes(SubSeq(text, 2, Len(text) - 1))

-----------------------------------------------------------------------------
(* The loops over the items.                                                *)

Push(entry) == entries' = Append(entries, entry)

SkipEmpty ==
  /\ pc = "item" /\ level = "element"
  /\ IsEmpty(item)
  /\ pc' = "next"
  /\ UNCHANGED <<header, line, level, iterators, scan, item, entries>>

ListedHop ==
  /\ pc = "item" /\ header.kind = "XForwardedFor"
  /\ ~IsEmpty(item)
  /\ Push(EntryOf(Text(raw, item)))
  /\ pc' = "next"
  /\ UNCHANGED <<header, line, level, iterators, scan, item>>

\* forwarded_element_entry
OpenElement ==
  /\ pc = "item" /\ header.kind = "Forwarded" /\ level = "element"
  /\ ~IsEmpty(item)
  /\ level' = "pair"
  /\ input' = [input EXCEPT !.pair = item]
  /\ start' = [start EXCEPT !.pair = item.first]
  /\ pc' = "next"
  /\ UNCHANGED <<header, line, scan, item, entries>>

Equal == Find(raw, item, Equals)

IsFor ==
  /\ Equal # None
  /\ Text(raw, Trim(raw, Slice(item.first, Equal - 1))) = <<For>>

ForValue == Text(raw, Trim(raw, Slice(Equal + 1, item.last)))

\* Back to the loop over the elements, with the entry of this one.
CloseElement(entry) ==
  /\ Push(entry)
  /\ level' = "element"
  /\ pc' = "next"
  /\ UNCHANGED <<header, line, iterators, scan, item>>

SkipPair ==
  /\ pc = "item" /\ level = "pair"
  /\ ~IsFor
  /\ pc' = "next"
  /\ UNCHANGED <<header, line, level, iterators, scan, item, entries>>

ForPair ==
  /\ pc = "item" /\ level = "pair"
  /\ IsFor
  /\ \E value \in {Unquoted(ForValue)} : CloseElement(EntryOf(value))

NoForPair ==
  /\ pc = "next" /\ level = "pair"
  /\ start[level] = None
  /\ CloseElement(Opaque)

NextLine ==
  /\ pc = "next" /\ level = "element" /\ start[level] = None
  /\ line < Len(header.lines)
  /\ UNCHANGED <<header, pc, level, entries>>
  /\ line' = line + 1
  /\ input' = [element |-> Whole(raw'), pair |-> Slice(1, 0)]
  /\ start' = [element |-> 1, pair |-> None]
  /\ at' = 1 /\ in_quotes' = FALSE /\ escaped' = FALSE /\ item' = Slice(1, 0)

NoLineLeft ==
  /\ pc = "next" /\ level = "element" /\ start[level] = None
  /\ line = Len(header.lines)
  /\ pc' = "read"
  /\ UNCHANGED <<header, line, level, iterators, scan, item, entries>>

\* The entries are handed over.
HandedOver == pc = "read" /\ UNCHANGED vars

-----------------------------------------------------------------------------

Step ==
  \/ NextItem \/ PassEscaped \/ Escape \/ OpenOrCloseQuotes \/ Pass
  \/ CutAtDelimiter \/ LastItem \/ NextListed
  \/ SkipEmpty \/ ListedHop \/ OpenElement \/ SkipPair \/ ForPair \/ NoForPair
  \/ NextLine \/ NoLineLeft

Next == Step \/ HandedOver

Spec == Init /\ [][Next]_vars /\ WF_vars(Step)

-----------------------------------------------------------------------------
(* Properties.                                                              *)

Reading == INSTANCE HeaderReading WITH
  phase   <- IF pc = "read" THEN "read" ELSE "asked",
  entries <- IF pc = "read" THEN entries ELSE <<>>

(***************************************************************************)
(* Reading character by character, with an iterator inside an iterator,    *)
(* finds the hops that the header has when it is read as a whole.          *)
(***************************************************************************)
ImplementsHeaderGrammar == Reading!Spec

(***************************************************************************)
(* "a quote mark only tells you whether it opens or closes a string once   *)
(* you know what came before it" (forwarded_entries): although each scan   *)
(* starts with no quote open, at the first character of its item, it knows *)
(* at every character what one scan of the whole line would know.          *)
(***************************************************************************)
ScansAgreeWithTheLine ==
  pc = "scan" =>
    /\ in_quotes <=> at \in Inside(raw)
    /\ escaped   <=> at \in Escaped(raw)

\* What a reader of either kind is told about a part of a line.
PartOf(text) ==
  LET hop == ElementHop(text, Whole(text))
  IN  CASE text = <<>> -> [text |-> "empty"]
        [] IsAddress(text) -> [text |-> "plain", ip |-> text[1].ip]
        [] ~IsAddress(text) /\ EntryOf(text) # Opaque ->
             [text |-> "ported", ip |-> EntryOf(text).ip]
        [] text # <<>> /\ EntryOf(text) = Opaque /\ hop # {Opaque} ->
             [text |-> "for", ip |-> (CHOOSE e \in hop : TRUE).ip]
        [] OTHER -> [text |-> "opaque"]

PartsOf(text) ==
  LET cuts == Cuts(text, Comma)
      ends == InOrder(Ends(Whole(text), cuts), Len(text) + 1)
  IN  [k \in DOMAIN ends |-> PartOf(Text(text, Item(text, Whole(text), cuts, ends[k])))]

(***************************************************************************)
(* The resolver may take a header value for a list of parts, each of which *)
(* says the same wherever it stands: unless a comma or the end of the line *)
(* is inside quotes, the hops of a line are the entries of its parts, for  *)
(* readers of either kind.                                                 *)
(***************************************************************************)
PartsTellTheHops ==
  pc = "read" /\ Len(header.lines) = 1 /\ IsClosed(raw)
              /\ Cuts(raw, Comma) \cap Inside(raw) = {} =>
    LET parts == PartsOf(raw)
        told  == InOrder({k \in DOMAIN parts : parts[k].text # "empty"}, Len(parts))
    IN  entries = [k \in DOMAIN told |-> Entry(header.kind, parts[told[k]])]

(***************************************************************************)
(* Every header is read to its end, whatever quotes and escapes it leaves  *)
(* open.                                                                   *)
(***************************************************************************)
ReadingEnds == <>(pc = "read")

(***************************************************************************)
(* "Remove the quotes of an HTTP quoted string" and "Input that is not     *)
(* quoted is returned as it is" (unquote_http_quoted_string): a value      *)
(* whose opening quote is never closed is no quoted string, and gives what *)
(* it gives as it is.                                                      *)
(***************************************************************************)
OnlyQuotedStringsAreUnquoted ==
  (pc = "item" /\ level = "pair" /\ IsFor /\ IsUnclosed(ForValue)) =>
    EntryOf(Unquoted(ForValue)) = EntryOf(ForValue)

=============================================================================
