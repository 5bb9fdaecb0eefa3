----------------------------- MODULE HeaderText -----------------------------
(***************************************************************************)
(* The text of a header line.  The marks that its readers look for are     *)
(* characters; what holds none of them is a word and stands as one         *)
(* character: an address, a run of digits, for (in any case), unknown, or  *)
(* another name.  A &str that the readers cut out of a line is a slice of  *)
(* it, the positions first .. last.                                        *)
(***************************************************************************)
EXTENDS ChainEntries, Sequences, FiniteSets

Marks == {"quote", "backslash", "comma", "semicolon", "equals", "colon",
          "open", "close", "underscore", "space"}
Words == {"digits", "for", "unknown", "name"}

Char == [char : Marks \cup Words] \cup [char : {"address"}, ip : IpAddr]

Mark(c) == [char |-> c]

Quote      == Mark("quote")
Backslash  == Mark("backslash")
Comma      == Mark("comma")
Semicolon  == Mark("semicolon")
Equals     == Mark("equals")
Colon      == Mark("colon")
OpenBracket  == Mark("open")
CloseBracket == Mark("close")
Underscore == Mark("underscore")
Space      == Mark("space")
For        == Mark("for")
Unknown    == Mark("unknown")

\* The text parses as an address, and it is an IPv4 address.
IsAddress(text) == Len(text) = 1 /\ text[1].char = "address"
IsV4(text)      == IsAddress(text) /\ text[1].ip < V4Count

(***************************************************************************)
(* A word is as long as it can be: no two of them touch, not even once the *)
(* backslashes between them are gone, and the text 2001:db8::17:4711 is    *)
(* one address and not an address with a port.                             *)
(***************************************************************************)
Lexed(text) ==
  LET Joins(c) == c = Colon \/ (c.char = "address" /\ c.ip >= V4Count)
  IN  \A i, j \in DOMAIN text :
        /\ i < j /\ \A k \in i + 1 .. j - 1 : text[k] = Backslash
        /\ text[i] # Backslash /\ text[j] # Backslash
        => /\ text[i].char \in Marks \/ text[j].char \in Marks
           /\ ~(Joins(text[i]) /\ Joins(text[j]))

\* A chain header that a request carries, with the way it is read.
Header ==
  {h \in [kind : {"XForwardedFor", "Forwarded"}, lines : Seq(Seq(Char))] :
     h.lines # <<>> /\ \A n \in DOMAIN h.lines : Lexed(h.lines[n])}

-----------------------------------------------------------------------------

Least(positions)    == CHOOSE i \in positions : \A j \in positions : i <= j
Greatest(positions) == CHOOSE i \in positions : \A j \in positions : i >= j

Slice(first, last) == [first |-> first, last |-> last]

SlicesOf(text) == [first : 1 .. Len(text) + 1, last : 0 .. Len(text)]

Whole(text) == Slice(1, Len(text))

Text(text, slice) == SubSeq(text, slice.first, slice.last)

IsEmpty(slice) == slice.first > slice.last

\* str::trim
Trim(text, slice) ==
  LET inked == {i \in slice.first .. slice.last : text[i] # Space}
  IN  IF inked = {} THEN Slice(slice.first, slice.first - 1)
      ELSE Slice(Least(inked), Greatest(inked))

Trimmed(text) == Text(text, Trim(text, Whole(text)))

\* str::find, 0 for None.
Find(text, slice, c) ==
  LET found == {i \in slice.first .. slice.last : text[i] = c}
  IN  IF found = {} THEN 0 ELSE Least(found)

\* is_valid_node_port
IsNodePort(port) ==
  LET Named(c) == \/ c.char \in Words \cup {"underscore"}
                  \/ c.char = "address" /\ c.ip < V4Count
  IN  /\ port # <<>>
      /\ \/ \A i \in DOMAIN port : port[i].char = "digits"
         \/ /\ port[1] = Underscore
            /\ Len(port) > 1
            /\ \A i \in 2 .. Len(port) : Named(port[i])

=============================================================================
