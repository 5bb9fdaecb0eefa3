--------------------------- MODULE HeaderReading ---------------------------
(***************************************************************************)
(* What a reader of chain headers promises (src/headers.rs): it is asked   *)
(* about a header, and hands over one entry for each of its hops, in the   *)
(* order in which they stand.                                              *)
(***************************************************************************)
EXTENDS Sequences

CONSTANTS
  Header,  \* the headers it may be asked about
  Hops(_)  \* the hops of a header, each a set of entries that may be read for it

VARIABLES header, phase, entries

reading == <<header, phase, entries>>

Init == header \in Header /\ phase = "asked" /\ entries = <<>>

Reply ==
  /\ phase = "asked"
  /\ phase' = "read"
  /\ Len(entries') = Len(Hops(header))
  /\ \A k \in DOMAIN Hops(header) : entries'[k] \in Hops(header)[k]
  /\ UNCHANGED header

Next == Reply

Spec == Init /\ [][Next]_reading

=============================================================================
