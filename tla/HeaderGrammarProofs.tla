------------------------ MODULE HeaderGrammarProofs ------------------------
(***************************************************************************)
(* Lemmas about the text of header lines, their strings, lists and hops,   *)
(* for texts of any length.                                                *)
(***************************************************************************)
EXTENDS HeaderGrammar, IpSpaceProofs, FiniteSetTheorems, SequenceTheorems

\* The least and the greatest of some positions.
LEMMA LeastIsChosen ==
  ASSUME NEW S \in SUBSET Nat, S # {}
  PROVE  Least(S) \in S /\ \A j \in S : Least(S) <= j
<1>1. \E i \in S : \A j \in S : i <= j
  BY LeastOfSet
<1> QED
  BY <1>1 DEF Least

LEMMA GreatestIsChosen ==
  ASSUME NEW n \in Nat, NEW S \in SUBSET (1 .. n), S # {}
  PROVE  Greatest(S) \in S /\ \A j \in S : Greatest(S) >= j
BY LargestIsChosen DEF Greatest

LEMMA LeastIs ==
  ASSUME NEW S \in SUBSET Int, NEW m \in S, \A j \in S : m <= j
  PROVE  Least(S) = m
<1>1. Least(S) \in S /\ \A j \in S : Least(S) <= j
  BY DEF Least
<1>2. Least(S) \in Int /\ m \in Int /\ Least(S) <= m /\ m <= Least(S)
  BY <1>1
<1> QED
  BY <1>2

LEMMA GreatestIs ==
  ASSUME NEW S \in SUBSET Int, NEW m \in S, \A j \in S : m >= j
  PROVE  Greatest(S) = m
<1>1. Greatest(S) \in S /\ \A j \in S : Greatest(S) >= j
  BY DEF Greatest
<1>2. Greatest(S) \in Int /\ m \in Int /\ Greatest(S) >= m /\ m >= Greatest(S)
  BY <1>1
<1> QED
  BY <1>2

-----------------------------------------------------------------------------
(* The strings of a line.                                                   *)

Apart(s, t) == s.last < t.first \/ t.last < s.first

Holds(s, i) == s.first <= i /\ i <= s.last

\* Strings that put every quote up to n into one of them.
Partition(strings, text, n) ==
  /\ strings \in SUBSET {String(text, o) : o \in Quotes(text)}
  /\ \A s \in strings : s.first <= n
  /\ \A s, t \in strings : s = t \/ Apart(s, t)
  /\ \A q \in Quotes(text) : q <= n => \E s \in strings : Holds(s, q)

\* Where a string starts and ends.
LEMMA StringBounds ==
  ASSUME NEW text \in Seq(Char), NEW o \in Quotes(text),
         NEW s, s = String(text, o)
  PROVE  /\ Len(text) \in Nat /\ o \in 1 .. Len(text) /\ text[o] = Quote
         /\ s.first = o
         /\ s.last \in o + 1 .. Len(text) + 1
         /\ s.last <= Len(text) => s.last \in Closes(text, o)
         /\ \A c \in Closes(text, o) : s.last <= c
<1>1. Len(text) \in Nat /\ o \in 1 .. Len(text) /\ text[o] = Quote
  BY LenProperties DEF Quotes
<1> DEFINE closes == Closes(text, o)
           end == IF closes = {} THEN Len(text) + 1 ELSE Least(closes)
<1>2. s = [first |-> o, last |-> end]
  BY DEF String, Slice
<1>3. closes \in SUBSET (o + 1 .. Len(text))
  BY DEF Closes
<1> HIDE DEF closes
<1>4. CASE closes = {}
  BY <1>1, <1>2, <1>4 DEF closes
<1>5. CASE closes # {}
  <2>1. closes \in SUBSET Nat
    BY <1>1, <1>3
  <2>2. Least(closes) \in closes /\ \A d \in closes : Least(closes) <= d
    BY <2>1, <1>5, LeastIsChosen
  <2>3. end \in closes /\ \A d \in closes : end <= d
    BY <2>2, <1>5
  <2>4. end \in o + 1 .. Len(text)
    BY <2>3, <1>3
  <2> HIDE DEF end
  <2> QED
    BY <2>3, <2>4, <1>1, <1>2 DEF closes
<1> QED
  BY <1>4, <1>5

\* A partition up to n can be carried on to n + 1.
LEMMA PartitionGrows ==
  ASSUME NEW text \in Seq(Char), NEW n \in Nat, n < Len(text),
         NEW strings, Partition(strings, text, n)
  PROVE  \E more : Partition(more, text, n + 1)
<1>1. \A s \in strings : /\ s.first \in Quotes(text) /\ s = String(text, s.first)
                         /\ s.first \in Nat /\ s.last \in Nat /\ s.first < s.last
  BY StringBounds DEF Partition
<1>2. \A q \in Quotes(text) : q \in Nat
  BY StringBounds
<1>3. CASE n + 1 \in Quotes(text) => \E s \in strings : Holds(s, n + 1)
  <2>1. \A q \in Quotes(text) : q <= n + 1 => q <= n \/ q = n + 1
    BY <1>2
  <2>2. \A s \in strings : s.first <= n + 1
    BY <1>1 DEF Partition
  <2>3. Partition(strings, text, n + 1)
    BY <1>3, <2>1, <2>2 DEF Partition
  <2> QED
    BY <2>3
<1>4. CASE n + 1 \in Quotes(text) /\ \A s \in strings : ~Holds(s, n + 1)
  <2> DEFINE new == String(text, n + 1)
             more == strings \cup {new}
  <2>1. new.first = n + 1 /\ new.last \in Nat /\ n + 1 < new.last
    BY <1>4, StringBounds
  <2>2. \A s \in strings : s.last < new.first
    BY <1>1, <1>4, <2>1 DEF Partition, Holds
  <2>3. more \in SUBSET {String(text, o) : o \in Quotes(text)}
    BY <1>4 DEF Partition
  <2> HIDE DEF new
  <2>4. \A s \in more : s.first <= n + 1
    BY <1>1, <2>1 DEF Partition
  <2>5. \A s, t \in more : s = t \/ Apart(s, t)
    BY <2>2 DEF Partition, Apart
  <2>6. \A q \in Quotes(text) : q <= n + 1 => q <= n \/ q = n + 1
    BY <1>2
  <2>7. Holds(new, n + 1)
    BY <2>1 DEF Holds
  <2>8. \A q \in Quotes(text) : q <= n + 1 => \E s \in more : Holds(s, q)
    BY <2>6, <2>7 DEF Partition
  <2>9. Partition(more, text, n + 1)
    BY <2>3, <2>4, <2>5, <2>8 DEF Partition
  <2> QED
    BY <2>9
<1> QED
  BY <1>3, <1>4

LEMMA PartitionExists ==
  ASSUME NEW text \in Seq(Char)
  PROVE  \E strings : Partition(strings, text, Len(text))
<1>0. Len(text) \in Nat
  BY LenProperties
<1> DEFINE Cut == {n \in 0 .. Len(text) : \E strings : Partition(strings, text, n)}
<1>1. 0 \in Cut
  <2>1. \A q \in Quotes(text) : q \in Nat /\ q > 0
    BY StringBounds
  <2>2. Partition({}, text, 0)
    BY <2>1 DEF Partition
  <2> QED
    BY <1>0, <2>2
<1>2. ASSUME NEW n \in 1 .. Len(text), n - 1 \in Cut PROVE n \in Cut
  <2>1. n - 1 \in Nat /\ n - 1 < Len(text) /\ (n - 1) + 1 = n
    BY <1>0
  <2>2. PICK strings : Partition(strings, text, n - 1)
    BY <1>2
  <2>3. \E more : Partition(more, text, (n - 1) + 1)
    BY <2>1, <2>2, PartitionGrows
  <2> QED
    BY <2>1, <2>3
<1> HIDE DEF Cut
<1>3. \A n \in 0 .. Len(text) : n \in Cut
  BY <1>0, <1>1, <1>2, InductionUpTo
<1>4. Len(text) \in Cut
  BY <1>0, <1>3
<1> QED
  BY <1>4 DEF Cut

\* There is such a choice of strings, and Strings is one.
LEMMA StringsArePartition ==
  ASSUME NEW text \in Seq(Char)
  PROVE  /\ Strings(text) \in SUBSET {String(text, o) : o \in Quotes(text)}
         /\ \A q \in Quotes(text) :
              \E s \in Strings(text) :
                Holds(s, q) /\ \A t \in Strings(text) : Holds(t, q) => t = s
<1> DEFINE all == {String(text, o) : o \in Quotes(text)}
           Of(strings, q) == {s \in strings : s.first <= q /\ q <= s.last}
           IsChoice(strings) == \A q \in Quotes(text) : Cardinality(Of(strings, q)) = 1
<1>1. PICK strings : Partition(strings, text, Len(text))
  BY PartitionExists
<1>2. strings \in SUBSET all
  BY <1>1 DEF Partition
<1>3. ASSUME NEW q \in Quotes(text) PROVE Cardinality(Of(strings, q)) = 1
  <2>1. q \in Nat /\ q <= Len(text)
    BY StringBounds
  <2>2. PICK s \in strings : Holds(s, q)
    BY <1>1, <2>1 DEF Partition
  <2>3. \A t \in strings : t.first \in Nat /\ t.last \in Nat
    BY <1>2, StringBounds
  <2>4. \A t \in strings : Holds(t, q) => t = s
    BY <1>1, <2>1, <2>2, <2>3 DEF Partition, Apart, Holds
  <2>5. Of(strings, q) = {s}
    BY <2>2, <2>4 DEF Holds
  <2> QED
    BY <2>5, FS_Singleton
<1>4. IsChoice(strings)
  BY <1>3
<1> HIDE DEF IsChoice
<1>5. Strings(text) = CHOOSE chosen \in SUBSET all : IsChoice(chosen)
  BY DEF Strings, IsChoice
<1>6. Strings(text) \in SUBSET all /\ IsChoice(Strings(text))
  BY <1>2, <1>4, <1>5
<1>7. IsFiniteSet(all)
  <2> DEFINE string == [o \in Quotes(text) |-> String(text, o)]
  <2>1. Len(text) \in Nat /\ Quotes(text) \in SUBSET (1 .. Len(text))
    BY LenProperties DEF Quotes
  <2>2. IsFiniteSet(1 .. Len(text))
    BY <2>1, FS_Interval
  <2>3. IsFiniteSet(Quotes(text))
    BY <2>1, <2>2, FS_Subset
  <2>4. string \in Surjection(Quotes(text), all)
    BY DEF Surjection
  <2> QED
    BY <2>3, <2>4, FS_Surjection
<1>8. ASSUME NEW q \in Quotes(text)
      PROVE  \E s \in Strings(text) :
               Holds(s, q) /\ \A t \in Strings(text) : Holds(t, q) => t = s
  <2>1. Cardinality(Of(Strings(text), q)) = 1
    BY <1>6 DEF IsChoice
  <2>2. Of(Strings(text), q) \in SUBSET all
    BY <1>6
  <2>3. IsFiniteSet(Of(Strings(text), q))
    BY <2>2, <1>7, FS_Subset
  <2>4. PICK s : Of(Strings(text), q) = {s}
    BY <2>1, <2>3, FS_Singleton
  <2>5. \A t \in Strings(text) : Holds(t, q) <=> t \in Of(Strings(text), q)
    BY DEF Holds
  <2> QED
    BY <2>4, <2>5
<1> QED
  BY <1>6, <1>8

\* A string as StringBounds gives it.
LEMMA StringOfLine ==
  ASSUME NEW text \in Seq(Char), NEW s \in Strings(text)
  PROVE  /\ Len(text) \in Nat /\ s.first \in 1 .. Len(text) /\ text[s.first] = Quote
         /\ s.first \in Quotes(text)
         /\ s.last \in s.first + 1 .. Len(text) + 1
         /\ s.last <= Len(text) => s.last \in Closes(text, s.first)
         /\ \A c \in Closes(text, s.first) : s.last <= c
<1>1. PICK o \in Quotes(text) : s = String(text, o)
  BY StringsArePartition
<1> QED
  BY <1>1, StringBounds

\* No two strings share a position.
LEMMA OneString ==
  ASSUME NEW text \in Seq(Char), NEW s \in Strings(text), NEW t \in Strings(text),
         NEW i \in Int, Holds(s, i), Holds(t, i)
  PROVE  s = t
<1>1. s.first \in Int /\ s.last \in Int /\ t.first \in Int /\ t.last \in Int
  BY StringOfLine
<1>2. CASE s.first <= t.first
  <2>1. Holds(s, t.first) /\ Holds(t, t.first)
    BY <1>1, <1>2 DEF Holds
  <2> QED
    BY <2>1, StringOfLine, StringsArePartition
<1>3. CASE t.first <= s.first
  <2>1. Holds(s, s.first) /\ Holds(t, s.first)
    BY <1>1, <1>3 DEF Holds
  <2> QED
    BY <2>1, StringOfLine, StringsArePartition
<1> QED
  BY <1>1, <1>2, <1>3

\* How the number of backslashes right before a position goes on.
LEMMA RunGrows ==
  ASSUME NEW text \in Seq(Char), NEW o \in Nat, NEW p \in Nat, o < p
  PROVE  /\ Run(text, o, p) \in Nat
         /\ Run(text, o, o + 1) = 0
         /\ Run(text, o, p + 1) =
              IF text[p] = Backslash THEN Run(text, o, p) + 1 ELSE 0
<1> DEFINE R(n) == {i \in o + 1 .. n - 1 : \A j \in i .. n - 1 : text[j] = Backslash}
<1>1. \A n : Run(text, o, n) = Cardinality(R(n))
  BY DEF Run
<1>2. R(o + 1) = {}
  OBVIOUS
<1>3. R(p) \in SUBSET (o + 1 .. p - 1) /\ p \notin R(p)
  OBVIOUS
<1>4. IsFiniteSet(o + 1 .. p - 1)
  BY FS_Interval
<1>5. IsFiniteSet(R(p))
  BY <1>3, <1>4, FS_Subset
<1>6. ASSUME text[p] = Backslash PROVE R(p + 1) = R(p) \cup {p}
  BY <1>6
<1>7. ASSUME text[p] # Backslash PROVE R(p + 1) = {}
  BY <1>7
<1>8. Cardinality({}) = 0 /\ Cardinality(R(p)) \in Nat
  BY <1>5, FS_EmptySet, FS_CardinalityType
<1>9. Cardinality(R(p) \cup {p}) = Cardinality(R(p)) + 1
  BY <1>3, <1>5, FS_AddElement
<1> HIDE DEF R
<1>10. Run(text, o, p) \in Nat
  BY <1>1, <1>8
<1>11. Run(text, o, o + 1) = 0
  BY <1>1, <1>2, <1>8
<1>12. Run(text, o, p + 1) = IF text[p] = Backslash THEN Run(text, o, p) + 1 ELSE 0
  BY <1>1, <1>6, <1>7, <1>8, <1>9
<1> QED
  BY <1>10, <1>11, <1>12

\* A string goes on behind a position unless a quote that nothing escapes is there.
LEMMA StringGoesOn ==
  ASSUME NEW text \in Seq(Char), NEW s \in Strings(text),
         NEW p \in 1 .. Len(text), s.first < p, p <= s.last
  PROVE  IF text[p] = Quote /\ Run(text, s.first, p) % 2 = 0
           THEN s.last = p ELSE p + 1 <= s.last
<1>1. Len(text) \in Nat /\ s.first \in Nat /\ s.last \in Nat
  BY StringOfLine
<1>2. CASE text[p] = Quote /\ Run(text, s.first, p) % 2 = 0
  <2>1. p \in Closes(text, s.first)
    BY <1>1, <1>2 DEF Closes
  <2> QED
    BY <2>1, <1>1, <1>2, StringOfLine
<1>3. CASE ~(text[p] = Quote /\ Run(text, s.first, p) % 2 = 0)
  <2>1. p \notin Closes(text, s.first)
    BY <1>1, <1>3 DEF Closes
  <2>2. s.last # p
    BY <2>1, <1>1, StringOfLine
  <2> QED
    BY <2>2, <1>1, <1>3
<1> QED
  BY <1>2, <1>3

LEMMA PositionsInside ==
  ASSUME NEW text \in Seq(Char), NEW i \in Int
  PROVE  /\ i \in Inside(text) <=>
              \E s \in Strings(text) : s.first < i /\ i <= s.last
         /\ i \in Escaped(text) <=>
              \E s \in Strings(text) :
                s.first < i /\ i <= s.last /\ Run(text, s.first, i) % 2 = 1
<1>1. \A s \in Strings(text) :
        s.first \in Int /\ s.last \in Int /\ (i \in s.first + 1 .. s.last <=> s.first < i /\ i <= s.last)
  BY StringOfLine
<1>2. i \in Inside(text) <=> \E s \in Strings(text) : i \in s.first + 1 .. s.last
  BY DEF Inside
<1>3. i \in Escaped(text) <=>
        \E s \in Strings(text) :
          i \in s.first + 1 .. s.last /\ Run(text, s.first, i) % 2 = 1
  BY DEF Escaped
<1> QED
  BY <1>1, <1>2, <1>3

\* Outside of strings only a quote changes anything.
LEMMA FromOutside ==
  ASSUME NEW text \in Seq(Char), NEW p \in 1 .. Len(text), p \notin Inside(text)
  PROVE  /\ p \notin Escaped(text)
         /\ p + 1 \notin Escaped(text)
         /\ p + 1 \in Inside(text) <=> text[p] = Quote
<1>1. p \in Nat /\ p \in Int /\ p + 1 \in Int /\ Len(text) \in Nat
  BY LenProperties
<1>2. ASSUME NEW s \in Strings(text), s.first < p + 1, p + 1 <= s.last
      PROVE  s.first = p
  <2>1. s.first \in Int /\ s.last \in Int
    BY StringOfLine
  <2>2. ~(s.first < p /\ p <= s.last)
    BY <1>1, PositionsInside
  <2> QED
    BY <1>1, <1>2, <2>1, <2>2
<1>3. ASSUME text[p] = Quote PROVE p + 1 \in Inside(text)
  <2>1. p \in Quotes(text)
    BY <1>1, <1>3, LenProperties DEF Quotes
  <2>2. PICK s \in Strings(text) : Holds(s, p)
    BY <2>1, StringsArePartition
  <2>3. s.first \in Int /\ s.last \in Int /\ s.first < s.last
    BY StringOfLine
  <2>4. s.first = p
    BY <1>1, <2>2, <2>3, PositionsInside DEF Holds
  <2>5. s.first < p + 1 /\ p + 1 <= s.last
    BY <1>1, <2>3, <2>4
  <2> QED
    BY <1>1, <2>5, PositionsInside
<1>4. ASSUME p + 1 \in Inside(text) PROVE text[p] = Quote
  BY <1>1, <1>2, <1>4, PositionsInside, StringOfLine
<1>5. p \notin Escaped(text)
  BY <1>1, PositionsInside
<1>6. p + 1 \notin Escaped(text)
  <2>1. SUFFICES ASSUME NEW s \in Strings(text), s.first < p + 1, p + 1 <= s.last,
                        Run(text, s.first, p + 1) % 2 = 1
                 PROVE  FALSE
    BY <1>1, PositionsInside
  <2>2. s.first = p /\ p \in Nat /\ p + 1 \in Nat /\ p < p + 1
    BY <1>1, <1>2, <2>1
  <2>3. Run(text, p, p + 1) = 0
    BY <2>2, RunGrows
  <2> QED
    BY <2>1, <2>2, <2>3
<1> QED
  BY <1>3, <1>4, <1>5, <1>6

\* What follows a position inside of a string.
LEMMA FromInside ==
  ASSUME NEW text \in Seq(Char), NEW p \in 1 .. Len(text), p \in Inside(text)
  PROVE  /\ p + 1 \in Inside(text) <=> p \in Escaped(text) \/ text[p] # Quote
         /\ p + 1 \in Escaped(text) <=>
              p \notin Escaped(text) /\ text[p] = Backslash
<1>1. p \in Nat /\ p \in Int /\ p + 1 \in Int /\ Len(text) \in Nat
  BY LenProperties
<1>2. PICK s \in Strings(text) : s.first < p /\ p <= s.last
  BY <1>1, PositionsInside
<1>3. s.first \in Nat /\ s.last \in Nat
  BY StringOfLine
<1>4. Holds(s, p)
  BY <1>1, <1>2, <1>3 DEF Holds
<1>5. ASSUME NEW t \in Strings(text), t.first < p, p <= t.last PROVE t = s
  <2>1. Holds(t, p)
    BY <1>1, <1>5, StringOfLine DEF Holds
  <2> QED
    BY <1>1, <1>4, <2>1, OneString
<1>6. ASSUME NEW t \in Strings(text), t.first < p + 1, p + 1 <= t.last PROVE t = s
  <2>1. t.first \in Int /\ t.last \in Int
    BY StringOfLine
  <2>2. Holds(t, p)
    BY <1>1, <1>6, <2>1 DEF Holds
  <2> QED
    BY <1>1, <1>4, <2>2, OneString
<1> DEFINE run == Run(text, s.first, p)
           next == Run(text, s.first, p + 1)
<1>7. run \in Nat /\ next = IF text[p] = Backslash THEN run + 1 ELSE 0
  BY <1>1, <1>2, <1>3, RunGrows
<1>8. p \in Escaped(text) <=> run % 2 = 1
  BY <1>1, <1>2, <1>5, PositionsInside
<1>9. s.first < p + 1
  BY <1>1, <1>2, <1>3
<1>10. p + 1 \in Inside(text) <=> p + 1 <= s.last
  BY <1>1, <1>6, <1>9, PositionsInside
<1>11. p + 1 \in Escaped(text) <=> p + 1 <= s.last /\ next % 2 = 1
  BY <1>1, <1>6, <1>9, PositionsInside
<1>12. IF text[p] = Quote /\ run % 2 = 0 THEN s.last = p ELSE p + 1 <= s.last
  BY <1>2, StringGoesOn
<1>13. Quote # Backslash
  BY DEF Quote, Backslash, Mark
<1> HIDE DEF run, next
<1>14. (run + 1) % 2 = 1 <=> run % 2 = 0
  BY <1>7
<1>15. run % 2 = 0 \/ run % 2 = 1
  BY <1>7
<1> QED
  BY <1>1, <1>3, <1>7, <1>8, <1>10, <1>11, <1>12, <1>13, <1>14, <1>15

\* Every position inside of a string comes after a quote.
LEMMA LineStartsOutside ==
  ASSUME NEW text \in Seq(Char)
  PROVE  1 \notin Inside(text)
BY StringOfLine, PositionsInside

\* Only a quote opens a string.
LEMMA OutsideGoesOn ==
  ASSUME NEW text \in Seq(Char), NEW p \in Nat, NEW q \in Nat, p <= q,
         p \notin Inside(text), \A i \in p .. q - 1 : text[i] # Quote
  PROVE  q \notin Inside(text)
<1>1. SUFFICES ASSUME NEW s \in Strings(text), s.first < q, q <= s.last
               PROVE  FALSE
  BY PositionsInside
<1>2. s.first \in Nat /\ s.last \in Nat /\ text[s.first] = Quote
  BY StringOfLine
<1>3. s.first < p
  BY <1>1, <1>2
<1>4. p \in Inside(text)
  BY <1>1, <1>2, <1>3, PositionsInside
<1> QED
  BY <1>4

LEMMA OutsideBehindBlanks ==
  ASSUME NEW text \in Seq(Char), NEW p \in Nat, NEW q \in Nat, p <= q,
         p \notin Inside(text), \A i \in p .. q - 1 : text[i] = Space
  PROVE  q \notin Inside(text)
<1>1. Quote # Space
  BY DEF Quote, Space, Mark
<1> QED
  BY <1>1, OutsideGoesOn

-----------------------------------------------------------------------------
(* Pieces of a text, and what they give.                                    *)

LEMMA PieceOfText ==
  ASSUME NEW text \in Seq(Char), NEW m \in Nat \ {0}, NEW n \in Int, n <= Len(text)
  PROVE  SubSeq(text, m, n) \in Seq(Char)
<1>1. \A i \in m .. n : i \in 1 .. Len(text)
  BY LenProperties
<1>2. \A i \in m .. n : text[i] \in Char
  BY <1>1, ElementOfSeq
<1> QED
  BY <1>2, SubSeqProperties

LEMMA TrimBounds ==
  ASSUME NEW text \in Seq(Char), NEW slice \in SlicesOf(text)
  PROVE  /\ Trim(text, slice) \in SlicesOf(text)
         /\ slice.first <= Trim(text, slice).first
         /\ ~IsEmpty(Trim(text, slice)) => Trim(text, slice).last <= slice.last
         /\ \A i \in slice.first .. Trim(text, slice).first - 1 : text[i] = Space
<1>1. /\ Len(text) \in Nat
      /\ slice.first \in 1 .. Len(text) + 1 /\ slice.last \in 0 .. Len(text)
  BY LenProperties DEF SlicesOf
<1> DEFINE inked == {i \in slice.first .. slice.last : text[i] # Space}
<1>2. inked \in SUBSET (1 .. Len(text)) /\ inked \in SUBSET Nat
  BY <1>1
<1>3. CASE inked = {}
  <2>1. Trim(text, slice) = [first |-> slice.first, last |-> slice.first - 1]
    BY <1>3 DEF Trim, Slice
  <2> QED
    BY <2>1, <1>1 DEF SlicesOf, IsEmpty
<1>4. CASE inked # {}
  <2>1. Trim(text, slice) = [first |-> Least(inked), last |-> Greatest(inked)]
    BY <1>4 DEF Trim, Slice
  <2> HIDE DEF inked
  <2>2. Least(inked) \in inked /\ \A j \in inked : Least(inked) <= j
    BY <1>2, <1>4, LeastIsChosen
  <2>3. Greatest(inked) \in inked
    BY <1>1, <1>2, <1>4, GreatestIsChosen
  <2>4. \A i \in slice.first .. Least(inked) - 1 : text[i] = Space
    BY <1>1, <1>2, <2>2 DEF inked
  <2>5. Trim(text, slice).first = Least(inked) /\ Trim(text, slice).last = Greatest(inked)
    BY <2>1
  <2>6. /\ Least(inked) \in 1 .. Len(text) + 1 /\ Greatest(inked) \in 0 .. Len(text)
        /\ slice.first <= Least(inked) /\ Greatest(inked) <= slice.last
    BY <1>1, <1>2, <2>2, <2>3 DEF inked
  <2>7. Trim(text, slice) \in SlicesOf(text)
    BY <2>1, <2>6 DEF SlicesOf
  <2> QED
    BY <2>4, <2>5, <2>6, <2>7
<1> QED
  BY <1>3, <1>4

LEMMA FindBounds ==
  ASSUME NEW text, NEW slice, NEW c, slice.first \in Nat, slice.last \in Int
  PROVE  \/ Find(text, slice, c) = 0
         \/ Find(text, slice, c) \in slice.first .. slice.last
<1> DEFINE found == {i \in slice.first .. slice.last : text[i] = c}
<1>1. CASE found = {}
  BY <1>1 DEF Find
<1>2. CASE found # {}
  <2>1. found \in SUBSET Nat
    OBVIOUS
  <2>2. Find(text, slice, c) = Least(found)
    BY <1>2 DEF Find
  <2>3. Find(text, slice, c) \in found
    BY <1>2, <2>1, <2>2, LeastIsChosen
  <2> QED
    BY <2>3
<1> QED
  BY <1>1, <1>2

\* What str::find finds.
LEMMA FindFirst ==
  ASSUME NEW text, NEW slice, slice.first \in Nat, slice.last \in Int, NEW c
  PROVE  LET found == Find(text, slice, c)
         IN  \/ found = 0 /\ \A i \in slice.first .. slice.last : text[i] # c
             \/ /\ found \in slice.first .. slice.last /\ text[found] = c
                /\ \A i \in slice.first .. found - 1 : text[i] # c
<1> DEFINE at_c == {i \in slice.first .. slice.last : text[i] = c}
<1>1. Find(text, slice, c) = IF at_c = {} THEN 0 ELSE Least(at_c)
  BY DEF Find
<1>2. CASE at_c = {}
  BY <1>1, <1>2
<1>3. CASE at_c # {}
  <2>1. at_c \in SUBSET Nat
    OBVIOUS
  <2> DEFINE found == Least(at_c)
  <2>2. found \in at_c /\ \A j \in at_c : found <= j
    <3> HIDE DEF at_c
    <3> QED
      BY <1>3, <2>1, LeastIsChosen
  <2> HIDE DEF found
  <2>3. found \in slice.first .. slice.last /\ text[found] = c
    BY <2>2
  <2>4. \A i \in slice.first .. found - 1 : text[i] # c
    BY <2>2, <2>3
  <2> QED
    BY <1>1, <1>3, <2>3, <2>4 DEF found
<1> QED
  BY <1>2, <1>3

-----------------------------------------------------------------------------
(* Positions in their order.                                                *)

\* How the list of positions goes on at n.
Listed(f, positions, n) ==
  IF n = 0 THEN <<>> ELSE IF n \in positions THEN Append(f[n - 1], n) ELSE f[n - 1]

Lists(f, positions, last) == f = [n \in 0 .. last |-> Listed(f, positions, n)]

LEMMA ListExists ==
  ASSUME NEW positions, NEW last \in Nat
  PROVE  \E f \in [0 .. last -> Seq(Nat)] : Lists(f, positions, last)
<1> DEFINE next == [p \in (1 .. last) \X Seq(Nat) |->
                      IF p[1] \in positions THEN Append(p[2], p[1]) ELSE p[2]]
           none == <<>>
<1>1. none \in Seq(Nat)
  BY EmptySeq
<1>2. \A n \in 1 .. last : \A s \in Seq(Nat) :
        next[<<n, s>>] = IF n \in positions THEN Append(s, n) ELSE s
  OBVIOUS
<1>3. next \in [(1 .. last) \X Seq(Nat) -> Seq(Nat)]
  <2>1. \A n \in 1 .. last : \A s \in Seq(Nat) : Append(s, n) \in Seq(Nat)
    BY AppendProperties
  <2> QED
    BY <2>1
<1> HIDE DEF next, none
<1>4. PICK f \in [0 .. last -> Seq(Nat)] : Follows(f, none, next, last)
  BY <1>1, <1>3, RecursionExists
<1>5. f[0] = none /\ \A n \in 1 .. last : f[n] = next[<<n, f[n - 1]>>]
  BY <1>4 DEF Follows
<1>6. ASSUME NEW n \in 0 .. last PROVE f[n] = Listed(f, positions, n)
  <2>1. CASE n = 0
    BY <1>5, <2>1 DEF Listed, none
  <2>2. CASE n # 0
    <3>1. n \in 1 .. last /\ n - 1 \in 0 .. last
      BY <2>2
    <3>2. f[n - 1] \in Seq(Nat)
      BY <3>1
    <3> QED
      BY <1>2, <1>5, <2>2, <3>1, <3>2 DEF Listed
  <2> QED
    BY <2>1, <2>2
<1> QED
  BY <1>6 DEF Lists

LEMMA ListsAgree ==
  ASSUME NEW positions, NEW m \in Nat, NEW n \in Nat, NEW f, NEW g,
         Lists(f, positions, m), Lists(g, positions, n)
  PROVE  \A i \in 0 .. m : i <= n => f[i] = g[i]
<1> DEFINE T == {i \in 0 .. m : i <= n => f[i] = g[i]}
<1>1. /\ \A i \in 0 .. m : f[i] = Listed(f, positions, i)
      /\ \A i \in 0 .. n : g[i] = Listed(g, positions, i)
  BY DEF Lists
<1>2. 0 \in T
  <2>1. 0 \in 0 .. m /\ 0 \in 0 .. n
    OBVIOUS
  <2>2. f[0] = <<>> /\ g[0] = <<>>
    BY <1>1, <2>1 DEF Listed
  <2> QED
    BY <2>1, <2>2
<1>3. ASSUME NEW i \in 1 .. m, i - 1 \in T PROVE i \in T
  <2>1. i \in 0 .. m /\ i # 0
    OBVIOUS
  <2>2. ASSUME i <= n PROVE f[i] = g[i]
    <3>1. i \in 0 .. n /\ i - 1 <= n
      BY <2>2
    <3>2. f[i - 1] = g[i - 1]
      BY <1>3, <3>1
    <3>3. f[i] = Listed(f, positions, i) /\ g[i] = Listed(g, positions, i)
      BY <1>1, <2>1, <3>1
    <3> QED
      BY <2>1, <3>2, <3>3 DEF Listed
  <2> QED
    BY <2>1, <2>2
<1> HIDE DEF T
<1>4. \A i \in 0 .. m : i \in T
  BY <1>2, <1>3, InductionUpTo
<1> QED
  BY <1>4 DEF T

\* What InOrder is, from one position to the next.
LEMMA InOrderStep ==
  ASSUME NEW positions
  PROVE  /\ InOrder(positions, 0) = <<>>
         /\ \A n \in Nat :
              /\ InOrder(positions, n) \in Seq(Nat)
              /\ InOrder(positions, n + 1) =
                   IF n + 1 \in positions THEN Append(InOrder(positions, n), n + 1)
                   ELSE InOrder(positions, n)
<1> DEFINE list(n) == CHOOSE f : Lists(f, positions, n)
<1>1. \A n : InOrder(positions, n) = list(n)[n]
  BY DEF InOrder, Lists, Listed
<1>2. ASSUME NEW n \in Nat
      PROVE  /\ Lists(list(n), positions, n)
             /\ \A m \in 0 .. n : list(n)[m] = Listed(list(n), positions, m)
  <2>1. Lists(list(n), positions, n)
    BY ListExists
  <2> HIDE DEF list
  <2> QED
    BY <2>1 DEF Lists
<1> HIDE DEF list
<1>3. ASSUME NEW n \in Nat, NEW f \in [0 .. n -> Seq(Nat)], Lists(f, positions, n)
      PROVE  \A m \in 0 .. n : list(n)[m] = f[m]
  BY <1>2, <1>3, ListsAgree
<1>4. ASSUME NEW n \in Nat PROVE InOrder(positions, n) \in Seq(Nat)
  <2>1. PICK f \in [0 .. n -> Seq(Nat)] : Lists(f, positions, n)
    BY ListExists
  <2>2. n \in 0 .. n /\ f[n] \in Seq(Nat)
    BY <2>1
  <2> QED
    BY <1>1, <1>3, <2>1, <2>2
<1>5. ASSUME NEW n \in Nat
      PROVE  InOrder(positions, n + 1) =
               IF n + 1 \in positions THEN Append(InOrder(positions, n), n + 1)
               ELSE InOrder(positions, n)
  <2>1. n + 1 \in Nat /\ n + 1 \in 0 .. n + 1 /\ n \in 0 .. n /\ n <= n + 1
    OBVIOUS
  <2>2. list(n)[n] = list(n + 1)[n]
    BY <1>2, <2>1, ListsAgree
  <2>3. list(n + 1)[n + 1] = Listed(list(n + 1), positions, n + 1) /\ (n + 1) - 1 = n /\ n + 1 # 0
    BY <1>2, <2>1
  <2> QED
    BY <1>1, <2>2, <2>3 DEF Listed
<1>6. InOrder(positions, 0) = <<>>
  BY <1>1, <1>2 DEF Listed
<1> QED
  BY <1>4, <1>5, <1>6

\* Induction over the positions of a text, from one of them on.
LEMMA InductionFrom ==
  ASSUME NEW first \in Int, NEW last \in Int, NEW T, first \in T,
         \A n \in first .. last - 1 : n \in T => n + 1 \in T
  PROVE  \A n \in first .. last : n \in T
<1>1. CASE last < first
  BY <1>1
<1>2. CASE first <= last
  <2> DEFINE U == {k \in 0 .. last - first : first + k \in T}
  <2>1. last - first \in Nat /\ 0 \in U
    BY <1>2
  <2>2. ASSUME NEW k \in 1 .. last - first, k - 1 \in U PROVE k \in U
    <3>1. first + (k - 1) \in T /\ first + (k - 1) \in first .. last - 1
          /\ (first + (k - 1)) + 1 = first + k
      BY <2>2
    <3> QED
      BY <3>1
  <2> HIDE DEF U
  <2>3. \A k \in 0 .. last - first : k \in U
    BY <2>1, <2>2, InductionUpTo
  <2>4. ASSUME NEW n \in first .. last PROVE n \in T
    <3>1. n - first \in U /\ first + (n - first) = n
      BY <2>3
    <3> QED
      BY <3>1 DEF U
  <2> QED
    BY <2>4
<1> QED
  BY <1>1, <1>2

\* The positions that are listed are those of the set, each before the next one.
LEMMA InOrderLists ==
  ASSUME NEW positions, NEW n \in Nat
  PROVE  /\ InOrder(positions, n) \in Seq(Nat)
         /\ \A k \in DOMAIN InOrder(positions, n) : InOrder(positions, n)[k] \in (1 .. n) \cap positions
<1> DEFINE T == {m \in Nat : \A k \in DOMAIN InOrder(positions, m) :
                               InOrder(positions, m)[k] \in (1 .. m) \cap positions}
<1>1. \A m \in Nat : InOrder(positions, m) \in Seq(Nat)
  BY InOrderStep
<1>2. 0 \in T
  BY InOrderStep
<1>3. ASSUME NEW m \in 0 .. n - 1, m \in T PROVE m + 1 \in T
  <2> DEFINE before == InOrder(positions, m)
             after  == InOrder(positions, m + 1)
  <2>1. m + 1 \in Nat /\ m \in Nat
    OBVIOUS
  <2>2. before \in Seq(Nat) /\ \A k \in DOMAIN before : before[k] \in (1 .. m) \cap positions
    BY <1>1, <1>3
  <2>3. after = IF m + 1 \in positions THEN Append(before, m + 1) ELSE before
    BY <2>1, InOrderStep
  <2> HIDE DEF before, after
  <2>4. \A k \in DOMAIN after : after[k] \in (1 .. m + 1) \cap positions
    <3>1. CASE m + 1 \in positions
      <4>1. Len(after) = Len(before) + 1 /\ after \in Seq(Nat) /\ Len(before) \in Nat
        BY <2>1, <2>2, <2>3, <3>1, AppendProperties, LenProperties
      <4>2. DOMAIN after = 1 .. Len(before) + 1 /\ DOMAIN before = 1 .. Len(before)
        BY <2>2, <4>1, LenProperties
      <4>3. /\ \A k \in 1 .. Len(before) : after[k] = before[k]
            /\ after[Len(before) + 1] = m + 1
        BY <2>1, <2>2, <2>3, <3>1, AppendProperties
      <4>4. \A k \in 1 .. Len(before) : after[k] \in (1 .. m + 1) \cap positions
        BY <2>2, <4>2, <4>3
      <4> QED
        BY <2>1, <3>1, <4>1, <4>2, <4>3, <4>4
    <3>2. CASE m + 1 \notin positions
      BY <2>2, <2>3, <3>2
    <3> QED
      BY <3>1, <3>2
  <2> QED
    BY <2>1, <2>4 DEF after
<1> HIDE DEF T
<1>4. n \in T
  BY <1>2, <1>3, InductionFrom
<1> QED
  BY <1>1, <1>4 DEF T

\* Where no position of the set is, nothing is listed.
LEMMA InOrderSkips ==
  ASSUME NEW positions, NEW m \in Nat, NEW n \in Nat, m <= n,
         \A i \in m + 1 .. n : i \notin positions
  PROVE  InOrder(positions, n) = InOrder(positions, m)
<1> DEFINE T == {i \in Nat : InOrder(positions, i) = InOrder(positions, m)}
<1>1. m \in T
  OBVIOUS
<1>2. ASSUME NEW i \in m .. n - 1, i \in T PROVE i + 1 \in T
  <2>1. i \in Nat /\ i + 1 \in Nat /\ i + 1 \in m + 1 .. n
    OBVIOUS
  <2> QED
    BY <1>2, <2>1, InOrderStep
<1> HIDE DEF T
<1>3. \A i \in m .. n : i \in T
  BY <1>1, <1>2, InductionFrom
<1> QED
  BY <1>3 DEF T

\* Of a set only the positions that come into question matter.
LEMMA InOrderSame ==
  ASSUME NEW P, NEW Q, NEW n \in Nat, \A i \in 1 .. n : i \in P <=> i \in Q
  PROVE  InOrder(P, n) = InOrder(Q, n)
<1> DEFINE T == {i \in Nat : InOrder(P, i) = InOrder(Q, i)}
<1>1. 0 \in T
  BY InOrderStep
<1>2. ASSUME NEW i \in 0 .. n - 1, i \in T PROVE i + 1 \in T
  <2>1. i \in Nat /\ i + 1 \in Nat /\ i + 1 \in 1 .. n
    OBVIOUS
  <2>2. i + 1 \in P <=> i + 1 \in Q
    BY <2>1
  <2> QED
    BY <1>2, <2>1, <2>2, InOrderStep
<1> HIDE DEF T
<1>3. \A i \in 0 .. n : i \in T
  BY <1>1, <1>2, InductionFrom
<1> QED
  BY <1>3 DEF T

\* Of two texts, one behind the other, the positions are those of the first, then
\* those of the second, moved.
Shifted(P, Q, m, n) == \A i \in 1 .. n : i \in Q <=> i + m \in P

ListsJoin(P, Q, m, n) ==
  /\ Len(InOrder(P, m + n)) = Len(InOrder(P, m)) + Len(InOrder(Q, n))
  /\ \A k \in 1 .. Len(InOrder(P, m)) : InOrder(P, m + n)[k] = InOrder(P, m)[k]
  /\ \A k \in 1 .. Len(InOrder(Q, n)) :
       InOrder(P, m + n)[Len(InOrder(P, m)) + k] = InOrder(Q, n)[k] + m

LEMMA InOrderJoins ==
  ASSUME NEW P, NEW Q, NEW m \in Nat, NEW n \in Nat, Shifted(P, Q, m, n)
  PROVE  ListsJoin(P, Q, m, n)
<1> DEFINE Joins(i) ==
      /\ Len(InOrder(P, m + i)) = Len(InOrder(P, m)) + Len(InOrder(Q, i))
      /\ \A k \in 1 .. Len(InOrder(P, m)) : InOrder(P, m + i)[k] = InOrder(P, m)[k]
      /\ \A k \in 1 .. Len(InOrder(Q, i)) :
           InOrder(P, m + i)[Len(InOrder(P, m)) + k] = InOrder(Q, i)[k] + m
           T == {i \in Nat : Joins(i)}
<1>1. \A i \in Nat : InOrder(P, i) \in Seq(Nat) /\ InOrder(Q, i) \in Seq(Nat)
  BY InOrderStep
<1>2. \A i \in Nat : Len(InOrder(P, i)) \in Nat /\ Len(InOrder(Q, i)) \in Nat
  BY <1>1, LenProperties
<1>3. Joins(0)
  <2>1. InOrder(Q, 0) = <<>> /\ Len(InOrder(Q, 0)) = 0 /\ m + 0 = m
    BY InOrderStep, EmptySeq
  <2>2. 1 .. 0 = {} /\ Len(InOrder(P, m)) \in Nat
    BY <1>2
  <2>3. 1 .. Len(InOrder(Q, 0)) = {}
    BY <2>1, <2>2
  <2> QED
    BY <2>1, <2>2, <2>3
<1>4. ASSUME NEW i \in 0 .. n - 1, Joins(i) PROVE Joins(i + 1)
  <2>1. i \in Nat /\ i + 1 \in Nat /\ i + 1 \in 1 .. n /\ m + i \in Nat /\ m + (i + 1) = (m + i) + 1
    OBVIOUS
  <2> DEFINE p == InOrder(P, m + i)
             q == InOrder(Q, i)
             p1 == InOrder(P, m + (i + 1))
             q1 == InOrder(Q, i + 1)
             b == Len(InOrder(P, m))
  <2>2. i + 1 \in Q <=> (m + i) + 1 \in P
    BY <2>1 DEF Shifted
  <2>3. p1 = IF (m + i) + 1 \in P THEN Append(p, (m + i) + 1) ELSE p
    BY <2>1, InOrderStep
  <2>4. q1 = IF i + 1 \in Q THEN Append(q, i + 1) ELSE q
    BY <2>1, InOrderStep
  <2>5. p \in Seq(Nat) /\ q \in Seq(Nat) /\ b \in Nat /\ Len(p) \in Nat /\ Len(q) \in Nat
    BY <1>1, <1>2, <2>1
  <2>6. /\ Len(p) = b + Len(q)
        /\ \A k \in 1 .. b : p[k] = InOrder(P, m)[k]
        /\ \A k \in 1 .. Len(q) : p[b + k] = q[k] + m
    BY <1>4
  <2> SUFFICES /\ Len(p1) = b + Len(q1)
               /\ \A k \in 1 .. b : p1[k] = InOrder(P, m)[k]
               /\ \A k \in 1 .. Len(q1) : p1[b + k] = q1[k] + m
    OBVIOUS
  <2> HIDE DEF p, q, p1, q1, b, Joins
  <2>7. CASE i + 1 \notin Q
    BY <2>2, <2>3, <2>4, <2>6, <2>7
  <2>8. CASE i + 1 \in Q
    <3>1. /\ Len(p1) = Len(p) + 1
          /\ \A k \in 1 .. Len(p) : p1[k] = p[k]
          /\ p1[Len(p) + 1] = (m + i) + 1
      BY <2>1, <2>2, <2>3, <2>5, <2>8, AppendProperties
    <3>2. /\ Len(q1) = Len(q) + 1
          /\ \A k \in 1 .. Len(q) : q1[k] = q[k]
          /\ q1[Len(q) + 1] = i + 1
      BY <2>1, <2>4, <2>5, <2>8, AppendProperties
    <3>3. \A k \in 1 .. b : p1[k] = InOrder(P, m)[k]
      BY <2>5, <2>6, <3>1
    <3>4. ASSUME NEW k \in 1 .. Len(q1) PROVE p1[b + k] = q1[k] + m
      <4>1. CASE k \in 1 .. Len(q)
        <5>1. b + k \in 1 .. Len(p)
          BY <2>5, <2>6, <4>1
        <5> QED
          BY <2>6, <3>1, <3>2, <4>1, <5>1
      <4>2. CASE k = Len(q) + 1
        <5>1. b + k = Len(p) + 1
          BY <2>5, <2>6, <4>2
        <5> QED
          BY <2>1, <3>1, <3>2, <4>2, <5>1
      <4>3. k \in 1 .. Len(q) \/ k = Len(q) + 1
        BY <2>5, <3>2
      <4> QED
        BY <4>1, <4>2, <4>3
    <3>5. Len(p1) = b + Len(q1)
      BY <2>5, <2>6, <3>1, <3>2
    <3> QED
      BY <3>3, <3>4, <3>5
  <2> QED
    BY <2>7, <2>8
<1> HIDE DEF Joins
<1>5. 0 \in T
  BY <1>3
<1>6. \A i \in 0 .. n - 1 : i \in T => i + 1 \in T
  BY <1>4
<1> HIDE DEF T
<1>7. \A i \in 0 .. n : i \in T
  BY <1>5, <1>6, InductionFrom
<1>8. Joins(n)
  BY <1>7 DEF T
<1> QED
  BY <1>8 DEF Joins, ListsJoin

LEMMA InOrderHas ==
  ASSUME NEW positions, NEW n \in Nat, NEW i \in (1 .. n) \cap positions
  PROVE  \E k \in 1 .. Len(InOrder(positions, n)) : InOrder(positions, n)[k] = i
<1> DEFINE T == {m \in Nat : \E k \in 1 .. Len(InOrder(positions, m)) : InOrder(positions, m)[k] = i}
<1>1. \A m \in Nat : InOrder(positions, m) \in Seq(Nat) /\ Len(InOrder(positions, m)) \in Nat
  BY InOrderStep, LenProperties
<1>2. i \in T
  <2>1. i - 1 \in Nat /\ (i - 1) + 1 = i /\ i \in Nat
    OBVIOUS
  <2> DEFINE before == InOrder(positions, i - 1)
  <2>2. InOrder(positions, i) = Append(before, i) /\ before \in Seq(Nat) /\ Len(before) \in Nat
    <3> DEFINE j == i - 1
    <3>1. j \in Nat /\ j + 1 = i
      BY <2>1
    <3> HIDE DEF j
    <3>2. InOrder(positions, j + 1) = Append(InOrder(positions, j), j + 1)
      BY <3>1, InOrderStep
    <3>3. before = InOrder(positions, j)
      BY DEF j
    <3> QED
      BY <1>1, <3>1, <3>2, <3>3
  <2> HIDE DEF before
  <2>3. Len(Append(before, i)) = Len(before) + 1 /\ Append(before, i)[Len(before) + 1] = i
    BY <2>1, <2>2, AppendProperties
  <2>4. Len(before) + 1 \in 1 .. Len(InOrder(positions, i))
    BY <2>2, <2>3
  <2> QED
    BY <2>1, <2>2, <2>3, <2>4
<1>3. ASSUME NEW m \in i .. n - 1, m \in T PROVE m + 1 \in T
  <2>1. m \in Nat /\ m + 1 \in Nat
    OBVIOUS
  <2> DEFINE before == InOrder(positions, m)
             after == InOrder(positions, m + 1)
  <2>2. before \in Seq(Nat) /\ Len(before) \in Nat /\ after \in {before, Append(before, m + 1)}
    BY <1>1, <2>1, InOrderStep
  <2>3. PICK k \in 1 .. Len(before) : before[k] = i
    BY <1>3
  <2> HIDE DEF before, after
  <2>4. k \in 1 .. Len(after) /\ after[k] = i
    BY <2>1, <2>2, <2>3, AppendProperties
  <2> QED
    BY <2>1, <2>4 DEF after
<1> HIDE DEF T
<1>4. \A m \in i .. n : m \in T
  BY <1>2, <1>3, InductionFrom
<1>5. n \in T
  BY <1>4
<1> QED
  BY <1>5 DEF T

\* Of the listed positions those of a smaller set, in their order, are those that
\* the smaller set has in its own.
Kept(P, Q, n) == {k \in 1 .. Len(InOrder(P, n)) : InOrder(P, n)[k] \in Q}

InOrderKept(P, Q, n) == InOrder(Kept(P, Q, n), Len(InOrder(P, n)))

KeptIs(P, Q, n) ==
  /\ Len(InOrder(Q, n)) = Len(InOrderKept(P, Q, n))
  /\ \A k \in 1 .. Len(InOrder(Q, n)) :
       InOrder(Q, n)[k] = InOrder(P, n)[InOrderKept(P, Q, n)[k]]

LEMMA InOrderTwice ==
  ASSUME NEW P, NEW Q \in SUBSET P, NEW n \in Nat
  PROVE  KeptIs(P, Q, n)
<1> DEFINE T == {m \in Nat : KeptIs(P, Q, m)}
<1>1. \A m \in Nat : /\ InOrder(P, m) \in Seq(Nat) /\ Len(InOrder(P, m)) \in Nat
                     /\ InOrder(Q, m) \in Seq(Nat) /\ Len(InOrder(Q, m)) \in Nat
  BY InOrderStep, LenProperties
<1>2. 0 \in T
  <2>1. InOrder(P, 0) = <<>> /\ InOrder(Q, 0) = <<>> /\ Len(InOrder(P, 0)) = 0 /\ Len(InOrder(Q, 0)) = 0
    BY InOrderStep, EmptySeq
  <2>2. InOrderKept(P, Q, 0) = <<>>
    BY <2>1, InOrderStep DEF InOrderKept
  <2> QED
    BY <2>1, <2>2 DEF KeptIs
<1>3. ASSUME NEW m \in 0 .. n - 1, m \in T PROVE m + 1 \in T
  <2> DEFINE p == InOrder(P, m)
             q == InOrder(Q, m)
             kept == InOrderKept(P, Q, m)
             p1 == InOrder(P, m + 1)
             q1 == InOrder(Q, m + 1)
             kept1 == InOrderKept(P, Q, m + 1)
             K == Kept(P, Q, m)
             K1 == Kept(P, Q, m + 1)
  <2>1. m \in Nat /\ m + 1 \in Nat
    OBVIOUS
  <2>2. /\ p \in Seq(Nat) /\ Len(p) \in Nat /\ q \in Seq(Nat) /\ Len(q) \in Nat
        /\ p1 \in Seq(Nat) /\ Len(p1) \in Nat
    BY <1>1, <2>1
  <2>3. /\ p1 = IF m + 1 \in P THEN Append(p, m + 1) ELSE p
        /\ q1 = IF m + 1 \in Q THEN Append(q, m + 1) ELSE q
    BY <2>1, InOrderStep
  <2>4. kept = InOrder(K, Len(p)) /\ kept1 = InOrder(K1, Len(p1))
    BY DEF InOrderKept
  <2>5. /\ K = {k \in 1 .. Len(p) : p[k] \in Q} /\ K1 = {k \in 1 .. Len(p1) : p1[k] \in Q}
    BY DEF Kept
  <2>6. Len(q) = Len(kept) /\ \A k \in 1 .. Len(q) : q[k] = p[kept[k]]
    BY <1>3 DEF KeptIs
  <2>7. kept \in Seq(Nat) /\ \A k \in 1 .. Len(kept) : kept[k] \in 1 .. Len(p)
    <3>1. kept \in Seq(Nat) /\ \A k \in DOMAIN kept : kept[k] \in (1 .. Len(p)) \cap K
      BY <2>2, <2>4, InOrderLists
    <3>2. DOMAIN kept = 1 .. Len(kept)
      BY <3>1, LenProperties
    <3> QED
      BY <3>1, <3>2
  <2> SUFFICES /\ Len(q1) = Len(kept1)
               /\ \A k \in 1 .. Len(q1) : q1[k] = p1[kept1[k]]
    BY <2>1 DEF KeptIs
  <2> HIDE DEF p, q, kept, p1, q1, kept1, K, K1
  <2>8. CASE m + 1 \notin P
    <3>1. p1 = p /\ q1 = q
      BY <2>3, <2>8
    <3>2. K1 = K /\ kept1 = kept
      BY <2>4, <2>5, <3>1
    <3> QED
      BY <2>6, <3>1, <3>2
  <2>9. CASE m + 1 \in P
    <3>1. /\ Len(p1) = Len(p) + 1 /\ p1[Len(p) + 1] = m + 1
          /\ \A k \in 1 .. Len(p) : p1[k] = p[k]
      BY <2>1, <2>2, <2>3, <2>9, AppendProperties
    <3>2. \A k \in 1 .. Len(p) : k \in K1 <=> k \in K
      BY <2>2, <2>5, <3>1
    <3>3. InOrder(K1, Len(p)) = kept
      BY <2>2, <2>4, <3>2, InOrderSame
    <3>4. Len(p) + 1 \in K1 <=> m + 1 \in Q
      BY <2>2, <2>5, <3>1
    <3>5. kept1 = IF Len(p) + 1 \in K1 THEN Append(kept, Len(p) + 1) ELSE kept
      BY <2>2, <2>4, <3>1, <3>3, InOrderStep
    <3>6. \A k \in 1 .. Len(kept) : p1[kept[k]] = q[k]
      BY <2>6, <2>7, <3>1
    <3>7. CASE m + 1 \notin Q
      BY <2>3, <2>6, <3>4, <3>5, <3>6, <3>7
    <3>8. CASE m + 1 \in Q
      <4>1. /\ Len(q1) = Len(q) + 1 /\ q1[Len(q) + 1] = m + 1
            /\ \A k \in 1 .. Len(q) : q1[k] = q[k]
        BY <2>1, <2>2, <2>3, <3>8, AppendProperties
      <4>2. Len(p) + 1 \in Nat
        BY <2>2
      <4>3. kept1 = Append(kept, Len(p) + 1)
        BY <3>4, <3>5, <3>8
      <4>4. /\ Len(kept1) = Len(kept) + 1 /\ kept1[Len(kept) + 1] = Len(p) + 1
            /\ \A k \in 1 .. Len(kept) : kept1[k] = kept[k]
        BY <2>7, <4>2, <4>3, AppendProperties
      <4>5. \A k \in 1 .. Len(q1) : k \in 1 .. Len(q) \/ k = Len(q) + 1
        BY <2>2, <4>1
      <4>6. \A k \in 1 .. Len(q) : q1[k] = p1[kept1[k]]
        BY <2>6, <3>6, <4>1, <4>4
      <4>7. q1[Len(q) + 1] = p1[kept1[Len(q) + 1]]
        BY <2>6, <3>1, <4>1, <4>4
      <4> QED
        BY <2>6, <4>1, <4>4, <4>5, <4>6, <4>7
    <3> QED
      BY <3>7, <3>8
  <2> QED
    BY <2>8, <2>9
<1> HIDE DEF T
<1>4. \A m \in 0 .. n : m \in T
  BY <1>2, <1>3, InductionFrom
<1>5. n \in T
  BY <1>4
<1> QED
  BY <1>5 DEF T

-----------------------------------------------------------------------------
(* Items.                                                                   *)

\* A slice of a text, which may be empty.
SliceOf(text, s) ==
  /\ s = Slice(s.first, s.last)
  /\ s.first \in 1 .. Len(text) + 1 /\ s.last \in 0 .. Len(text)
  /\ s.first <= s.last + 1

Within(p, s) ==
  /\ p = Slice(p.first, p.last)
  /\ p.first \in Int /\ p.last \in Int
  /\ s.first <= p.first /\ p.first <= p.last + 1 /\ p.last <= s.last

LEMMA SliceIs ==
  ASSUME NEW first, NEW last
  PROVE  /\ Slice(first, last).first = first /\ Slice(first, last).last = last
         /\ Slice(first, last) = Slice(Slice(first, last).first, Slice(first, last).last)
BY DEF Slice

LEMMA SliceWithin ==
  ASSUME NEW text, Len(text) \in Nat, NEW s, SliceOf(text, s), NEW p, Within(p, s)
  PROVE  SliceOf(text, p)
BY DEF SliceOf, Within

LEMMA WithinWithin ==
  ASSUME NEW s, s.first \in Int, s.last \in Int, NEW p, Within(p, s), NEW q, Within(q, p)
  PROVE  Within(q, s)
BY DEF Within

LEMMA TrimWithin ==
  ASSUME NEW text, Len(text) \in Nat, NEW s, SliceOf(text, s)
  PROVE  /\ Within(Trim(text, s), s) /\ SliceOf(text, Trim(text, s))
         /\ \A i \in s.first .. Trim(text, s).first - 1 : text[i] = Space
<1>1. s.first \in 1 .. Len(text) + 1 /\ s.last \in 0 .. Len(text) /\ s.first <= s.last + 1
  BY DEF SliceOf
<1> DEFINE inked == {i \in s.first .. s.last : text[i] # Space}
<1>2. inked \in SUBSET (1 .. Len(text)) /\ inked \in SUBSET Nat
  BY <1>1
<1>3. CASE inked = {}
  <2>1. Trim(text, s) = Slice(s.first, s.first - 1)
    BY <1>3 DEF Trim
  <2>2. Within(Slice(s.first, s.first - 1), s)
    BY <1>1, SliceIs DEF Within
  <2>3. \A i \in s.first .. s.first - 1 : text[i] = Space
    BY <1>1
  <2> QED
    BY <2>1, <2>2, <2>3, SliceWithin, SliceIs
<1>4. CASE inked # {}
  <2>1. Trim(text, s) = Slice(Least(inked), Greatest(inked))
    BY <1>4 DEF Trim
  <2> HIDE DEF inked
  <2>2. Least(inked) \in inked /\ \A j \in inked : Least(inked) <= j
    BY <1>2, <1>4, LeastIsChosen
  <2>3. Greatest(inked) \in inked
    BY <1>1, <1>2, <1>4, GreatestIsChosen
  <2>4. Least(inked) <= Greatest(inked)
    BY <2>2, <2>3
  <2>5. Least(inked) \in s.first .. s.last /\ Greatest(inked) \in s.first .. s.last
    BY <2>2, <2>3 DEF inked
  <2>6. \A i \in s.first .. Least(inked) - 1 : text[i] = Space
    BY <1>1, <1>2, <2>2, <2>5 DEF inked
  <2>7. Within(Slice(Least(inked), Greatest(inked)), s)
    BY <1>1, <2>4, <2>5, SliceIs DEF Within
  <2> QED
    BY <2>1, <2>6, <2>7, SliceWithin, SliceIs
<1> QED
  BY <1>3, <1>4

\* Where an item starts: behind a cut or with its list, and with no cut before its end.
Starts(slice, cuts, end, first) ==
  /\ first \in slice.first .. end
  /\ first = slice.first \/ first - 1 \in cuts
  /\ \A i \in first .. end - 1 : i \notin cuts

LEMMA ItemStarts ==
  ASSUME NEW text, NEW slice, slice.first \in Int, NEW cuts, NEW end \in Int,
         NEW first, Starts(slice, cuts, end, first)
  PROVE  Item(text, slice, cuts, end) = Trim(text, Slice(first, end - 1))
<1> DEFINE Fits(i) == (i = slice.first \/ i - 1 \in cuts) /\ i .. end - 1 \cap cuts = {}
           chosen == CHOOSE i \in slice.first .. end : Fits(i)
<1>1. first \in slice.first .. end /\ Fits(first)
  BY DEF Starts
<1>2. \A i, j \in slice.first .. end : Fits(i) /\ Fits(j) => ~(i < j)
  <2>1. SUFFICES ASSUME NEW i \in slice.first .. end, NEW j \in slice.first .. end,
                        Fits(i), Fits(j), i < j
                 PROVE  FALSE
    OBVIOUS
  <2>2. j - 1 \in cuts /\ j - 1 \in i .. end - 1
    BY <2>1
  <2> QED
    BY <2>1, <2>2
<1>3. Item(text, slice, cuts, end) = Trim(text, Slice(chosen, end - 1))
  BY DEF Item
<1> HIDE DEF Fits
<1>4. chosen \in slice.first .. end /\ Fits(chosen)
  BY <1>1
<1> HIDE DEF chosen
<1>5. ~(chosen < first) /\ ~(first < chosen) /\ chosen \in Int /\ first \in Int
  BY <1>1, <1>2, <1>4
<1>6. chosen = first
  BY <1>5
<1> QED
  BY <1>3, <1>6

LEMMA StartExists ==
  ASSUME NEW slice, slice.first \in Int, NEW cuts, NEW end \in Int, slice.first <= end
  PROVE  \E first : Starts(slice, cuts, end, first)
<1> DEFINE T == {e \in Int : \E first : Starts(slice, cuts, e, first)}
<1>1. slice.first \in T
  <2>1. Starts(slice, cuts, slice.first, slice.first)
    BY DEF Starts
  <2> QED
    BY <2>1
<1>2. ASSUME NEW e \in slice.first .. end - 1, e \in T PROVE e + 1 \in T
  <2>1. PICK first : Starts(slice, cuts, e, first)
    BY <1>2
  <2>2. CASE e \in cuts
    <3>1. Starts(slice, cuts, e + 1, e + 1)
      BY <2>2 DEF Starts
    <3> QED
      BY <3>1
  <2>3. CASE e \notin cuts
    <3>1. \A i \in first .. e : i = e \/ i \in first .. e - 1
      BY <2>1 DEF Starts
    <3>2. Starts(slice, cuts, e + 1, first)
      BY <2>1, <2>3, <3>1 DEF Starts
    <3> QED
      BY <3>2
  <2> QED
    BY <2>2, <2>3
<1> HIDE DEF T
<1>3. \A e \in slice.first .. end : e \in T
  BY <1>1, <1>2, InductionFrom
<1>4. end \in T
  BY <1>3
<1> QED
  BY <1>4 DEF T

\* An item lies in its list, and before its end.
LEMMA ItemWithin ==
  ASSUME NEW text, Len(text) \in Nat, NEW slice, SliceOf(text, slice), NEW cuts,
         NEW end \in slice.first .. slice.last + 1
  PROVE  /\ Within(Item(text, slice, cuts, end), Slice(slice.first, end - 1))
         /\ Within(Item(text, slice, cuts, end), slice)
         /\ SliceOf(text, Item(text, slice, cuts, end))
<1>1. /\ slice.first \in 1 .. Len(text) + 1 /\ slice.last \in 0 .. Len(text)
      /\ slice.first \in Int /\ end \in Int /\ slice.first <= end
  BY DEF SliceOf
<1>2. PICK first : Starts(slice, cuts, end, first)
  BY <1>1, StartExists
<1> DEFINE part == Slice(first, end - 1)
<1>3. first \in slice.first .. end
  BY <1>2 DEF Starts
<1>4. Within(part, Slice(slice.first, end - 1)) /\ Within(part, slice)
  BY <1>1, <1>3, SliceIs DEF Within
<1>5. SliceOf(text, part)
  BY <1>4, SliceWithin
<1> HIDE DEF part
<1>6. Item(text, slice, cuts, end) = Trim(text, part)
  BY <1>1, <1>2, ItemStarts DEF part
<1>7. Within(Trim(text, part), part) /\ SliceOf(text, Trim(text, part))
  BY <1>5, TrimWithin
<1>8. /\ slice.first \in Int /\ slice.last \in Int
      /\ Slice(slice.first, end - 1).first \in Int /\ Slice(slice.first, end - 1).last \in Int
  BY <1>1, SliceIs
<1> QED
  BY <1>4, <1>6, <1>7, <1>8, WithinWithin

-----------------------------------------------------------------------------
(* A slice that stands in two texts gives the same in both.                 *)

Moved(s, d) == Slice(s.first + d, s.last + d)

\* What stands in a slice of U stands d positions further on in T.
Matches(T, U, s, d) ==
  /\ T \in Seq(Char) /\ U \in Seq(Char) /\ d \in Nat
  /\ SliceOf(U, s) /\ SliceOf(T, Moved(s, d))
  /\ \A i \in s.first .. s.last : T[i + d] = U[i]

LEMMA MovedIs ==
  ASSUME NEW first \in Int, NEW last \in Int, NEW d \in Int
  PROVE  Moved(Slice(first, last), d) = Slice(first + d, last + d)
BY DEF Moved, Slice

LEMMA MatchBounds ==
  ASSUME NEW T, NEW U, NEW s, NEW d, Matches(T, U, s, d)
  PROVE  /\ Len(T) \in Nat /\ Len(U) \in Nat /\ d \in Nat
         /\ s = Slice(s.first, s.last)
         /\ s.first \in 1 .. Len(U) + 1 /\ s.last \in 0 .. Len(U) /\ s.first <= s.last + 1
         /\ s.first \in Int /\ s.last \in Int
         /\ Moved(s, d).first = s.first + d /\ Moved(s, d).last = s.last + d
         /\ s.first + d \in 1 .. Len(T) + 1 /\ s.last + d \in 0 .. Len(T)
BY LenProperties, SliceIs DEF Matches, SliceOf, Moved

LEMMA PartMatches ==
  ASSUME NEW T, NEW U, NEW s, NEW d, Matches(T, U, s, d), NEW p, Within(p, s)
  PROVE  Matches(T, U, p, d)
<1>1. /\ Len(T) \in Nat /\ Len(U) \in Nat /\ d \in Nat
      /\ s.first \in Int /\ s.last \in Int /\ s.first <= s.last + 1
      /\ Moved(s, d).first = s.first + d /\ Moved(s, d).last = s.last + d
  BY MatchBounds
<1>2. /\ p = Slice(p.first, p.last) /\ p.first \in Int /\ p.last \in Int
      /\ s.first <= p.first /\ p.first <= p.last + 1 /\ p.last <= s.last
  BY DEF Within
<1>3. SliceOf(U, p)
  BY <1>1, SliceWithin DEF Matches
<1>4. Within(Moved(p, d), Moved(s, d))
  <2>1. /\ Moved(p, d) = Slice(Moved(p, d).first, Moved(p, d).last)
        /\ Moved(p, d).first = p.first + d /\ Moved(p, d).last = p.last + d
    BY SliceIs DEF Moved
  <2>2. /\ p.first + d \in Int /\ p.last + d \in Int
        /\ s.first + d <= p.first + d /\ p.first + d <= p.last + d + 1 /\ p.last + d <= s.last + d
    <3>1. p.first \in Int /\ p.last \in Int /\ s.first \in Int /\ s.last \in Int /\ d \in Int
      BY <1>1, <1>2
    <3>2. s.first <= p.first /\ p.first <= p.last + 1 /\ p.last <= s.last
      BY <1>2
    <3> QED
      BY <3>1, <3>2
  <2> QED
    BY <1>1, <2>1, <2>2 DEF Within
<1>5. SliceOf(T, Moved(p, d))
  BY <1>1, <1>4, SliceWithin DEF Matches
<1>6. \A i \in p.first .. p.last : i \in s.first .. s.last
  BY <1>1, <1>2
<1> QED
  BY <1>3, <1>5, <1>6 DEF Matches

LEMMA TextMoves ==
  ASSUME NEW T, NEW U, NEW s, NEW d, Matches(T, U, s, d)
  PROVE  Text(T, Moved(s, d)) = Text(U, s) /\ Text(U, s) \in Seq(Char)
<1>1. /\ Len(T) \in Nat /\ Len(U) \in Nat /\ d \in Nat
      /\ s.first \in 1 .. Len(U) + 1 /\ s.last \in 0 .. Len(U) /\ s.first <= s.last + 1
      /\ s.first \in Int /\ s.last \in Int
      /\ Moved(s, d).first = s.first + d /\ Moved(s, d).last = s.last + d
  BY MatchBounds
<1>2. /\ T \in Seq(Char) /\ U \in Seq(Char)
      /\ \A i \in s.first .. s.last : T[i + d] = U[i]
  BY DEF Matches
<1>3. \A i \in s.first .. s.last : U[i] \in Char
  <2>1. \A i \in s.first .. s.last : i \in 1 .. Len(U)
    BY <1>1
  <2> QED
    BY <1>2, <2>1, ElementOfSeq
<1>4. \A i \in s.first + d .. s.last + d : i - d \in s.first .. s.last /\ (i - d) + d = i
  BY <1>1
<1>5. \A i \in s.first + d .. s.last + d : T[i] \in Char
  BY <1>2, <1>3, <1>4
<1> DEFINE first == s.first + d
           last  == s.last + d
           n == s.last - s.first + 1
           u == SubSeq(U, s.first, s.last)
           t == SubSeq(T, first, last)
<1>6. /\ s.first \in Int /\ s.last \in Int /\ d \in Int /\ first \in Int /\ last \in Int
      /\ n \in Nat /\ (last - first) + 1 = n
      /\ first <= last <=> n # 0
  <2>1. s.first \in Int /\ s.last \in Int /\ d \in Int /\ s.first <= s.last + 1
    BY <1>1
  <2> QED
    BY <2>1
<1>7. u \in Seq(Char) /\ Len(u) = n /\ \A i \in 1 .. n : u[i] = U[s.first + i - 1]
  BY <1>3, <1>6, SubSeqProperties
<1>8. t \in Seq(Char) /\ Len(t) = n /\ \A i \in 1 .. n : t[i] = T[first + i - 1]
  <2>1. \A i \in first .. last : T[i] \in Char
    BY <1>5
  <2> HIDE DEF first, last, n
  <2>2. /\ t \in Seq(Char) /\ Len(t) = IF first <= last THEN last - first + 1 ELSE 0
        /\ \A i \in 1 .. last - first + 1 : t[i] = T[first + i - 1]
    BY <1>6, <2>1, SubSeqProperties
  <2> HIDE DEF t
  <2> QED
    BY <1>6, <2>2
<1> HIDE DEF u, t
<1>9. ASSUME NEW i \in 1 .. n PROVE t[i] = u[i]
  <2>1. i \in Int /\ 1 <= i /\ i <= s.last - s.first + 1
    BY <1>6
  <2>2. s.first + i - 1 \in s.first .. s.last /\ (s.first + i - 1) + d = first + i - 1
    BY <1>6, <2>1
  <2> QED
    BY <1>2, <1>7, <1>8, <2>2
<1>10. t = u
  <2>1. Len(t) = Len(u) /\ \A i \in 1 .. Len(t) : t[i] = u[i]
    BY <1>7, <1>8, <1>9
  <2> HIDE DEF n
  <2> QED
    BY <1>7, <1>8, <2>1, SeqEqual
<1> QED
  BY <1>1, <1>7, <1>10 DEF Text, t, u

\* A set of positions and the same one, moved.
LEMMA LeastMoves ==
  ASSUME NEW S \in SUBSET Nat, S # {}, NEW d \in Nat, NEW R \in SUBSET Nat,
         \A i \in S : i + d \in R, \A j \in R : \E i \in S : j = i + d
  PROVE  Least(R) = Least(S) + d
<1>1. Least(S) \in S /\ \A j \in S : Least(S) <= j
  BY LeastIsChosen
<1>2. Least(S) + d \in R /\ Least(S) \in Nat
  BY <1>1
<1>3. \A j \in R : Least(S) + d <= j
  BY <1>1, <1>2
<1>4. R \in SUBSET Int
  OBVIOUS
<1> QED
  BY <1>2, <1>3, <1>4, LeastIs

LEMMA GreatestMoves ==
  ASSUME NEW n \in Nat, NEW S \in SUBSET (1 .. n), S # {}, NEW d \in Nat, NEW R \in SUBSET Nat,
         \A i \in S : i + d \in R, \A j \in R : \E i \in S : j = i + d
  PROVE  Greatest(R) = Greatest(S) + d
<1>1. Greatest(S) \in S /\ \A j \in S : Greatest(S) >= j
  BY GreatestIsChosen
<1>2. Greatest(S) + d \in R /\ Greatest(S) \in Nat
  <2>1. S \in SUBSET Nat
    OBVIOUS
  <2> QED
    BY <1>1, <2>1
<1>3. \A j \in R : Greatest(S) + d >= j
  BY <1>1, <1>2
<1>4. R \in SUBSET Int
  OBVIOUS
<1> QED
  BY <1>2, <1>3, <1>4, GreatestIs

LEMMA TrimMoves ==
  ASSUME NEW T, NEW U, NEW s, NEW d, Matches(T, U, s, d)
  PROVE  Trim(T, Moved(s, d)) = Moved(Trim(U, s), d)
<1>1. /\ Len(T) \in Nat /\ Len(U) \in Nat /\ d \in Nat
      /\ s.first \in 1 .. Len(U) + 1 /\ s.last \in 0 .. Len(U) /\ s.first <= s.last + 1
      /\ Moved(s, d).first = s.first + d /\ Moved(s, d).last = s.last + d
  BY MatchBounds
<1> DEFINE S == {i \in s.first .. s.last : U[i] # Space}
           R == {i \in Moved(s, d).first .. Moved(s, d).last : T[i] # Space}
<1>2. \A i \in s.first .. s.last : T[i + d] = U[i]
  BY DEF Matches
<1>3. \A i \in S : i + d \in R
  BY <1>1, <1>2
<1>4. \A j \in R : \E i \in S : j = i + d
  <2>1. ASSUME NEW j \in R PROVE j - d \in S /\ j = (j - d) + d
    <3>1. j \in s.first + d .. s.last + d
      BY <1>1
    <3>2. j - d \in s.first .. s.last /\ j = (j - d) + d
      BY <1>1, <3>1
    <3> QED
      BY <1>2, <3>2
  <2> HIDE DEF S, R
  <2> QED
    BY <2>1
<1>5. S \in SUBSET (1 .. Len(U)) /\ S \in SUBSET Nat /\ R \in SUBSET Nat
  BY <1>1
<1>6. Trim(U, s) = IF S = {} THEN Slice(s.first, s.first - 1) ELSE Slice(Least(S), Greatest(S))
  BY DEF Trim
<1>7. Trim(T, Moved(s, d)) = IF R = {} THEN Slice(Moved(s, d).first, Moved(s, d).first - 1)
                             ELSE Slice(Least(R), Greatest(R))
  BY DEF Trim
<1> HIDE DEF S, R
<1>8. CASE S = {}
  <2>1. R = {}
    BY <1>4, <1>8
  <2>2. s.first \in Int /\ s.first - 1 \in Int /\ d \in Int /\ s.first + d - 1 = s.first - 1 + d
    BY <1>1
  <2>3. Moved(Slice(s.first, s.first - 1), d) = Slice(s.first + d, s.first - 1 + d)
    BY <2>2, MovedIs
  <2> QED
    BY <1>1, <1>6, <1>7, <1>8, <2>1, <2>2, <2>3
<1>9. CASE S # {}
  <2>1. R # {}
    BY <1>3, <1>9
  <2>2. Least(R) = Least(S) + d
    BY <1>1, <1>3, <1>4, <1>5, <1>9, LeastMoves
  <2>3. Greatest(R) = Greatest(S) + d
    BY <1>1, <1>3, <1>4, <1>5, <1>9, GreatestMoves
  <2>4. Least(S) \in S /\ Greatest(S) \in S
    BY <1>1, <1>5, <1>9, LeastIsChosen, GreatestIsChosen
  <2>5. Least(S) \in Int /\ Greatest(S) \in Int /\ d \in Int
    <3>1. S \in SUBSET Int /\ d \in Int
      BY <1>1, <1>5
    <3> QED
      BY <2>4, <3>1
  <2>6. Moved(Slice(Least(S), Greatest(S)), d) = Slice(Least(S) + d, Greatest(S) + d)
    BY <2>5, MovedIs
  <2> QED
    BY <1>6, <1>7, <1>9, <2>1, <2>2, <2>3, <2>6
<1> QED
  BY <1>8, <1>9

LEMMA FindMoves ==
  ASSUME NEW T, NEW U, NEW s, NEW d, Matches(T, U, s, d), NEW c
  PROVE  Find(T, Moved(s, d), c) = IF Find(U, s, c) = 0 THEN 0 ELSE Find(U, s, c) + d
<1>1. /\ Len(T) \in Nat /\ Len(U) \in Nat /\ d \in Nat
      /\ s.first \in 1 .. Len(U) + 1 /\ s.last \in 0 .. Len(U) /\ s.first <= s.last + 1
      /\ Moved(s, d).first = s.first + d /\ Moved(s, d).last = s.last + d
  BY MatchBounds
<1> DEFINE S == {i \in s.first .. s.last : U[i] = c}
           R == {i \in Moved(s, d).first .. Moved(s, d).last : T[i] = c}
<1>2. \A i \in s.first .. s.last : T[i + d] = U[i]
  BY DEF Matches
<1>3. \A i \in S : i + d \in R
  BY <1>1, <1>2
<1>4. \A j \in R : \E i \in S : j = i + d
  <2>1. ASSUME NEW j \in R PROVE j - d \in S /\ j = (j - d) + d
    <3>1. j \in s.first + d .. s.last + d
      BY <1>1
    <3>2. j - d \in s.first .. s.last /\ j = (j - d) + d
      BY <1>1, <3>1
    <3> QED
      BY <1>2, <3>2
  <2> HIDE DEF S, R
  <2> QED
    BY <2>1
<1>5. S \in SUBSET Nat /\ R \in SUBSET Nat /\ \A i \in S : i # 0
  BY <1>1
<1>6. Find(U, s, c) = IF S = {} THEN 0 ELSE Least(S)
  BY DEF Find
<1>7. Find(T, Moved(s, d), c) = IF R = {} THEN 0 ELSE Least(R)
  BY DEF Find
<1> HIDE DEF S, R
<1>8. CASE S = {}
  BY <1>4, <1>6, <1>7, <1>8
<1>9. CASE S # {}
  <2>1. R # {}
    BY <1>3, <1>9
  <2>2. Least(R) = Least(S) + d
    BY <1>1, <1>3, <1>4, <1>5, <1>9, LeastMoves
  <2>3. Least(S) # 0
    BY <1>5, <1>9, LeastIsChosen
  <2> QED
    BY <1>6, <1>7, <1>9, <2>1, <2>2, <2>3
<1> QED
  BY <1>8, <1>9

\* Cuts that stand in both.
CutsMatch(C, B, s, d) == \A i \in s.first .. s.last : i \in B <=> i + d \in C

LEMMA ItemMoves ==
  ASSUME NEW T, NEW U, NEW s, NEW d, Matches(T, U, s, d),
         NEW C, NEW B, CutsMatch(C, B, s, d), NEW end \in s.first .. s.last + 1
  PROVE  /\ Item(T, Moved(s, d), C, end + d) = Moved(Item(U, s, B, end), d)
         /\ Within(Item(U, s, B, end), s)
         /\ Matches(T, U, Item(U, s, B, end), d)
<1>1. /\ Len(T) \in Nat /\ Len(U) \in Nat /\ d \in Nat
      /\ s.first \in 1 .. Len(U) + 1 /\ s.last \in 0 .. Len(U) /\ s.first <= s.last + 1
      /\ Moved(s, d).first = s.first + d /\ Moved(s, d).last = s.last + d
      /\ s.first \in Int /\ s.last \in Int /\ end \in Int /\ s.first <= end
  BY MatchBounds
<1>2. PICK first : Starts(s, B, end, first)
  BY <1>1, StartExists
<1>3. first \in s.first .. end /\ \A i \in first .. end - 1 : i \notin B
  BY <1>2 DEF Starts
<1>4. Starts(Moved(s, d), C, end + d, first + d)
  <2>1. first + d \in s.first + d .. end + d
    BY <1>1, <1>3
  <2>2. first + d = s.first + d \/ first + d - 1 \in C
    <3>1. CASE first = s.first
      BY <3>1
    <3>2. CASE first # s.first
      <4>1. first - 1 \in B /\ first - 1 \in s.first .. s.last /\ first - 1 + d = first + d - 1
        BY <1>1, <1>2, <1>3, <3>2 DEF Starts
      <4> QED
        BY <4>1 DEF CutsMatch
    <3> QED
      BY <3>1, <3>2
  <2>3. ASSUME NEW i \in first + d .. end + d - 1 PROVE i \notin C
    <3>1. i - d \in first .. end - 1 /\ i - d \in s.first .. s.last /\ (i - d) + d = i
      BY <1>1, <1>3
    <3> QED
      BY <1>3, <3>1 DEF CutsMatch
  <2>4. Moved(s, d).first = s.first + d
    BY <1>1
  <2>5. s.first \in Int /\ first \in Int /\ end \in Int /\ d \in Int
    BY <1>1, <1>3
  <2> QED
    BY <2>1, <2>2, <2>3, <2>4, <2>5 DEF Starts
<1> DEFINE part == Slice(first, end - 1)
<1>5. Item(U, s, B, end) = Trim(U, part)
  BY <1>1, <1>2, ItemStarts
<1>6. Item(T, Moved(s, d), C, end + d) = Trim(T, Slice(first + d, (end + d) - 1))
  <2>1. Moved(s, d).first \in Int /\ end + d \in Int
    BY <1>1
  <2> QED
    BY <1>4, <2>1, ItemStarts
<1>7. Slice(first + d, (end + d) - 1) = Moved(part, d)
  <2>1. first \in Int /\ end - 1 \in Int /\ d \in Int /\ (end - 1) + d = (end + d) - 1
    BY <1>1, <1>3
  <2> QED
    BY <2>1, MovedIs
<1>8. Within(part, s)
  BY <1>1, <1>3, SliceIs DEF Within
<1>9. Matches(T, U, part, d)
  BY <1>8, PartMatches
<1>10. SliceOf(U, s)
  BY DEF Matches
<1>11. Within(Item(U, s, B, end), s)
  BY <1>1, <1>10, ItemWithin
<1> QED
  BY <1>5, <1>6, <1>7, <1>9, <1>11, TrimMoves, PartMatches

LEMMA TrimmedTextMoves ==
  ASSUME NEW T, NEW U, NEW s, NEW d, Matches(T, U, s, d)
  PROVE  /\ Text(T, Trim(T, Moved(s, d))) = Text(U, Trim(U, s))
         /\ Text(U, Trim(U, s)) \in Seq(Char)
<1>1. Len(U) \in Nat /\ SliceOf(U, s)
  BY MatchBounds DEF Matches
<1>2. Within(Trim(U, s), s)
  BY <1>1, TrimWithin
<1>3. Matches(T, U, Trim(U, s), d)
  BY <1>2, PartMatches
<1> QED
  BY <1>3, TrimMoves, TextMoves

LEMMA NameMoves ==
  ASSUME NEW T, NEW U, NEW p, NEW d, Matches(T, U, p, d)
  PROVE  NameIsFor(T, Moved(p, d)) <=> NameIsFor(U, p)
<1> DEFINE e == Find(U, p, Equals)
<1>1. /\ d \in Nat /\ p.first \in Int /\ p.last \in Int /\ p.first \in Nat
      /\ Moved(p, d).first = p.first + d
  BY MatchBounds
<1>2. Find(T, Moved(p, d), Equals) = IF e = 0 THEN 0 ELSE e + d
  BY FindMoves
<1>3. e = 0 \/ e \in p.first .. p.last
  BY <1>1, FindBounds
<1> HIDE DEF e
<1>4. CASE e = 0
  BY <1>2, <1>4 DEF NameIsFor, e
<1>5. CASE e # 0
  <2>1. e \in Int /\ p.first <= e /\ e <= p.last
    BY <1>1, <1>3, <1>5
  <2> DEFINE name == Slice(p.first, e - 1)
  <2>2. Within(name, p)
    BY <1>1, <2>1, SliceIs DEF Within
  <2>3. Moved(name, d) = Slice(p.first + d, (e - 1) + d) /\ (e - 1) + d = (e + d) - 1 /\ e + d # 0
    <3>1. p.first \in Int /\ e - 1 \in Int /\ d \in Int /\ p.first > 0 /\ d >= 0
      BY <1>1, <2>1, MatchBounds
    <3>2. Moved(name, d) = Slice(p.first + d, (e - 1) + d)
      BY <3>1, MovedIs
    <3>3. (e - 1) + d = (e + d) - 1 /\ e + d # 0
      BY <2>1, <3>1
    <3> QED
      BY <3>2, <3>3
  <2>4. Text(T, Trim(T, Moved(name, d))) = Text(U, Trim(U, name))
    BY <2>2, PartMatches, TrimmedTextMoves
  <2> HIDE DEF name
  <2>5. NameIsFor(U, p) <=> Text(U, Trim(U, name)) = <<For>>
    BY <1>5 DEF NameIsFor, e, name
  <2>6. NameIsFor(T, Moved(p, d)) <=> Text(T, Trim(T, Slice(p.first + d, (e + d) - 1))) = <<For>>
    BY <1>1, <1>2, <1>5, <2>3 DEF NameIsFor
  <2> QED
    BY <2>3, <2>4, <2>5, <2>6
<1> QED
  BY <1>4, <1>5

\* Positions inside of strings that are so in both.
InsideMatches(T, U, s, d) == \A i \in s.first .. s.last : i \in Inside(U) <=> i + d \in Inside(T)

LEMMA CutsOfMatch ==
  ASSUME NEW T, NEW U, NEW s, NEW d, Matches(T, U, s, d), NEW mark
  PROVE  /\ CutsMatch(Cuts(T, mark), Cuts(U, mark), s, d)
         /\ InsideMatches(T, U, s, d) =>
              CutsMatch(Cuts(T, mark) \ Inside(T), Cuts(U, mark) \ Inside(U), s, d)
<1>1. /\ Len(T) \in Nat /\ Len(U) \in Nat /\ d \in Nat
      /\ s.first \in 1 .. Len(U) + 1 /\ s.last \in 0 .. Len(U)
      /\ s.first \in Int /\ s.last \in Int
      /\ s.first + d \in 1 .. Len(T) + 1 /\ s.last + d \in 0 .. Len(T)
  BY MatchBounds
<1>2. DOMAIN T = 1 .. Len(T) /\ DOMAIN U = 1 .. Len(U)
  BY LenProperties DEF Matches
<1>3. \A i \in s.first .. s.last : i \in DOMAIN U /\ i + d \in DOMAIN T /\ T[i + d] = U[i]
  <2>1. \A i \in s.first .. s.last : i \in 1 .. Len(U) /\ i + d \in 1 .. Len(T)
    BY <1>1
  <2> QED
    BY <1>2, <2>1 DEF Matches
<1>4. \A i \in s.first .. s.last : i \in Cuts(U, mark) <=> i + d \in Cuts(T, mark)
  BY <1>3 DEF Cuts
<1> QED
  BY <1>4 DEF CutsMatch, InsideMatches

LEMMA EndsMove ==
  ASSUME NEW s, NEW d \in Nat, NEW C, NEW B, CutsMatch(C, B, s, d),
         s.first \in Nat, s.last \in Nat
  PROVE  /\ \A e \in Ends(s, B) : e \in Nat /\ e + d \in Ends(Moved(s, d), C)
         /\ \A e \in Ends(Moved(s, d), C) : e - d \in Ends(s, B) /\ e \in Nat /\ (e - d) + d = e
<1>1. Moved(s, d).first = s.first + d /\ Moved(s, d).last = s.last + d
  BY SliceIs DEF Moved
<1>2. ASSUME NEW e \in Ends(s, B) PROVE e \in Nat /\ e + d \in Ends(Moved(s, d), C)
  <2>1. CASE e = s.last + 1
    BY <1>1, <2>1 DEF Ends
  <2>2. CASE e \in B /\ e \in s.first .. s.last
    <3>1. e + d \in C /\ e + d \in s.first + d .. s.last + d
      BY <2>2 DEF CutsMatch
    <3> QED
      BY <1>1, <2>2, <3>1 DEF Ends
  <2> QED
    BY <2>1, <2>2 DEF Ends
<1>3. ASSUME NEW e \in Ends(Moved(s, d), C)
      PROVE  e - d \in Ends(s, B) /\ e \in Nat /\ (e - d) + d = e
  <2>1. CASE e = (s.last + d) + 1
    <3>1. e - d = s.last + 1 /\ e \in Nat /\ (e - d) + d = e
      BY <2>1
    <3> QED
      BY <3>1 DEF Ends
  <2>2. CASE e \in C /\ e \in s.first + d .. s.last + d
    <3>1. e - d \in s.first .. s.last /\ (e - d) + d = e /\ e \in Nat
      BY <2>2
    <3>2. e - d \in B
      BY <2>2, <3>1 DEF CutsMatch
    <3> QED
      BY <3>1, <3>2 DEF Ends
  <2> QED
    BY <1>1, <2>1, <2>2 DEF Ends
<1> QED
  BY <1>2, <1>3

\* An element says the same wherever it stands, if its strings are the same.
LEMMA ElementHopMoves ==
  ASSUME NEW T, NEW U, NEW s, NEW d, Matches(T, U, s, d), InsideMatches(T, U, s, d)
  PROVE  ElementHop(T, Moved(s, d)) = ElementHop(U, s)
<1> DEFINE C == Cuts(T, Semicolon) \ Inside(T)
           B == Cuts(U, Semicolon) \ Inside(U)
           R == {e \in Ends(Moved(s, d), C) : NameIsFor(T, Item(T, Moved(s, d), C, e))}
           S == {e \in Ends(s, B) : NameIsFor(U, Item(U, s, B, e))}
           p == Item(U, s, B, Least(S))
           q == Item(T, Moved(s, d), C, Least(R))
<1>1. /\ Len(U) \in Nat /\ d \in Nat /\ s.first \in Nat /\ s.last \in Nat
      /\ s.first \in Int /\ s.last \in Int /\ s.first <= s.last + 1
  BY MatchBounds
<1>2. CutsMatch(C, B, s, d)
  BY CutsOfMatch
<1>3. /\ ElementHop(U, s) = IF S = {} THEN {Opaque}
                            ELSE Value(Text(U, Trim(U, Slice(Find(U, p, Equals) + 1, p.last))))
      /\ ElementHop(T, Moved(s, d)) =
           IF R = {} THEN {Opaque}
           ELSE Value(Text(T, Trim(T, Slice(Find(T, q, Equals) + 1, q.last))))
  BY DEF ElementHop
<1> HIDE DEF C, B
<1>4. /\ \A e \in Ends(s, B) : e \in Nat /\ e + d \in Ends(Moved(s, d), C)
      /\ \A e \in Ends(Moved(s, d), C) : e - d \in Ends(s, B) /\ e \in Nat /\ (e - d) + d = e
  BY <1>1, <1>2, EndsMove
<1>5. \A e \in Ends(s, B) : e \in s.first .. s.last + 1
  BY <1>1 DEF Ends
<1>6. ASSUME NEW e \in Ends(s, B)
      PROVE  /\ Item(T, Moved(s, d), C, e + d) = Moved(Item(U, s, B, e), d)
             /\ Matches(T, U, Item(U, s, B, e), d)
             /\ NameIsFor(T, Item(T, Moved(s, d), C, e + d)) <=> NameIsFor(U, Item(U, s, B, e))
  <2>1. e \in s.first .. s.last + 1
    BY <1>5
  <2>2. /\ Item(T, Moved(s, d), C, e + d) = Moved(Item(U, s, B, e), d)
        /\ Matches(T, U, Item(U, s, B, e), d)
    BY <1>2, <2>1, ItemMoves
  <2> QED
    BY <2>2, NameMoves
<1>7. S \in SUBSET Nat /\ R \in SUBSET Nat
  BY <1>4
<1>8. /\ \A e \in S : e + d \in R
      /\ \A e \in R : \E f \in S : e = f + d
  <2>1. \A e \in S : e + d \in R
    BY <1>4, <1>6
  <2>2. ASSUME NEW e \in R PROVE e - d \in S /\ e = (e - d) + d
    <3>1. e - d \in Ends(s, B) /\ (e - d) + d = e
      BY <1>4
    <3> QED
      BY <1>6, <3>1
  <2> QED
    BY <2>1, <2>2
<1>9. S # {} => Least(S) \in Ends(s, B)
  BY <1>7, LeastIsChosen
<1>10. CASE S = {}
  <2>1. R = {}
    BY <1>8, <1>10
  <2> HIDE DEF S, R, p, q
  <2> QED
    BY <1>3, <1>10, <2>1
<1>11. CASE S # {}
  <2> HIDE DEF S, R
  <2>1. R # {}
    BY <1>8, <1>11
  <2>2. Least(R) = Least(S) + d
    BY <1>1, <1>7, <1>8, <1>11, LeastMoves
  <2>3. q = Moved(p, d) /\ Matches(T, U, p, d) /\ NameIsFor(U, p)
    <3>1. Least(S) \in S
      BY <1>7, <1>11, LeastIsChosen
    <3>2. NameIsFor(U, p)
      BY <3>1 DEF S
    <3> QED
      BY <1>6, <1>9, <1>11, <2>2, <3>2
  <2> HIDE DEF p, q
  <2> DEFINE e == Find(U, p, Equals)
  <2>4. p.first \in Int /\ p.last \in Int /\ p.first \in Nat /\ q.last = p.last + d
    BY <2>3, MatchBounds
  <2>5. e # 0
    BY <2>3 DEF NameIsFor
  <2>6. e \in p.first .. p.last
    BY <2>4, <2>5, FindBounds
  <2>7. Find(T, q, Equals) = e + d
    BY <2>3, <2>5, FindMoves
  <2> HIDE DEF e
  <2>8. e \in Int /\ p.first <= e /\ e <= p.last /\ d \in Int
    BY <1>1, <2>4, <2>6
  <2> DEFINE value == Slice(e + 1, p.last)
  <2>9. Within(value, p)
    BY <2>4, <2>8, SliceIs DEF Within
  <2>10. Moved(value, d) = Slice((e + d) + 1, p.last + d)
    <3>1. e + 1 \in Int /\ p.last \in Int /\ d \in Int /\ (e + 1) + d = (e + d) + 1
      BY <2>4, <2>8
    <3>2. Moved(value, d) = Slice((e + 1) + d, p.last + d)
      BY <3>1, MovedIs
    <3> QED
      BY <3>1, <3>2
  <2>11. Text(T, Trim(T, Moved(value, d))) = Text(U, Trim(U, value))
    BY <2>3, <2>9, PartMatches, TrimmedTextMoves
  <2>12. /\ Slice(Find(U, p, Equals) + 1, p.last) = value
         /\ Slice(Find(T, q, Equals) + 1, q.last) = Moved(value, d)
    BY <2>4, <2>7, <2>10 DEF e
  <2> HIDE DEF value
  <2> QED
    BY <1>3, <1>11, <2>1, <2>11, <2>12
<1> QED
  BY <1>10, <1>11

\* Where two texts are the same, and no string is open before, their strings are.
LEMMA SameScan ==
  ASSUME NEW T, NEW U, NEW s, NEW d, Matches(T, U, s, d),
         s.first \notin Inside(U), s.first + d \notin Inside(T)
  PROVE  \A i \in s.first .. s.last + 1 :
           /\ i \in Inside(U) <=> i + d \in Inside(T)
           /\ i \in Escaped(U) <=> i + d \in Escaped(T)
<1> DEFINE Same == {i \in Int : /\ i \in Inside(U) <=> i + d \in Inside(T)
                                /\ i \in Escaped(U) <=> i + d \in Escaped(T)}
<1>1. /\ Len(T) \in Nat /\ Len(U) \in Nat /\ d \in Nat
      /\ s.first \in 1 .. Len(U) + 1 /\ s.last \in 0 .. Len(U)
      /\ s.first \in Int /\ s.last \in Int
      /\ s.first + d \in 1 .. Len(T) + 1 /\ s.last + d \in 0 .. Len(T)
  BY MatchBounds
<1>2. T \in Seq(Char) /\ U \in Seq(Char) /\ \A i \in s.first .. s.last : T[i + d] = U[i]
  BY DEF Matches
<1>3. s.first \in Same
  <2>1. s.first \in Int /\ s.first + d \in Int
    BY <1>1
  <2>2. s.first \notin Escaped(U) /\ s.first + d \notin Escaped(T)
    BY <1>2, <2>1, PositionsInside
  <2> QED
    BY <2>1, <2>2
<1>4. ASSUME NEW i \in s.first .. s.last, i \in Same PROVE i + 1 \in Same
  <2>1. i \in 1 .. Len(U) /\ i + d \in 1 .. Len(T) /\ (i + d) + 1 = (i + 1) + d /\ i + 1 \in Int
    BY <1>1
  <2>2. /\ i \in Inside(U) <=> i + d \in Inside(T)
        /\ i \in Escaped(U) <=> i + d \in Escaped(T)
        /\ T[i + d] = U[i]
    BY <1>2, <1>4
  <2>3. CASE i \notin Inside(U)
    <3>1. i + 1 \notin Escaped(U) /\ (i + 1 \in Inside(U) <=> U[i] = Quote)
      BY <1>2, <2>1, <2>3, FromOutside
    <3>2. /\ (i + d) + 1 \notin Escaped(T)
          /\ (i + d) + 1 \in Inside(T) <=> T[i + d] = Quote
      BY <1>2, <2>1, <2>2, <2>3, FromOutside
    <3> QED
      BY <2>1, <2>2, <3>1, <3>2
  <2>4. CASE i \in Inside(U)
    <3>1. /\ i + 1 \in Inside(U) <=> i \in Escaped(U) \/ U[i] # Quote
          /\ i + 1 \in Escaped(U) <=> i \notin Escaped(U) /\ U[i] = Backslash
      BY <1>2, <2>1, <2>4, FromInside
    <3>2. /\ (i + d) + 1 \in Inside(T) <=> i + d \in Escaped(T) \/ T[i + d] # Quote
          /\ (i + d) + 1 \in Escaped(T) <=> i + d \notin Escaped(T) /\ T[i + d] = Backslash
      BY <1>2, <2>1, <2>2, <2>4, FromInside
    <3> QED
      BY <2>1, <2>2, <3>1, <3>2
  <2> QED
    BY <2>3, <2>4
<1> HIDE DEF Same
<1>5. \A i \in s.first .. (s.last + 1) - 1 : i \in Same => i + 1 \in Same
  BY <1>1, <1>4
<1>6. \A i \in s.first .. s.last + 1 : i \in Same
  <2>1. s.last + 1 \in Int
    BY <1>1
  <2> QED
    BY <1>1, <1>3, <1>5, <2>1, InductionFrom
<1> QED
  BY <1>6 DEF Same

-----------------------------------------------------------------------------
(* A line that is a part of a longer one.                                   *)

\* What an item is does not depend on the items before it.
LEMMA ItemOfPart ==
  ASSUME NEW text, NEW slice, slice.first \in Int, NEW p, p.first \in Int, slice.first <= p.first,
         NEW cuts, p.first = slice.first \/ p.first - 1 \in cuts,
         NEW end \in Int, p.first <= end
  PROVE  Item(text, slice, cuts, end) = Item(text, p, cuts, end)
<1>1. PICK first : Starts(p, cuts, end, first)
  BY StartExists
<1>2. Starts(slice, cuts, end, first)
  <2>1. first \in p.first .. end /\ (first = p.first \/ first - 1 \in cuts)
    BY <1>1 DEF Starts
  <2>2. first \in slice.first .. end
    BY <2>1
  <2>3. first = slice.first \/ first - 1 \in cuts
    BY <2>1
  <2> QED
    BY <1>1, <2>2, <2>3 DEF Starts
<1> QED
  BY <1>1, <1>2, ItemStarts

LEMMA WholeIs ==
  ASSUME NEW text \in Seq(Char)
  PROVE  /\ Len(text) \in Nat
         /\ Whole(text).first = 1 /\ Whole(text).last = Len(text) /\ SliceOf(text, Whole(text))
BY LenProperties, SliceIs DEF Whole, SliceOf

LEMMA ListCutsAre ==
  ASSUME NEW text \in Seq(Char), NEW kind
  PROVE  /\ ListCuts(kind, text) \in SUBSET (1 .. Len(text))
         /\ HopEnds(kind, text) \in SUBSET (1 .. Len(text) + 1)
<1>1. DOMAIN text = 1 .. Len(text) /\ Len(text) \in Nat
  BY LenProperties
<1>2. ListCuts(kind, text) \in SUBSET (1 .. Len(text))
  BY <1>1 DEF ListCuts, Cuts
<1>3. Whole(text).first = 1 /\ Whole(text).last = Len(text)
  BY WholeIs
<1>4. Ends(Whole(text), ListCuts(kind, text)) \in SUBSET (1 .. Len(text) + 1)
  BY <1>1, <1>3 DEF Ends
<1> QED
  BY <1>2, <1>4 DEF HopEnds

\* U is a part of the list T, with nothing of another item in it.
PartOfList(kind, T, U, d) ==
  /\ Matches(T, U, Whole(U), d)
  /\ kind = "Forwarded" => InsideMatches(T, U, Whole(U), d)
  /\ d = 0 \/ d \in ListCuts(kind, T)
  /\ d + Len(U) = Len(T) \/ (d + Len(U)) + 1 \in ListCuts(kind, T)

LEMMA HopsMove ==
  ASSUME NEW kind, NEW T, NEW U, NEW d, PartOfList(kind, T, U, d), NEW e \in 1 .. Len(U) + 1
  PROVE  /\ e \in HopEnds(kind, U) <=> e + d \in HopEnds(kind, T)
         /\ Hop(kind, T, e + d) = Hop(kind, U, e)
<1> DEFINE B == ListCuts(kind, U)
           C == ListCuts(kind, T)
           s == Whole(U)
<1>1. /\ T \in Seq(Char) /\ U \in Seq(Char) /\ Matches(T, U, s, d)
      /\ d = 0 \/ d \in C
      /\ d + Len(U) = Len(T) \/ (d + Len(U)) + 1 \in C
  BY DEF PartOfList, Matches
<1>2. /\ Len(T) \in Nat /\ Len(U) \in Nat /\ d \in Nat
      /\ s.first = 1 /\ s.last = Len(U)
      /\ Moved(s, d).first = 1 + d /\ Moved(s, d).last = Len(U) + d
      /\ Len(U) + d \in 0 .. Len(T)
  BY <1>1, WholeIs, MatchBounds
<1>3. CutsMatch(C, B, s, d)
  BY <1>1, CutsOfMatch DEF ListCuts, PartOfList
<1>4. B \in SUBSET (1 .. Len(U)) /\ C \in SUBSET (1 .. Len(T))
  BY <1>1, ListCutsAre
<1>5. Whole(T).first = 1 /\ Whole(T).last = Len(T)
  BY <1>1, WholeIs
<1> DEFINE u == ListItem(kind, U, e)
           t == ListItem(kind, T, e + d)
<1>6. t = Moved(u, d) /\ Matches(T, U, u, d) /\ Within(u, s)
  <2>1. /\ Item(T, Moved(s, d), C, e + d) = Moved(Item(U, s, B, e), d)
        /\ Within(Item(U, s, B, e), s)
        /\ Matches(T, U, Item(U, s, B, e), d)
    <3>1. e \in s.first .. s.last + 1
      BY <1>2
    <3> HIDE DEF B, C, s
    <3> QED
      BY <1>1, <1>3, <3>1, ItemMoves
  <2>2. Item(T, Whole(T), C, e + d) = Item(T, Moved(s, d), C, e + d)
    <3>1. /\ Moved(s, d).first = 1 \/ Moved(s, d).first - 1 \in C
          /\ Moved(s, d).first \in Int /\ 1 <= Moved(s, d).first
          /\ e + d \in Int /\ Moved(s, d).first <= e + d
      <4>1. (1 + d) - 1 = d /\ e \in Int /\ d \in Int /\ 1 <= e /\ 0 <= d
        BY <1>2
      <4> HIDE DEF B, C, s
      <4> QED
        BY <1>1, <1>2, <4>1
    <3> HIDE DEF B, C, s
    <3> QED
      BY <1>5, <3>1, ItemOfPart
  <2> QED
    BY <2>1, <2>2 DEF ListItem
<1>7. /\ u.first \in Int /\ u.last \in Int /\ t.first = u.first + d /\ t.last = u.last + d
  BY <1>6, MatchBounds
<1>8. IsEmpty(u) <=> IsEmpty(t)
  BY <1>2, <1>7 DEF IsEmpty
<1>9. e \in Ends(s, B) <=> e + d \in Ends(Whole(T), C)
  <2> HIDE DEF B, C, s
  <2>1. CASE e = Len(U) + 1
    <3>1. e + d = Len(T) + 1 \/ e + d \in C
      BY <1>1, <1>2, <2>1
    <3>2. e + d \in C => e + d \in 1 .. Len(T)
      BY <1>4
    <3> QED
      BY <1>2, <1>5, <2>1, <3>1, <3>2 DEF Ends
  <2>2. CASE e \in 1 .. Len(U)
    <3>1. e \in B <=> e + d \in C
      BY <1>2, <1>3, <2>2 DEF CutsMatch
    <3>2. e # Len(U) + 1 /\ e + d # Len(T) + 1 /\ e + d \in 1 .. Len(T)
      BY <1>2, <2>2
    <3> QED
      BY <1>2, <1>5, <2>2, <3>1, <3>2 DEF Ends
  <2> QED
    BY <1>2, <2>1, <2>2
<1>10. e \in HopEnds(kind, U) <=> e + d \in HopEnds(kind, T)
  BY <1>8, <1>9 DEF HopEnds
<1>11. Hop(kind, T, e + d) = Hop(kind, U, e)
  <2>1. CASE kind = "Forwarded"
    <3>1. InsideMatches(T, U, s, d)
      BY <2>1 DEF PartOfList
    <3>2. InsideMatches(T, U, u, d)
      BY <1>2, <1>6, <3>1 DEF InsideMatches, Within
    <3> HIDE DEF u, t
    <3>3. ElementHop(T, t) = ElementHop(U, u)
      BY <1>6, <3>2, ElementHopMoves
    <3> QED
      BY <2>1, <3>3 DEF Hop, u, t
  <2>2. CASE kind # "Forwarded"
    <3> HIDE DEF u, t
    <3>1. Text(T, t) = Text(U, u)
      BY <1>6, TextMoves
    <3> QED
      BY <2>2, <3>1 DEF Hop, u, t
  <2> QED
    BY <2>1, <2>2
<1> QED
  BY <1>10, <1>11

LEMMA IpIsEntry ==
  ASSUME NEW ip \in IpAddr
  PROVE  Ip(ip) \in ChainEntry
BY CanonicalIpIsCanonical DEF Ip, ChainEntry

LEMMA HopIsEntries ==
  ASSUME NEW kind, NEW text, NEW end
  PROVE  Hop(kind, text, end) \in SUBSET ChainEntry
<1>1. Opaque \in ChainEntry
  BY DEF Opaque, ChainEntry
<1>2. ASSUME NEW t PROVE Node(t) \in ChainEntry
  <2> DEFINE chosen == CHOOSE ip \in IpAddr : Gives(Trimmed(t), ip)
  <2>1. CASE \E ip \in IpAddr : Gives(Trimmed(t), ip)
    <3>1. chosen \in IpAddr
      BY <2>1
    <3>2. Node(t) = Ip(chosen)
      BY <2>1 DEF Node
    <3> HIDE DEF chosen
    <3> QED
      BY <3>1, <3>2, IpIsEntry
  <2>2. CASE ~\E ip \in IpAddr : Gives(Trimmed(t), ip)
    BY <1>1, <2>2 DEF Node
  <2> QED
    BY <2>1, <2>2
<1>3. ASSUME NEW v PROVE Value(v) \in SUBSET ChainEntry
  <2>1. \A a \in IpAddr : Ip(a) \in ChainEntry
    BY IpIsEntry
  <2>2. CASE v = <<>> \/ v[1] # Quote
    BY <1>2, <2>2 DEF Value, IsUnclosed
  <2>3. CASE ~(v = <<>> \/ v[1] # Quote) /\ IsUnclosed(v)
    BY <1>1, <2>1, <2>3 DEF Value
  <2>4. CASE ~(v = <<>> \/ v[1] # Quote) /\ ~IsUnclosed(v)
    BY <1>1, <1>2, <2>4 DEF Value
  <2> QED
    BY <2>2, <2>3, <2>4
<1>4. ASSUME NEW t, NEW s PROVE ElementHop(t, s) \in SUBSET ChainEntry
  BY <1>1, <1>3 DEF ElementHop
<1> QED
  BY <1>2, <1>4 DEF Hop

LEMMA LineHopsAre ==
  ASSUME NEW text \in Seq(Char), NEW kind
  PROVE  /\ Len(text) + 1 \in Nat
         /\ InOrder(HopEnds(kind, text), Len(text) + 1) \in Seq(Nat)
         /\ LineHops(kind, text) \in Seq(SUBSET ChainEntry)
         /\ Len(LineHops(kind, text)) = Len(InOrder(HopEnds(kind, text), Len(text) + 1))
         /\ \A k \in 1 .. Len(LineHops(kind, text)) :
              /\ InOrder(HopEnds(kind, text), Len(text) + 1)[k] \in
                   (1 .. Len(text) + 1) \cap HopEnds(kind, text)
              /\ LineHops(kind, text)[k] =
                   Hop(kind, text, InOrder(HopEnds(kind, text), Len(text) + 1)[k])
<1> DEFINE ends == InOrder(HopEnds(kind, text), Len(text) + 1)
           hops == [k \in 1 .. Len(ends) |-> Hop(kind, text, ends[k])]
<1>1. Len(text) \in Nat /\ Len(text) + 1 \in Nat
  BY LenProperties
<1>2. /\ ends \in Seq(Nat)
      /\ \A k \in DOMAIN ends : ends[k] \in (1 .. Len(text) + 1) \cap HopEnds(kind, text)
  BY <1>1, InOrderLists
<1>3. LineHops(kind, text) = [k \in DOMAIN ends |-> Hop(kind, text, ends[k])]
  BY DEF LineHops
<1> HIDE DEF ends
<1>4. DOMAIN ends = 1 .. Len(ends) /\ Len(ends) \in Nat
  BY <1>2, LenProperties
<1>5. LineHops(kind, text) = hops
  BY <1>3, <1>4
<1>6. hops \in [1 .. Len(ends) -> SUBSET ChainEntry]
  BY HopIsEntries
<1>7. hops \in Seq(SUBSET ChainEntry) /\ Len(hops) = Len(ends)
  BY <1>4, <1>6, IsASeq, LenProperties
<1> QED
  BY <1>1, <1>2, <1>4, <1>5, <1>7 DEF ends

-----------------------------------------------------------------------------
(* Two lines that are joined are one list.                                  *)

LEMMA JoinedIsText ==
  ASSUME NEW a \in Seq(Char), NEW b \in Seq(Char)
  PROVE  /\ a \o <<Comma>> \o b \in Seq(Char)
         /\ Len(a \o <<Comma>> \o b) = (Len(a) + 1) + Len(b)
         /\ \A i \in 1 .. Len(a) : (a \o <<Comma>> \o b)[i] = a[i]
         /\ (a \o <<Comma>> \o b)[Len(a) + 1] = Comma
         /\ \A i \in 1 .. Len(b) : (a \o <<Comma>> \o b)[i + (Len(a) + 1)] = b[i]
<1> DEFINE comma == <<Comma>>
           front == a \o comma
<1>1. Len(a) \in Nat /\ Len(b) \in Nat
  BY LenProperties
<1>2. Comma \in Char
  BY DEF Comma, Mark, Char, Marks
<1>3. comma \in Seq(Char) /\ Len(comma) = 1 /\ comma[1] = Comma
  BY <1>2
<1> HIDE DEF comma
<1>4. /\ front \in Seq(Char) /\ Len(front) = Len(a) + 1
      /\ \A i \in 1 .. Len(a) : front[i] = a[i]
      /\ front[Len(a) + 1] = Comma
  <2>1. /\ front \in Seq(Char) /\ Len(front) = Len(a) + Len(comma)
        /\ \A i \in 1 .. Len(a) + Len(comma) :
             front[i] = IF i <= Len(a) THEN a[i] ELSE comma[i - Len(a)]
    BY <1>3, ConcatProperties
  <2> HIDE DEF front
  <2>2. (Len(a) + 1) - Len(a) = 1 /\ Len(a) + 1 \in 1 .. Len(a) + Len(comma) /\ ~(Len(a) + 1 <= Len(a))
    BY <1>1, <1>3
  <2>3. front[Len(a) + 1] = comma[(Len(a) + 1) - Len(a)]
    BY <2>1, <2>2
  <2>4. \A i \in 1 .. Len(a) : i \in 1 .. Len(a) + Len(comma) /\ i <= Len(a)
    BY <1>1, <1>3
  <2> QED
    BY <1>3, <2>1, <2>2, <2>3, <2>4
<1> HIDE DEF front
<1> DEFINE all == front \o b
<1>5. /\ all \in Seq(Char) /\ Len(all) = Len(front) + Len(b)
      /\ \A i \in 1 .. Len(front) + Len(b) :
           all[i] = IF i <= Len(front) THEN front[i] ELSE b[i - Len(front)]
  BY <1>4, ConcatProperties
<1> HIDE DEF all
<1>6. \A i \in 1 .. Len(a) + 1 : all[i] = front[i]
  BY <1>1, <1>4, <1>5
<1>7. \A i \in 1 .. Len(b) : all[i + (Len(a) + 1)] = b[i]
  <2>1. ASSUME NEW i \in 1 .. Len(b)
        PROVE  /\ i + Len(front) \in 1 .. Len(front) + Len(b)
               /\ ~(i + Len(front) <= Len(front)) /\ (i + Len(front)) - Len(front) = i
    BY <1>1, <1>4
  <2> QED
    BY <1>4, <1>5, <2>1
<1>8. \A i \in 1 .. Len(a) : i \in 1 .. Len(a) + 1
  BY <1>1
<1>9. Len(a) + 1 \in 1 .. Len(a) + 1
  BY <1>1
<1> QED
  BY <1>4, <1>5, <1>6, <1>7, <1>8, <1>9 DEF all, front, comma

\* A comma between a line that leaves no string open and the next one stands in none.
JoinsOn(kind, text) == kind = "Forwarded" => IsClosed(text)

LEMMA JoinedParts ==
  ASSUME NEW a \in Seq(Char), NEW b \in Seq(Char), NEW kind, JoinsOn(kind, a)
  PROVE  /\ PartOfList(kind, a \o <<Comma>> \o b, a, 0)
         /\ PartOfList(kind, a \o <<Comma>> \o b, b, Len(a) + 1)
         /\ JoinsOn(kind, b) => JoinsOn(kind, a \o <<Comma>> \o b)
<1> DEFINE J == a \o <<Comma>> \o b
           d == Len(a) + 1
<1>1. /\ J \in Seq(Char) /\ Len(J) = d + Len(b)
      /\ \A i \in 1 .. Len(a) : J[i] = a[i]
      /\ J[d] = Comma
      /\ \A i \in 1 .. Len(b) : J[i + d] = b[i]
  BY JoinedIsText
<1>2. Len(a) \in Nat /\ Len(b) \in Nat /\ Len(J) \in Nat /\ DOMAIN J = 1 .. Len(J)
  BY <1>1, LenProperties
<1> HIDE DEF J
<1>3. /\ Whole(a).first = 1 /\ Whole(a).last = Len(a) /\ SliceOf(a, Whole(a))
      /\ Whole(b).first = 1 /\ Whole(b).last = Len(b) /\ SliceOf(b, Whole(b))
  BY WholeIs
<1>4. Matches(J, a, Whole(a), 0)
  <2>1. SliceOf(J, Moved(Whole(a), 0))
    BY <1>1, <1>2, <1>3, SliceIs DEF SliceOf, Moved
  <2>2. \A i \in 1 .. Len(a) : J[i + 0] = a[i]
    BY <1>1
  <2> QED
    BY <1>1, <1>3, <2>1, <2>2 DEF Matches
<1>5. Matches(J, b, Whole(b), d)
  <2>1. SliceOf(J, Moved(Whole(b), d))
    BY <1>1, <1>2, <1>3, SliceIs DEF SliceOf, Moved
  <2>2. d \in Nat
    BY <1>2
  <2> HIDE DEF d
  <2> QED
    BY <1>1, <1>3, <2>1, <2>2 DEF Matches
<1>6. ASSUME kind = "Forwarded"
      PROVE  /\ InsideMatches(J, a, Whole(a), 0) /\ InsideMatches(J, b, Whole(b), d)
             /\ d \notin Inside(J)
             /\ IsClosed(J) <=> IsClosed(b)
  <2>1. 1 \notin Inside(a) /\ 1 \notin Inside(b) /\ 1 \notin Inside(J)
    BY <1>1, LineStartsOutside
  <2>2. \A i \in 1 .. Len(a) + 1 : i \in Inside(a) <=> i + 0 \in Inside(J)
    <3>1. Whole(a).first \notin Inside(a) /\ Whole(a).first + 0 \notin Inside(J)
      BY <1>3, <2>1
    <3>2. \A i \in Whole(a).first .. Whole(a).last + 1 : i \in Inside(a) <=> i + 0 \in Inside(J)
      BY <1>4, <3>1, SameScan
    <3> QED
      BY <1>3, <3>2
  <2>3. d \notin Inside(J)
    <3>1. d \in 1 .. Len(a) + 1 /\ d + 0 = d /\ d \notin Inside(a)
      BY <1>2, <1>6 DEF IsClosed, JoinsOn
    <3> QED
      BY <2>2, <3>1
  <2>4. d + 1 \notin Inside(J)
    <3>1. d \in 1 .. Len(J) /\ J[d] # Quote
      BY <1>1, <1>2 DEF Comma, Quote, Mark
    <3> QED
      BY <1>1, <2>3, <3>1, FromOutside
  <2>5. \A i \in 1 .. Len(b) + 1 : i \in Inside(b) <=> i + d \in Inside(J)
    <3>1. Whole(b).first \notin Inside(b) /\ Whole(b).first + d \notin Inside(J)
      <4>1. 1 + d = d + 1
        BY <1>2
      <4> QED
        BY <1>3, <2>1, <2>4, <4>1
    <3>2. \A i \in Whole(b).first .. Whole(b).last + 1 : i \in Inside(b) <=> i + d \in Inside(J)
      BY <1>5, <3>1, SameScan
    <3> QED
      BY <1>3, <3>2
  <2>6. \A i \in 1 .. Len(a) : i \in 1 .. Len(a) + 1
    BY <1>2
  <2>7. \A i \in 1 .. Len(b) : i \in 1 .. Len(b) + 1
    BY <1>2
  <2>8. IsClosed(J) <=> IsClosed(b)
    <3>1. (Len(b) + 1) + d = Len(J) + 1 /\ Len(b) + 1 \in 1 .. Len(b) + 1
      BY <1>1, <1>2
    <3> QED
      BY <2>5, <3>1 DEF IsClosed
  <2> HIDE DEF d
  <2> QED
    BY <1>3, <2>2, <2>3, <2>5, <2>6, <2>7, <2>8 DEF InsideMatches
<1>7. d \in ListCuts(kind, J)
  <2>1. d \in 1 .. Len(J)
    BY <1>1, <1>2
  <2> QED
    BY <1>1, <1>2, <1>6, <2>1 DEF ListCuts, Cuts
<1>8. (0 + Len(a)) + 1 = d /\ d + Len(b) = Len(J)
  BY <1>1, <1>2
<1> HIDE DEF d
<1> QED
  BY <1>4, <1>5, <1>6, <1>7, <1>8 DEF PartOfList, JoinsOn, J, d

LEMMA HopsJoin ==
  ASSUME NEW a \in Seq(Char), NEW b \in Seq(Char), NEW kind, JoinsOn(kind, a)
  PROVE  LineHops(kind, a \o <<Comma>> \o b) = LineHops(kind, a) \o LineHops(kind, b)
<1> DEFINE J == a \o <<Comma>> \o b
           m == Len(a) + 1
           n == Len(b) + 1
           P == HopEnds(kind, J)
           Q == HopEnds(kind, b)
           ends == InOrder(P, m + n)
           mine == InOrder(HopEnds(kind, a), m)
           yours == InOrder(Q, n)
           A == LineHops(kind, a)
           B == LineHops(kind, b)
           AB == LineHops(kind, J)
<1>1. /\ J \in Seq(Char) /\ Len(J) = m + Len(b) /\ m \in Nat /\ n \in Nat /\ Len(J) + 1 = m + n
  BY JoinedIsText, LenProperties
<1>2. /\ PartOfList(kind, J, a, 0) /\ PartOfList(kind, J, b, m)
  BY JoinedParts
<1> HIDE DEF J
<1>3. \A e \in 1 .. m : /\ e \in HopEnds(kind, a) <=> e \in P
                        /\ Hop(kind, J, e) = Hop(kind, a, e)
  <2>1. ASSUME NEW e \in 1 .. Len(a) + 1
        PROVE  /\ e \in HopEnds(kind, a) <=> e + 0 \in P
               /\ Hop(kind, J, e + 0) = Hop(kind, a, e)
               /\ e + 0 = e
    BY <1>2, HopsMove
  <2> QED
    BY <2>1
<1>4. \A e \in 1 .. n : /\ e \in Q <=> e + m \in P
                        /\ Hop(kind, J, e + m) = Hop(kind, b, e)
  BY <1>2, HopsMove
<1>5. /\ A \in Seq(SUBSET ChainEntry) /\ Len(A) = Len(mine) /\ Len(A) \in Nat
      /\ \A k \in 1 .. Len(A) : mine[k] \in 1 .. m /\ A[k] = Hop(kind, a, mine[k])
  BY LineHopsAre, LenProperties
<1>6. /\ B \in Seq(SUBSET ChainEntry) /\ Len(B) = Len(yours) /\ Len(B) \in Nat
      /\ \A k \in 1 .. Len(B) : yours[k] \in 1 .. n /\ B[k] = Hop(kind, b, yours[k])
  BY LineHopsAre, LenProperties
<1>7. /\ AB \in Seq(SUBSET ChainEntry) /\ Len(AB) = Len(ends)
      /\ \A k \in 1 .. Len(AB) : AB[k] = Hop(kind, J, ends[k])
  BY <1>1, LineHopsAre
<1>8. InOrder(P, m) = mine
  BY <1>1, <1>3, InOrderSame
<1>9. /\ Len(ends) = Len(mine) + Len(yours)
      /\ \A k \in 1 .. Len(mine) : ends[k] = mine[k]
      /\ \A k \in 1 .. Len(yours) : ends[Len(mine) + k] = yours[k] + m
  <2>1. Shifted(P, Q, m, n)
    BY <1>4 DEF Shifted
  <2> HIDE DEF P, Q, m, n
  <2>2. /\ Len(InOrder(P, m + n)) = Len(InOrder(P, m)) + Len(InOrder(Q, n))
        /\ \A k \in 1 .. Len(InOrder(P, m)) : InOrder(P, m + n)[k] = InOrder(P, m)[k]
        /\ \A k \in 1 .. Len(InOrder(Q, n)) :
             InOrder(P, m + n)[Len(InOrder(P, m)) + k] = InOrder(Q, n)[k] + m
    <3>1. m \in Nat /\ n \in Nat
      BY <1>1
    <3>2. ListsJoin(P, Q, m, n)
      BY <2>1, <3>1, InOrderJoins
    <3> QED
      BY <3>2 DEF ListsJoin
  <2> QED
    BY <1>8, <2>2
<1> HIDE DEF m, n, P, Q, ends, mine, yours, A, B, AB
<1>10. \A k \in 1 .. Len(A) : AB[k] = A[k]
  <2>1. ASSUME NEW k \in 1 .. Len(A) PROVE AB[k] = A[k]
    <3>1. k \in 1 .. Len(AB) /\ k \in 1 .. Len(mine)
      BY <1>5, <1>6, <1>7, <1>9
    <3> QED
      BY <1>3, <1>5, <1>7, <1>9, <3>1
  <2> QED
    BY <2>1
<1>11. \A k \in 1 .. Len(B) : AB[Len(A) + k] = B[k]
  <2>1. ASSUME NEW k \in 1 .. Len(B) PROVE AB[Len(A) + k] = B[k]
    <3>1. Len(A) + k \in 1 .. Len(AB) /\ k \in 1 .. Len(yours)
      BY <1>5, <1>6, <1>7, <1>9
    <3>2. ends[Len(A) + k] = yours[k] + m
      BY <1>5, <1>9, <3>1
    <3> QED
      BY <1>4, <1>6, <1>7, <3>1, <3>2
  <2> QED
    BY <2>1
<1>12. /\ A \o B \in Seq(SUBSET ChainEntry) /\ Len(A \o B) = Len(A) + Len(B)
       /\ \A k \in 1 .. Len(A) + Len(B) : (A \o B)[k] = IF k <= Len(A) THEN A[k] ELSE B[k - Len(A)]
  <2>1. A \in Seq(SUBSET ChainEntry) /\ B \in Seq(SUBSET ChainEntry)
    BY <1>5, <1>6
  <2> QED
    BY <2>1, ConcatProperties
<1>13. Len(AB) = Len(A) + Len(B)
  BY <1>5, <1>6, <1>7, <1>9
<1>14. ASSUME NEW k \in 1 .. Len(A) + Len(B) PROVE AB[k] = (A \o B)[k]
  <2>1. CASE k <= Len(A)
    <3>1. k \in 1 .. Len(A)
      BY <1>5, <2>1
    <3> QED
      BY <1>10, <1>12, <2>1, <3>1
  <2>2. CASE ~(k <= Len(A))
    <3>1. k - Len(A) \in 1 .. Len(B) /\ Len(A) + (k - Len(A)) = k
      BY <1>5, <1>6, <2>2
    <3> QED
      BY <1>11, <1>12, <2>2, <3>1
  <2> QED
    BY <2>1, <2>2
<1>15. AB = A \o B
  BY <1>7, <1>12, <1>13, <1>14, SeqEqual
<1> QED
  BY <1>15 DEF AB, A, B, J

-----------------------------------------------------------------------------
(* Lines, one behind the other.                                             *)

LEMMA JoinedRuns ==
  ASSUME NEW lines \in Seq(Seq(Char)), lines # <<>>
  PROVE  \E f \in [1 .. Len(lines) -> Seq(Char)] :
           /\ Joined(lines) = f[Len(lines)]
           /\ f[1] = lines[1]
           /\ \A n \in 2 .. Len(lines) : f[n] = f[n - 1] \o <<Comma>> \o lines[n]
<1> DEFINE count == Len(lines)
           Joins(f) == f = [n \in 1 .. count |->
                              IF n = 1 THEN lines[1] ELSE f[n - 1] \o <<Comma>> \o lines[n]]
           next == [p \in (1 .. count - 1) \X Seq(Char) |-> p[2] \o <<Comma>> \o lines[p[1] + 1]]
           join == CHOOSE f : Joins(f)
<1>1. Len(lines) \in Nat \ {0} /\ count - 1 \in Nat
  BY EmptySeq
<1>2. \A n \in 1 .. count : lines[n] \in Seq(Char)
  BY ElementOfSeq
<1>3. \A s \in Seq(Char), n \in 1 .. count : s \o <<Comma>> \o lines[n] \in Seq(Char)
  BY <1>2, JoinedIsText
<1> HIDE DEF count
<1>4. next \in [(1 .. count - 1) \X Seq(Char) -> Seq(Char)]
  <2>1. \A n \in 1 .. count - 1 : n + 1 \in 1 .. count
    BY <1>1 DEF count
  <2>2. ASSUME NEW p \in (1 .. count - 1) \X Seq(Char)
        PROVE  p[2] \o <<Comma>> \o lines[p[1] + 1] \in Seq(Char)
    BY <1>3, <2>1
  <2> QED
    BY <2>2
<1>5. \A n \in 1 .. count - 1 : \A s \in Seq(Char) :
        next[<<n, s>>] = s \o <<Comma>> \o lines[n + 1]
  OBVIOUS
<1>6. lines[1] \in Seq(Char)
  <2>1. 1 \in 1 .. count
    BY <1>1 DEF count
  <2> QED
    BY <1>2, <2>1
<1> HIDE DEF next
<1>7. PICK g \in [0 .. count - 1 -> Seq(Char)] : Follows(g, lines[1], next, count - 1)
  BY <1>1, <1>4, <1>6, RecursionExists
<1>8. g[0] = lines[1] /\ \A n \in 1 .. count - 1 : g[n] = next[<<n, g[n - 1]>>]
  BY <1>7 DEF Follows
<1> DEFINE made == [n \in 1 .. count |-> g[n - 1]]
<1>9. Joins(made)
  <2>1. ASSUME NEW n \in 1 .. count
        PROVE  made[n] = IF n = 1 THEN lines[1] ELSE made[n - 1] \o <<Comma>> \o lines[n]
    <3>1. made[n] = g[n - 1]
      OBVIOUS
    <3>2. CASE n = 1
      BY <1>8, <3>1, <3>2
    <3>3. CASE n # 1
      <4>1. n - 1 \in 1 .. count - 1 /\ n - 1 \in 1 .. count /\ (n - 1) - 1 \in 0 .. count - 1
            /\ (n - 1) + 1 = n
        BY <1>1, <3>3 DEF count
      <4>2. made[n - 1] = g[(n - 1) - 1] /\ g[(n - 1) - 1] \in Seq(Char)
        BY <1>7, <4>1
      <4> HIDE DEF made
      <4>3. g[n - 1] = next[<<n - 1, g[(n - 1) - 1]>>]
        BY <1>8, <4>1
      <4>4. next[<<n - 1, g[(n - 1) - 1]>>] = g[(n - 1) - 1] \o <<Comma>> \o lines[(n - 1) + 1]
        BY <1>5, <4>1, <4>2
      <4> QED
        BY <3>1, <3>3, <4>1, <4>2, <4>3, <4>4
    <3> QED
      BY <3>2, <3>3
  <2> DEFINE again == [n \in 1 .. count |->
                         IF n = 1 THEN lines[1] ELSE made[n - 1] \o <<Comma>> \o lines[n]]
  <2>2. \A n \in 1 .. count : again[n] = made[n]
    <3> HIDE DEF made
    <3> QED
      BY <2>1
  <2>3. again = made
    BY <2>2
  <2> QED
    BY <2>3
<1> HIDE DEF made
<1>10. Joins(join)
  BY <1>9
<1>11. Joined(lines) = join[count]
  BY DEF Joined, count
<1> HIDE DEF join
<1>12. \A n \in 1 .. count :
         join[n] = IF n = 1 THEN lines[1] ELSE join[n - 1] \o <<Comma>> \o lines[n]
  BY <1>10
<1> HIDE DEF Joins
<1>13. \A n \in 1 .. count : n \in {k \in 1 .. count : join[k] \in Seq(Char)}
  <2> DEFINE T == {k \in 1 .. count : join[k] \in Seq(Char)}
  <2>1. 1 \in T
    BY <1>1, <1>6, <1>12 DEF count
  <2>2. ASSUME NEW n \in 1 .. count - 1, n \in T PROVE n + 1 \in T
    <3>1. n + 1 \in 1 .. count /\ n + 1 # 1 /\ (n + 1) - 1 = n
      BY <1>1 DEF count
    <3> QED
      BY <1>3, <1>12, <2>2, <3>1
  <2> HIDE DEF T
  <2>3. \A n \in 1 .. count : n \in T
    <3>1. 1 \in Int /\ count \in Int
      BY <1>1 DEF count
    <3> QED
      BY <2>1, <2>2, <3>1, InductionFrom
  <2> QED
    BY <2>3 DEF T
<1>14. join = [n \in 1 .. count |-> join[n]]
  BY <1>10 DEF Joins
<1>15. join \in [1 .. count -> Seq(Char)]
  BY <1>13, <1>14
<1>16. 1 \in 1 .. count /\ \A n \in 2 .. count : n \in 1 .. count /\ n # 1
  BY <1>1 DEF count
<1>17. join[1] = lines[1] /\ \A n \in 2 .. count : join[n] = join[n - 1] \o <<Comma>> \o lines[n]
  BY <1>12, <1>16
<1> QED
  BY <1>11, <1>15, <1>17 DEF count

\* The hops of the first lines of a header.
HopsUpTo(kind, lines) ==
  CHOOSE f : f = [n \in 0 .. Len(lines) |->
                    IF n = 0 THEN <<>> ELSE f[n - 1] \o LineHops(kind, lines[n])]

LEMMA HopsUpToRuns ==
  ASSUME NEW kind, NEW lines \in Seq(Seq(Char))
  PROVE  /\ HopsOneByOne(kind, lines) = HopsUpTo(kind, lines)[Len(lines)]
         /\ HopsUpTo(kind, lines)[0] = <<>>
         /\ \A n \in 1 .. Len(lines) :
              /\ LineHops(kind, lines[n]) \in Seq(SUBSET ChainEntry)
              /\ HopsUpTo(kind, lines)[n] =
                   HopsUpTo(kind, lines)[n - 1] \o LineHops(kind, lines[n])
         /\ \A n \in 0 .. Len(lines) : HopsUpTo(kind, lines)[n] \in Seq(SUBSET ChainEntry)
<1> DEFINE S == Seq(SUBSET ChainEntry)
           count == Len(lines)
           hops(n) == LineHops(kind, lines[n])
           Runs(f) == f = [n \in 0 .. count |-> IF n = 0 THEN <<>> ELSE f[n - 1] \o hops(n)]
           next == [p \in (1 .. count) \X S |-> p[2] \o hops(p[1])]
           upto == CHOOSE f : Runs(f)
<1>1. count \in Nat
  BY LenProperties
<1>2. \A n \in 1 .. count : hops(n) \in S
  BY ElementOfSeq, LineHopsAre
<1>3. \A s \in S, n \in 1 .. count : s \o hops(n) \in S
  BY <1>2, ConcatProperties
<1>4. upto = HopsUpTo(kind, lines) /\ HopsOneByOne(kind, lines) = upto[count]
  BY DEF HopsUpTo, HopsOneByOne
<1>5. <<>> \in S
  BY EmptySeq
<1> HIDE DEF count, hops, S
<1>6. next \in [(1 .. count) \X S -> S]
  BY <1>3
<1>7. \A n \in 1 .. count : \A s \in S : next[<<n, s>>] = s \o hops(n)
  OBVIOUS
<1> HIDE DEF next
<1>8. PICK g \in [0 .. count -> S] : Follows(g, <<>>, next, count)
  BY <1>1, <1>5, <1>6, RecursionExists
<1>9. g[0] = <<>> /\ \A n \in 1 .. count : g[n] = next[<<n, g[n - 1]>>]
  BY <1>8 DEF Follows
<1>10. Runs(g)
  <2>1. ASSUME NEW n \in 0 .. count PROVE g[n] = IF n = 0 THEN <<>> ELSE g[n - 1] \o hops(n)
    <3>1. CASE n = 0
      BY <1>9, <3>1
    <3>2. CASE n # 0
      <4>1. n \in 1 .. count /\ n - 1 \in 0 .. count
        BY <1>1, <3>2
      <4>2. g[n - 1] \in S
        BY <1>8, <4>1
      <4> QED
        BY <1>7, <1>9, <3>2, <4>1, <4>2
    <3> QED
      BY <3>1, <3>2
  <2> QED
    BY <1>8, <2>1
<1>11. Runs(upto)
  BY <1>10
<1> HIDE DEF upto
<1>12. \A n \in 0 .. count : upto[n] = IF n = 0 THEN <<>> ELSE upto[n - 1] \o hops(n)
  BY <1>11
<1> HIDE DEF Runs
<1>13. upto[0] = <<>> /\ \A n \in 1 .. count : upto[n] = upto[n - 1] \o hops(n)
  <2>1. 0 \in 0 .. count /\ \A n \in 1 .. count : n \in 0 .. count /\ n # 0
    BY <1>1
  <2> QED
    BY <1>12, <2>1
<1>14. \A n \in 0 .. count : upto[n] \in S
  <2> DEFINE T == {n \in 0 .. count : upto[n] \in S}
  <2>1. 0 \in T
    BY <1>1, <1>5, <1>13
  <2>2. ASSUME NEW n \in 1 .. count, n - 1 \in T PROVE n \in T
    <3>1. n \in 0 .. count /\ upto[n - 1] \in S
      BY <2>2
    <3> QED
      BY <1>3, <1>13, <3>1
  <2> HIDE DEF T
  <2>3. \A n \in 0 .. count : n \in T
    BY <1>1, <2>1, <2>2, InductionUpTo
  <2> QED
    BY <2>3 DEF T
<1> QED
  BY <1>2, <1>4, <1>13, <1>14 DEF hops, count, S

\* Lines that leave no string open are one list.
LEMMA LinesAreOneList ==
  ASSUME NEW kind, NEW lines \in Seq(Seq(Char)), lines # <<>>,
         \A n \in 1 .. Len(lines) - 1 : JoinsOn(kind, lines[n])
  PROVE  LineHops(kind, Joined(lines)) = HopsOneByOne(kind, lines)
<1>1. Len(lines) \in Nat /\ 1 <= Len(lines)
  BY EmptySeq
<1>2. PICK f \in [1 .. Len(lines) -> Seq(Char)] :
        /\ Joined(lines) = f[Len(lines)]
        /\ f[1] = lines[1]
        /\ \A n \in 2 .. Len(lines) : f[n] = f[n - 1] \o <<Comma>> \o lines[n]
  BY JoinedRuns
<1> DEFINE upto == HopsUpTo(kind, lines)
<1>3. /\ HopsOneByOne(kind, lines) = upto[Len(lines)]
      /\ upto[0] = <<>>
      /\ \A n \in 1 .. Len(lines) : /\ LineHops(kind, lines[n]) \in Seq(SUBSET ChainEntry)
                                    /\ upto[n] = upto[n - 1] \o LineHops(kind, lines[n])
  BY HopsUpToRuns
<1> HIDE DEF upto
<1> DEFINE T == {n \in 1 .. Len(lines) :
                   /\ LineHops(kind, f[n]) = upto[n]
                   /\ n < Len(lines) => JoinsOn(kind, f[n])}
<1>4. 1 \in T
  <2>1. 1 \in 1 .. Len(lines) /\ 1 - 1 = 0
    BY <1>1
  <2>2. upto[1] = <<>> \o LineHops(kind, lines[1]) /\ LineHops(kind, lines[1]) \in Seq(SUBSET ChainEntry)
    BY <1>3, <2>1
  <2>3. upto[1] = LineHops(kind, lines[1])
    BY <2>2, ConcatEmptySeq
  <2>4. 1 < Len(lines) => 1 \in 1 .. Len(lines) - 1
    BY <1>1
  <2> QED
    BY <1>2, <2>1, <2>3, <2>4
<1>5. ASSUME NEW n \in 1 .. Len(lines) - 1, n \in T PROVE n + 1 \in T
  <2>1. n + 1 \in 2 .. Len(lines) /\ n + 1 \in 1 .. Len(lines) /\ (n + 1) - 1 = n /\ n \in 1 .. Len(lines)
    BY <1>1
  <2>2. f[n] \in Seq(Char) /\ lines[n + 1] \in Seq(Char)
    BY <1>2, <2>1, ElementOfSeq
  <2>3. f[n + 1] = f[n] \o <<Comma>> \o lines[n + 1]
    BY <1>2, <2>1
  <2>4. JoinsOn(kind, f[n]) /\ LineHops(kind, f[n]) = upto[n]
    BY <1>1, <1>5
  <2>5. LineHops(kind, f[n + 1]) = LineHops(kind, f[n]) \o LineHops(kind, lines[n + 1])
    BY <2>2, <2>3, <2>4, HopsJoin
  <2>6. n + 1 < Len(lines) => JoinsOn(kind, f[n + 1])
    <3>1. n + 1 < Len(lines) => n + 1 \in 1 .. Len(lines) - 1
      BY <2>1
    <3> QED
      BY <2>2, <2>3, <2>4, <3>1, JoinedParts
  <2>7. upto[n + 1] = upto[n] \o LineHops(kind, lines[n + 1])
    BY <1>3, <2>1
  <2> QED
    BY <2>1, <2>4, <2>5, <2>6, <2>7
<1> HIDE DEF T
<1>6. \A n \in 1 .. Len(lines) : n \in T
  <2>1. 1 \in Int /\ Len(lines) \in Int
    BY <1>1
  <2> QED
    BY <1>4, <1>5, <2>1, InductionFrom
<1>7. Len(lines) \in T
  BY <1>1, <1>6
<1> QED
  BY <1>2, <1>3, <1>7 DEF T

\* Read as one list or line by line, a header has the same hops.
LEMMA HopsAreLineByLine ==
  ASSUME NEW h \in Header
  PROVE  Hops(h) = HopsOneByOne(h.kind, h.lines)
<1>1. /\ h.kind \in {"XForwardedFor", "Forwarded"}
      /\ h.lines \in Seq(Seq(Char)) /\ h.lines # <<>>
  BY DEF Header
<1>2. CASE h.kind = "XForwardedFor"
             \/ \A n \in 1 .. Len(h.lines) - 1 : IsClosed(h.lines[n])
  BY <1>1, <1>2, LinesAreOneList DEF Hops, JoinsOn
<1>3. CASE ~(h.kind = "XForwardedFor"
               \/ \A n \in 1 .. Len(h.lines) - 1 : IsClosed(h.lines[n]))
  BY <1>3 DEF Hops
<1> QED
  BY <1>2, <1>3

-----------------------------------------------------------------------------
(* The texts that give an address.                                          *)

Address(ip) == [char |-> "address", ip |-> ip]

LEMMA MarksAreChars ==
  /\ {Quote, Backslash, Comma, Semicolon, Equals, Colon, OpenBracket, CloseBracket,
      Underscore, Space, For, Unknown} \subseteq Char
  /\ \A ip \in IpAddr : Address(ip) \in Char
BY DEF Quote, Backslash, Comma, Semicolon, Equals, Colon, OpenBracket, CloseBracket,
       Underscore, Space, For, Unknown, Mark, Char, Marks, Words, Address

LEMMA PieceIs ==
  ASSUME NEW text \in Seq(Char), NEW m \in Nat \ {0}, NEW n \in Nat, n <= Len(text), m <= n + 1
  PROVE  /\ SubSeq(text, m, n) \in Seq(Char) /\ Len(SubSeq(text, m, n)) = (n - m) + 1
         /\ \A i \in 1 .. (n - m) + 1 : SubSeq(text, m, n)[i] = text[(m + i) - 1]
<1>1. Len(text) \in Nat
  BY LenProperties
<1>2. \A i \in m .. n : i \in 1 .. Len(text)
  BY <1>1
<1>3. \A i \in m .. n : text[i] \in Char
  BY <1>2, ElementOfSeq
<1>4. /\ SubSeq(text, m, n) \in Seq(Char)
      /\ Len(SubSeq(text, m, n)) = IF m <= n THEN n - m + 1 ELSE 0
      /\ \A i \in 1 .. n - m + 1 : SubSeq(text, m, n)[i] = text[m + i - 1]
  BY <1>3, SubSeqProperties
<1>5. m \in Int /\ n \in Int
  OBVIOUS
<1> QED
  BY <1>4, <1>5

LEMMA FrontIs ==
  ASSUME NEW text \in Seq(Char), NEW front \in Seq(Char), Len(text) > Len(front)
  PROVE  SubSeq(text, 1, Len(front)) = front <=> \A i \in 1 .. Len(front) : text[i] = front[i]
<1>1. Len(text) \in Nat /\ Len(front) \in Nat
  BY LenProperties
<1>2. /\ SubSeq(text, 1, Len(front)) \in Seq(Char)
      /\ Len(SubSeq(text, 1, Len(front))) = (Len(front) - 1) + 1
      /\ \A i \in 1 .. (Len(front) - 1) + 1 : SubSeq(text, 1, Len(front))[i] = text[(1 + i) - 1]
  BY <1>1, PieceIs
<1>3. (Len(front) - 1) + 1 = Len(front) /\ \A i \in 1 .. Len(front) : (1 + i) - 1 = i
  BY <1>1
<1>4. /\ Len(SubSeq(text, 1, Len(front))) = Len(front)
      /\ \A i \in 1 .. Len(front) : SubSeq(text, 1, Len(front))[i] = text[i]
  BY <1>2, <1>3
<1>5. ASSUME \A i \in 1 .. Len(front) : text[i] = front[i]
      PROVE  SubSeq(text, 1, Len(front)) = front
  BY <1>2, <1>4, <1>5, SeqEqual
<1> QED
  BY <1>4, <1>5

LEMMA PortIs ==
  ASSUME NEW port \in Seq(Char), IsNodePort(port)
  PROVE  /\ Len(port) \in Nat /\ 1 <= Len(port)
         /\ \A i \in 1 .. Len(port) : port[i] \notin {Quote, Colon, Equals}
<1>1. port # <<>> /\ Len(port) \in Nat /\ DOMAIN port = 1 .. Len(port)
  BY LenProperties DEF IsNodePort
<1>2. 1 <= Len(port)
  BY <1>1, EmptySeq
<1>3. CASE \A i \in 1 .. Len(port) : port[i].char = "digits"
  BY <1>1, <1>2, <1>3 DEF Quote, Colon, Equals, Mark
<1>4. CASE /\ port[1] = Underscore
           /\ \A i \in 2 .. Len(port) : port[i].char \in Words \cup {"underscore", "address"}
  <2>1. \A i \in 1 .. Len(port) : i = 1 \/ i \in 2 .. Len(port)
    BY <1>1
  <2> QED
    BY <1>1, <1>2, <1>4, <2>1 DEF Quote, Colon, Equals, Underscore, Mark, Words
<1> QED
  BY <1>1, <1>3, <1>4 DEF IsNodePort

\* The forms in which an address is given, by their characters.
Form(text, ip) ==
  \/ Len(text) = 1 /\ text[1] = Address(ip)
  \/ /\ Len(text) >= 3
     /\ text[1] = OpenBracket /\ text[2] = Address(ip) /\ text[3] = CloseBracket
     /\ \/ Len(text) = 3
        \/ Len(text) > 4 /\ text[4] = Colon /\ IsNodePort(SubSeq(text, 5, Len(text)))
  \/ /\ ip < V4Count /\ Len(text) > 2
     /\ text[1] = Address(ip) /\ text[2] = Colon
     /\ IsNodePort(SubSeq(text, 3, Len(text)))

LEMMA GivesForm ==
  ASSUME NEW text \in Seq(Char), NEW ip \in IpAddr
  PROVE  Gives(text, ip) <=> Form(text, ip)
<1> DEFINE a == Address(ip)
           f1 == <<a>>
           f2 == <<OpenBracket, a, CloseBracket>>
           f3 == <<OpenBracket, a, CloseBracket, Colon>>
           f4 == <<a, Colon>>
           Begins(front) == Len(text) > Len(front) /\ SubSeq(text, 1, Len(front)) = front
           HasPort(front) == Begins(front) /\ IsNodePort(SubSeq(text, Len(front) + 1, Len(text)))
<1>1. a \in Char /\ OpenBracket \in Char /\ CloseBracket \in Char /\ Colon \in Char /\ Len(text) \in Nat
  BY MarksAreChars, LenProperties
<1>2. Gives(text, ip) <=> \/ text = f1 \/ text = f2 \/ HasPort(f3)
                          \/ ip < V4Count /\ HasPort(f4)
  BY DEF Gives, Address
<1> HIDE DEF a
<1>3. f1 \in Seq(Char) /\ Len(f1) = 1 /\ f1[1] = a
  BY <1>1
<1>4. f2 \in Seq(Char) /\ Len(f2) = 3 /\ f2[1] = OpenBracket /\ f2[2] = a /\ f2[3] = CloseBracket
  BY <1>1
<1>5. /\ f3 \in Seq(Char) /\ Len(f3) = 4
      /\ f3[1] = OpenBracket /\ f3[2] = a /\ f3[3] = CloseBracket /\ f3[4] = Colon
  BY <1>1
<1>6. f4 \in Seq(Char) /\ Len(f4) = 2 /\ f4[1] = a /\ f4[2] = Colon
  BY <1>1
<1> HIDE DEF f1, f2, f3, f4
<1>7. text = f1 <=> Len(text) = 1 /\ text[1] = a
  <2>1. ASSUME Len(text) = 1, text[1] = a PROVE text = f1
    <3>1. \A i \in 1 .. Len(text) : text[i] = f1[i]
      BY <1>3, <2>1
    <3>2. Len(text) = Len(f1)
      BY <1>3, <2>1
    <3> QED
      BY <1>3, <3>1, <3>2, SeqEqual
  <2> QED
    BY <1>3, <2>1
<1>8. text = f2 <=> /\ Len(text) = 3
                    /\ text[1] = OpenBracket /\ text[2] = a /\ text[3] = CloseBracket
  <2>1. ASSUME Len(text) = 3, text[1] = OpenBracket, text[2] = a, text[3] = CloseBracket
        PROVE  text = f2
    <3>1. \A i \in 1 .. Len(text) : text[i] = f2[i]
      BY <1>4, <2>1
    <3>2. Len(text) = Len(f2)
      BY <1>4, <2>1
    <3> QED
      BY <1>4, <3>1, <3>2, SeqEqual
  <2> QED
    BY <1>4, <2>1
<1>9. Begins(f3) <=> /\ Len(text) > 4 /\ text[1] = OpenBracket /\ text[2] = a
                     /\ text[3] = CloseBracket /\ text[4] = Colon
  <2>1. (\A i \in 1 .. Len(f3) : text[i] = f3[i]) <=>
          text[1] = OpenBracket /\ text[2] = a /\ text[3] = CloseBracket /\ text[4] = Colon
    <3>1. \A i \in 1 .. 4 : i = 1 \/ i = 2 \/ i = 3 \/ i = 4
      OBVIOUS
    <3>2. 1 \in 1 .. 4 /\ 2 \in 1 .. 4 /\ 3 \in 1 .. 4 /\ 4 \in 1 .. 4
      OBVIOUS
    <3> QED
      BY <1>5, <3>1, <3>2
  <2>2. Len(text) > Len(f3) =>
          (SubSeq(text, 1, Len(f3)) = f3 <=> \A i \in 1 .. Len(f3) : text[i] = f3[i])
    BY <1>5, FrontIs
  <2> QED
    BY <1>5, <2>1, <2>2
<1>10. Begins(f4) <=> Len(text) > 2 /\ text[1] = a /\ text[2] = Colon
  <2>1. (\A i \in 1 .. Len(f4) : text[i] = f4[i]) <=> text[1] = a /\ text[2] = Colon
    <3>1. \A i \in 1 .. 2 : i = 1 \/ i = 2
      OBVIOUS
    <3>2. 1 \in 1 .. 2 /\ 2 \in 1 .. 2
      OBVIOUS
    <3> QED
      BY <1>6, <3>1, <3>2
  <2>2. Len(text) > Len(f4) =>
          (SubSeq(text, 1, Len(f4)) = f4 <=> \A i \in 1 .. Len(f4) : text[i] = f4[i])
    BY <1>6, FrontIs
  <2> QED
    BY <1>6, <2>1, <2>2
<1> HIDE DEF Begins
<1>11. HasPort(f3) <=> Begins(f3) /\ IsNodePort(SubSeq(text, 5, Len(text)))
  BY <1>5
<1>12. HasPort(f4) <=> Begins(f4) /\ IsNodePort(SubSeq(text, 3, Len(text)))
  BY <1>6
<1> HIDE DEF HasPort
<1> QED
  BY <1>1, <1>2, <1>7, <1>8, <1>9, <1>10, <1>11, <1>12 DEF Form, a

\* A text that gives an address holds it, and no quote.
LEMMA FormHolds ==
  ASSUME NEW text \in Seq(Char), NEW ip \in IpAddr, Form(text, ip)
  PROVE  /\ \E i \in 1 .. Len(text) : text[i] = Address(ip)
         /\ \A i \in 1 .. Len(text) : text[i] \notin {Quote, Equals}
<1>1. Len(text) \in Nat
  BY LenProperties
<1>2. /\ Quote \notin {Address(ip), OpenBracket, CloseBracket, Colon}
      /\ Equals \notin {Address(ip), OpenBracket, CloseBracket, Colon}
  BY DEF Quote, Equals, Address, OpenBracket, CloseBracket, Colon, Mark
<1>3. ASSUME NEW m \in 1 .. Len(text), IsNodePort(SubSeq(text, m, Len(text)))
      PROVE  \A i \in m .. Len(text) : text[i] \notin {Quote, Equals}
  <2> DEFINE port == SubSeq(text, m, Len(text))
             n == (Len(text) - m) + 1
  <2>1. /\ port \in Seq(Char) /\ Len(port) = n
        /\ \A i \in 1 .. n : port[i] = text[(m + i) - 1]
    BY <1>1, PieceIs
  <2>2. IsNodePort(port)
    BY <1>3
  <2> HIDE DEF port
  <2>3. \A i \in 1 .. n : port[i] \notin {Quote, Equals}
    BY <2>1, <2>2, PortIs
  <2>4. \A i \in m .. Len(text) : (i - m) + 1 \in 1 .. n /\ (m + ((i - m) + 1)) - 1 = i
    BY <1>1
  <2> QED
    BY <2>1, <2>3, <2>4
<1>4. CASE Len(text) = 1 /\ text[1] = Address(ip)
  BY <1>2, <1>4
<1>5. CASE /\ Len(text) >= 3
           /\ text[1] = OpenBracket /\ text[2] = Address(ip) /\ text[3] = CloseBracket
           /\ \/ Len(text) = 3
              \/ Len(text) > 4 /\ text[4] = Colon /\ IsNodePort(SubSeq(text, 5, Len(text)))
  <2>1. 2 \in 1 .. Len(text)
    BY <1>1, <1>5
  <2>2. ASSUME NEW i \in 1 .. Len(text) PROVE text[i] \notin {Quote, Equals}
    <3>1. i = 1 \/ i = 2 \/ i = 3 \/ i = 4 \/ i \in 5 .. Len(text)
      BY <1>1
    <3>2. i = 4 => text[4] \notin {Quote, Equals}
      BY <1>1, <1>2, <1>5
    <3>3. i \in 5 .. Len(text) => text[i] \notin {Quote, Equals}
      BY <1>1, <1>3, <1>5
    <3> QED
      BY <1>2, <1>5, <3>1, <3>2, <3>3
  <2> QED
    BY <1>5, <2>1, <2>2
<1>6. CASE /\ Len(text) > 2
           /\ text[1] = Address(ip) /\ text[2] = Colon
           /\ IsNodePort(SubSeq(text, 3, Len(text)))
  <2>1. 1 \in 1 .. Len(text)
    BY <1>1, <1>6
  <2>2. ASSUME NEW i \in 1 .. Len(text) PROVE text[i] \notin {Quote, Equals}
    <3>1. i = 1 \/ i = 2 \/ i \in 3 .. Len(text)
      BY <1>1
    <3>2. i \in 3 .. Len(text) => text[i] \notin {Quote, Equals}
      BY <1>1, <1>3, <1>6
    <3> QED
      BY <1>2, <1>6, <3>1, <3>2
  <2> QED
    BY <1>6, <2>1, <2>2
<1> QED
  BY <1>4, <1>5, <1>6 DEF Form

\* Trimming takes blanks only.
LEMMA TrimmedIs ==
  ASSUME NEW text \in Seq(Char)
  PROVE  /\ Trimmed(text) \in Seq(Char) /\ Len(text) \in Nat /\ Len(Trimmed(text)) \in Nat
         /\ \A i \in 1 .. Len(Trimmed(text)) : \E j \in 1 .. Len(text) : Trimmed(text)[i] = text[j]
         /\ \A j \in 1 .. Len(text) : text[j] # Space =>
              \E i \in 1 .. Len(Trimmed(text)) : Trimmed(text)[i] = text[j]
<1> DEFINE t == Trim(text, Whole(text))
           inked == {i \in 1 .. Len(text) : text[i] # Space}
<1>1. /\ Len(text) \in Nat /\ Whole(text).first = 1 /\ Whole(text).last = Len(text)
      /\ SliceOf(text, Whole(text))
  BY WholeIs
<1>2. SliceOf(text, t)
  BY <1>1, TrimWithin
<1>3. t = IF inked = {} THEN Slice(1, 1 - 1) ELSE Slice(Least(inked), Greatest(inked))
  BY <1>1 DEF Trim
<1> HIDE DEF t
<1>4. t.first \in 1 .. Len(text) + 1 /\ t.last \in 0 .. Len(text) /\ t.first <= t.last + 1
  BY <1>2 DEF SliceOf
<1>5. ASSUME NEW j \in inked PROVE t.first <= j /\ j <= t.last
  <2>1. inked \in SUBSET Nat /\ inked \in SUBSET (1 .. Len(text)) /\ inked # {}
    BY <1>1
  <2> HIDE DEF inked
  <2>2. Least(inked) <= j /\ Greatest(inked) >= j /\ Greatest(inked) \in inked
    <3>1. \A i \in inked : Least(inked) <= i
      BY <2>1, LeastIsChosen
    <3>2. Greatest(inked) \in inked /\ \A i \in inked : Greatest(inked) >= i
      BY <1>1, <2>1, GreatestIsChosen
    <3> QED
      BY <3>1, <3>2
  <2>3. t.first = Least(inked) /\ t.last = Greatest(inked)
    BY <1>3, <2>1, SliceIs
  <2> QED
    BY <1>1, <2>1, <2>2, <2>3
<1>6. Trimmed(text) = SubSeq(text, t.first, t.last)
  BY DEF Trimmed, Text, t
<1> DEFINE n == (t.last - t.first) + 1
<1>7. /\ Trimmed(text) \in Seq(Char) /\ Len(Trimmed(text)) = n
      /\ \A i \in 1 .. n : Trimmed(text)[i] = text[(t.first + i) - 1]
  <2>1. t.first \in Nat \ {0} /\ t.last \in Nat /\ t.last <= Len(text) /\ t.first <= t.last + 1
    BY <1>1, <1>4
  <2> DEFINE piece == SubSeq(text, t.first, t.last)
  <2>2. /\ piece \in Seq(Char) /\ Len(piece) = n
        /\ \A i \in 1 .. n : piece[i] = text[(t.first + i) - 1]
    BY <2>1, PieceIs
  <2> HIDE DEF n
  <2> QED
    BY <1>6, <2>2
<1>8. n \in Nat /\ \A i \in 1 .. n : (t.first + i) - 1 \in 1 .. Len(text)
  <2>1. t.first \in Int /\ t.last \in Int /\ Len(text) \in Int
    BY <1>1, <1>4
  <2> QED
    BY <1>4, <2>1
<1>9. ASSUME NEW j \in inked
      PROVE  (j - t.first) + 1 \in 1 .. n /\ (t.first + ((j - t.first) + 1)) - 1 = j
  <2>1. t.first <= j /\ j <= t.last /\ j \in Int /\ t.first \in Int /\ t.last \in Int
    BY <1>1, <1>4, <1>5
  <2> HIDE DEF inked
  <2> QED
    BY <2>1
<1>10. ASSUME NEW j \in 1 .. Len(text), text[j] # Space
       PROVE  \E i \in 1 .. n : Trimmed(text)[i] = text[j]
  <2>1. j \in inked
    BY <1>10
  <2> HIDE DEF n, inked
  <2> QED
    BY <1>7, <1>9, <2>1
<1> HIDE DEF n
<1> QED
  BY <1>1, <1>7, <1>8, <1>10

-----------------------------------------------------------------------------
(* Pieces that leave no string open.                                        *)

LEMMA TrimBehind ==
  ASSUME NEW text, Len(text) \in Nat, NEW s, SliceOf(text, s)
  PROVE  \A i \in Trim(text, s).last + 1 .. s.last : text[i] = Space
<1>1. s.first \in 1 .. Len(text) + 1 /\ s.last \in 0 .. Len(text) /\ s.first <= s.last + 1
  BY DEF SliceOf
<1> DEFINE inked == {i \in s.first .. s.last : text[i] # Space}
<1>2. inked \in SUBSET (1 .. Len(text))
  BY <1>1
<1>3. CASE inked = {}
  <2>1. Trim(text, s).last = s.first - 1
    BY <1>3, SliceIs DEF Trim
  <2>2. \A i \in (s.first - 1) + 1 .. s.last : i \in s.first .. s.last
    BY <1>1
  <2> QED
    BY <1>3, <2>1, <2>2
<1>4. CASE inked # {}
  <2>1. Trim(text, s).last = Greatest(inked)
    BY <1>4, SliceIs DEF Trim
  <2> DEFINE last == Greatest(inked)
  <2>2. last \in inked /\ \A j \in inked : last >= j
    <3> HIDE DEF inked
    <3> QED
      BY <1>2, <1>4, GreatestIsChosen
  <2> HIDE DEF last
  <2>3. last \in s.first .. s.last
    BY <2>2
  <2>4. ASSUME NEW i \in last + 1 .. s.last PROVE text[i] = Space
    <3>1. i \in s.first .. s.last /\ ~(last >= i)
      BY <1>1, <2>3
    <3> QED
      BY <2>2, <3>1
  <2> QED
    BY <2>1, <2>4 DEF last
<1> QED
  BY <1>3, <1>4

\* A string that goes on where blanks are has not ended before them.
LEMMA InsideAcrossBlanks ==
  ASSUME NEW text \in Seq(Char), NEW p \in Nat \ {0}, NEW q \in 1 .. Len(text) + 1, p <= q,
         q \notin Inside(text), \A i \in p .. q - 1 : text[i] = Space
  PROVE  p \notin Inside(text)
<1>1. Len(text) \in Nat
  BY LenProperties
<1> SUFFICES ASSUME p \in Inside(text) PROVE FALSE
  OBVIOUS
<1> DEFINE T == Inside(text)
<1>2. ASSUME NEW n \in p .. q - 1, n \in T PROVE n + 1 \in T
  <2>1. n \in 1 .. Len(text) /\ text[n] = Space
    BY <1>1
  <2>2. Quote # Space
    BY DEF Quote, Space, Mark
  <2> QED
    BY <1>2, <2>1, <2>2, FromInside
<1> HIDE DEF T
<1>3. p \in T /\ p \in Int /\ q \in Int
  BY DEF T
<1>4. \A n \in p .. q : n \in T
  BY <1>2, <1>3, InductionFrom
<1>5. q \in p .. q
  BY <1>1
<1> QED
  BY <1>4, <1>5 DEF T

\* A piece is its own text, and leaves a string open when its text does.
LEMMA PieceScan ==
  ASSUME NEW text \in Seq(Char), NEW s, SliceOf(text, s), s.first \notin Inside(text),
         NEW t, t = Text(text, s)
  PROVE  /\ t \in Seq(Char) /\ Len(t) = (s.last - s.first) + 1
         /\ Matches(text, t, Whole(t), s.first - 1)
         /\ InsideMatches(text, t, Whole(t), s.first - 1)
         /\ IsClosed(t) <=> s.last + 1 \notin Inside(text)
         /\ Moved(Whole(t), s.first - 1) = s
<1> DEFINE d == s.first - 1
<1>1. /\ s.first \in Nat \ {0} /\ s.last \in Nat /\ s.last <= Len(text)
      /\ s.first <= s.last + 1 /\ Len(text) \in Nat /\ d \in Nat
  <2>1. Len(text) \in Nat
    BY LenProperties
  <2> QED
    BY <2>1 DEF SliceOf
<1>2. /\ t \in Seq(Char) /\ Len(t) = (s.last - s.first) + 1
      /\ \A i \in 1 .. (s.last - s.first) + 1 : t[i] = text[(s.first + i) - 1]
  <2>1. t = SubSeq(text, s.first, s.last)
    BY DEF Text
  <2> DEFINE m == s.first
             n == s.last
  <2>2. m \in Nat \ {0} /\ n \in Nat /\ n <= Len(text) /\ m <= n + 1
    BY <1>1
  <2> HIDE DEF m, n
  <2>3. /\ SubSeq(text, m, n) \in Seq(Char) /\ Len(SubSeq(text, m, n)) = (n - m) + 1
        /\ \A i \in 1 .. (n - m) + 1 : SubSeq(text, m, n)[i] = text[(m + i) - 1]
    BY <2>2, PieceIs
  <2> QED
    BY <2>1, <2>3 DEF m, n
<1>3. /\ Len(t) \in Nat /\ Whole(t).first = 1 /\ Whole(t).last = Len(t) /\ SliceOf(t, Whole(t))
  BY <1>2, WholeIs
<1>4. Moved(Whole(t), d) = s
  <2>1. Whole(t) = Slice(1, Len(t)) /\ s = Slice(s.first, s.last)
    BY DEF Whole, SliceOf
  <2>2. 1 + d = s.first /\ Len(t) + d = s.last
    BY <1>1, <1>2
  <2>3. Moved(Slice(1, Len(t)), d) = Slice(1 + d, Len(t) + d)
    <3>1. 1 \in Int /\ Len(t) \in Int /\ d \in Int
      BY <1>1, <1>3
    <3> HIDE DEF d
    <3> QED
      BY <3>1, MovedIs
  <2> QED
    BY <2>1, <2>2, <2>3
<1>5. \A i \in Whole(t).first .. Whole(t).last : text[i + d] = t[i]
  <2>1. ASSUME NEW i \in 1 .. Len(t) PROVE text[i + d] = t[i]
    <3>1. (s.first + i) - 1 = i + d
      BY <1>1, <1>3
    <3> QED
      BY <1>2, <3>1
  <2> QED
    BY <1>3, <2>1
<1>6. Matches(text, t, Whole(t), d)
  <2> HIDE DEF d
  <2> QED
    BY <1>1, <1>2, <1>3, <1>4, <1>5 DEF Matches
<1>7. \A i \in 1 .. Len(t) + 1 : i \in Inside(t) <=> i + d \in Inside(text)
  <2>1. 1 \notin Inside(t) /\ 1 + d = s.first
    BY <1>1, <1>2, LineStartsOutside
  <2>2. Whole(t).first \notin Inside(t) /\ Whole(t).first + d \notin Inside(text)
    BY <1>3, <2>1
  <2>3. \A i \in Whole(t).first .. Whole(t).last + 1 : i \in Inside(t) <=> i + d \in Inside(text)
    <3> HIDE DEF d
    <3> QED
      BY <1>6, <2>2, SameScan
  <2> QED
    BY <1>3, <2>3
<1>8. InsideMatches(text, t, Whole(t), d)
  BY <1>3, <1>7 DEF InsideMatches
<1>9. IsClosed(t) <=> s.last + 1 \notin Inside(text)
  <2>1. Len(t) + 1 \in 1 .. Len(t) + 1
    BY <1>3
  <2>2. (Len(t) + 1) + d = s.last + 1
    <3>1. Len(t) = (s.last - s.first) + 1
      BY <1>2
    <3>2. s.last \in Int /\ s.first \in Int
      BY <1>1
    <3> QED
      BY <3>1, <3>2
  <2> QED
    BY <1>7, <2>1, <2>2 DEF IsClosed
<1> QED
  BY <1>2, <1>4, <1>6, <1>8, <1>9

\* What is trimmed from outside to outside leaves no string open.
LEMMA TrimScan ==
  ASSUME NEW text \in Seq(Char), NEW s, SliceOf(text, s),
         s.first \notin Inside(text), s.last + 1 \notin Inside(text)
  PROVE  /\ Trim(text, s).first \notin Inside(text)
         /\ Trim(text, s).last + 1 \notin Inside(text)
         /\ SliceOf(text, Trim(text, s))
<1> DEFINE p == Trim(text, s)
<1>1. Len(text) \in Nat
  BY LenProperties
<1>2. /\ Within(p, s) /\ SliceOf(text, p)
      /\ \A i \in s.first .. p.first - 1 : text[i] = Space
      /\ \A i \in p.last + 1 .. s.last : text[i] = Space
  BY <1>1, TrimWithin, TrimBehind
<1> HIDE DEF p
<1>3. /\ s.first \in Nat /\ p.first \in Nat /\ s.first <= p.first
      /\ p.last + 1 \in Nat \ {0} /\ s.last + 1 \in 1 .. Len(text) + 1 /\ p.last + 1 <= s.last + 1
  BY <1>1, <1>2 DEF Within, SliceOf
<1>4. p.first \notin Inside(text)
  BY <1>2, <1>3, OutsideBehindBlanks
<1>5. p.last + 1 \notin Inside(text)
  <2>1. \A i \in p.last + 1 .. (s.last + 1) - 1 : text[i] = Space
    <3>1. (s.last + 1) - 1 = s.last
      BY <1>3 DEF SliceOf
    <3> QED
      BY <1>2, <3>1
  <2> DEFINE a == p.last + 1
             b == s.last + 1
  <2>2. a \in Nat \ {0} /\ b \in 1 .. Len(text) + 1 /\ a <= b /\ b \notin Inside(text)
        /\ \A i \in a .. b - 1 : text[i] = Space
    BY <1>3, <2>1
  <2> HIDE DEF a, b
  <2>3. a \notin Inside(text)
    BY <2>2, InsideAcrossBlanks
  <2> QED
    BY <2>3 DEF a
<1> QED
  BY <1>2, <1>4, <1>5 DEF p

\* A text that begins with a quote and leaves no string open closes that one.
LEMMA ClosedTextCloses ==
  ASSUME NEW text \in Seq(Char), IsClosed(text)
  PROVE  ~IsUnclosed(text)
<1> SUFFICES ASSUME IsUnclosed(text) PROVE FALSE
  OBVIOUS
<1>1. text # <<>> /\ text[1] = Quote /\ Closes(text, 1) = {}
  BY DEF IsUnclosed
<1>2. Len(text) \in Nat /\ Len(text) >= 1 /\ DOMAIN text = 1 .. Len(text)
  BY <1>1, EmptySeq, LenProperties
<1>3. 1 \in Quotes(text)
  BY <1>1, <1>2 DEF Quotes
<1>4. PICK s \in Strings(text) : Holds(s, 1)
  BY <1>3, StringsArePartition
<1>5. /\ s.first \in 1 .. Len(text) /\ s.last \in s.first + 1 .. Len(text) + 1
      /\ s.last <= Len(text) => s.last \in Closes(text, s.first)
  BY StringOfLine
<1>6. s.first = 1
  BY <1>4, <1>5 DEF Holds
<1>7. s.last = Len(text) + 1
  BY <1>1, <1>2, <1>5, <1>6
<1>8. Len(text) + 1 \in Int /\ s.first < Len(text) + 1 /\ Len(text) + 1 <= s.last
  BY <1>2, <1>5, <1>6, <1>7
<1>9. Len(text) + 1 \in Inside(text)
  BY <1>8, PositionsInside
<1> QED
  BY <1>9 DEF IsClosed

\* A slice of a list from cut to cut, when no cut is in a string.
LEMMA ItemScan ==
  ASSUME NEW text \in Seq(Char), NEW slice, SliceOf(text, slice),
         slice.first \notin Inside(text), slice.last + 1 \notin Inside(text),
         NEW cuts \in SUBSET (1 .. Len(text)),
         \A i \in cuts : i \notin Inside(text) /\ text[i] # Quote,
         NEW end \in Ends(slice, cuts)
  PROVE  LET s == Item(text, slice, cuts, end)
         IN  /\ SliceOf(text, s) /\ s.first \notin Inside(text) /\ s.last + 1 \notin Inside(text)
             /\ Within(s, slice)
<1>1. /\ Len(text) \in Nat /\ slice.first \in 1 .. Len(text) + 1 /\ slice.last \in 0 .. Len(text)
      /\ slice.first <= slice.last + 1
  BY LenProperties DEF SliceOf
<1>2. end \in slice.first .. slice.last + 1 /\ end \in Int /\ end \notin Inside(text)
  BY <1>1 DEF Ends
<1>3. PICK first : Starts(slice, cuts, end, first)
  <2>1. slice.first \in Int /\ end \in Int /\ slice.first <= end
    BY <1>1, <1>2
  <2> QED
    BY <2>1, StartExists
<1>4. Item(text, slice, cuts, end) = Trim(text, Slice(first, end - 1))
  BY <1>1, <1>2, <1>3, ItemStarts
<1>5. first \in slice.first .. end /\ (first = slice.first \/ first - 1 \in cuts)
  BY <1>3 DEF Starts
<1>6. first \notin Inside(text)
  <2>1. CASE first = slice.first
    BY <2>1
  <2>2. CASE first - 1 \in cuts
    <3>1. first - 1 \in 1 .. Len(text) /\ (first - 1) + 1 = first
      BY <1>2, <1>5, <2>2
    <3>2. first - 1 \notin Inside(text) /\ text[first - 1] # Quote
      BY <2>2
    <3> QED
      BY <3>1, <3>2, FromOutside
  <2> QED
    BY <1>5, <2>1, <2>2
<1> DEFINE s == Slice(first, end - 1)
<1>7. s.first = first /\ s.last = end - 1 /\ s = Slice(s.first, s.last)
  BY SliceIs
<1> HIDE DEF s
<1>8. SliceOf(text, s) /\ s.first \notin Inside(text) /\ s.last + 1 \notin Inside(text)
  <2>1. s.last + 1 = end
    BY <1>2, <1>7
  <2> QED
    BY <1>1, <1>2, <1>5, <1>6, <1>7, <2>1 DEF SliceOf
<1>9. Within(Item(text, slice, cuts, end), slice)
  BY <1>1, <1>2, ItemWithin
<1> QED
  BY <1>4, <1>8, <1>9, TrimScan DEF s

LEMMA NodeGives ==
  ASSUME NEW text
  PROVE  Node(text) \in {Opaque} \cup {Ip(ip) : ip \in IpAddr}
<1> DEFINE node == Trimmed(text)
<1>1. CASE \E ip \in IpAddr : Gives(node, ip)
  BY <1>1 DEF Node
<1>2. CASE ~\E ip \in IpAddr : Gives(node, ip)
  BY <1>2 DEF Node
<1> QED
  BY <1>1, <1>2

\* The name of a pair and the = behind it hold no quote.
LEMMA NameHoldsNoQuote ==
  ASSUME NEW text \in Seq(Char), NEW pair, SliceOf(text, pair), NameIsFor(text, pair)
  PROVE  LET equals == Find(text, pair, Equals)
         IN  /\ equals \in pair.first .. pair.last /\ text[equals] = Equals
             /\ \A i \in pair.first .. equals : text[i] # Quote
<1> DEFINE equals == Find(text, pair, Equals)
           front == Slice(pair.first, equals - 1)
           name == Trim(text, front)
<1>1. /\ Len(text) \in Nat /\ pair.first \in 1 .. Len(text) + 1 /\ pair.last \in 0 .. Len(text)
      /\ pair.first \in Nat /\ pair.last \in Int
  BY LenProperties DEF SliceOf
<1>2. equals # 0 /\ Text(text, name) = <<For>>
  BY DEF NameIsFor
<1>3. equals \in pair.first .. pair.last /\ text[equals] = Equals
  BY <1>1, <1>2, FindFirst
<1> HIDE DEF equals
<1>4. front.first = pair.first /\ front.last = equals - 1 /\ front = Slice(front.first, front.last)
  BY SliceIs
<1> HIDE DEF front
<1>5. SliceOf(text, front)
  BY <1>1, <1>3, <1>4 DEF SliceOf
<1>6. /\ Within(name, front) /\ SliceOf(text, name)
      /\ \A i \in front.first .. name.first - 1 : text[i] = Space
      /\ \A i \in name.last + 1 .. front.last : text[i] = Space
  BY <1>1, <1>5, TrimWithin, TrimBehind
<1> DEFINE m == name.first
           n == name.last
<1>7. m \in Nat \ {0} /\ n \in Nat /\ n <= Len(text) /\ m <= n + 1
  BY <1>1, <1>6 DEF SliceOf
<1>8. SubSeq(text, m, n) = <<For>>
  BY <1>2 DEF Text
<1> HIDE DEF name, m, n
<1>9. /\ Len(SubSeq(text, m, n)) = (n - m) + 1
      /\ \A i \in 1 .. (n - m) + 1 : SubSeq(text, m, n)[i] = text[(m + i) - 1]
  BY <1>7, PieceIs
<1>10. n = m
  BY <1>7, <1>8, <1>9
<1>11. text[m] = For
  <2>1. 1 \in 1 .. (n - m) + 1 /\ (m + 1) - 1 = m
    BY <1>7, <1>10
  <2>2. SubSeq(text, m, n)[1] = text[(m + 1) - 1]
    BY <1>9, <2>1
  <2> QED
    BY <1>8, <2>1, <2>2
<1>12. Quote \notin {Space, For, Equals}
  BY DEF Quote, Space, For, Equals, Mark
<1>13. ASSUME NEW i \in pair.first .. equals PROVE text[i] # Quote
  <2>1. \/ i \in front.first .. m - 1 \/ i = m \/ i \in n + 1 .. front.last \/ i = equals
    BY <1>1, <1>3, <1>4, <1>7, <1>10
  <2> QED
    BY <1>3, <1>6, <1>11, <1>12, <2>1 DEF m, n
<1> QED
  BY <1>3, <1>13 DEF equals

\* A piece that leaves no string open may be read in one way only.
LEMMA OneReading ==
  ASSUME NEW text \in Seq(Char), IsClosed(text)
  PROVE  /\ \E e \in {Opaque} \cup {Ip(ip) : ip \in IpAddr} : ElementHop(text, Whole(text)) = {e}
         /\ ElementHop(text, Whole(text)) # {Opaque} =>
              \E i \in 1 .. Len(text) : text[i] = Equals
<1> DEFINE w == Whole(text)
           cuts == Cuts(text, Semicolon) \ Inside(text)
           Pair(e) == Item(text, w, cuts, e)
           fors == {e \in Ends(w, cuts) : NameIsFor(text, Pair(e))}
           pair == Pair(Least(fors))
           equals == Find(text, pair, Equals)
           v == Text(text, Trim(text, Slice(equals + 1, pair.last)))
<1>1. ElementHop(text, w) = IF fors = {} THEN {Opaque} ELSE Value(v)
  BY DEF ElementHop
<1>2. CASE fors = {}
  BY <1>1, <1>2
<1>3. CASE fors # {}
  <2>1. /\ Len(text) \in Nat /\ DOMAIN text = 1 .. Len(text)
        /\ w.first = 1 /\ w.last = Len(text) /\ SliceOf(text, w)
    BY WholeIs, LenProperties
  <2>2. Semicolon # Quote
    BY DEF Semicolon, Quote, Mark
  <2>3. /\ cuts \in SUBSET (1 .. Len(text))
        /\ \A i \in cuts : i \notin Inside(text) /\ text[i] # Quote
    BY <2>1, <2>2 DEF Cuts
  <2>4. w.first \notin Inside(text) /\ w.last + 1 \notin Inside(text)
    BY <2>1, LineStartsOutside DEF IsClosed
  <2>5. fors \in SUBSET Nat
    BY <2>1, <2>3 DEF Ends
  <2>6. Least(fors) \in Ends(w, cuts) /\ NameIsFor(text, pair)
    <3> DEFINE end == Least(fors)
    <3>1. end \in fors
      <4> HIDE DEF fors
      <4> QED
        BY <1>3, <2>5, LeastIsChosen
    <3> HIDE DEF end
    <3>2. end \in Ends(w, cuts) /\ NameIsFor(text, Pair(end))
      BY <3>1
    <3> QED
      BY <3>2 DEF end
  <2> DEFINE end == Least(fors)
  <2>7. pair = Item(text, w, cuts, end) /\ end \in Ends(w, cuts)
    BY <2>6
  <2> HIDE DEF end, fors, pair, cuts, w
  <2>8. SliceOf(text, pair) /\ pair.first \notin Inside(text) /\ pair.last + 1 \notin Inside(text)
    BY <2>1, <2>3, <2>4, <2>7, ItemScan
  <2>9. /\ equals \in pair.first .. pair.last /\ text[equals] = Equals
        /\ \A i \in pair.first .. equals : text[i] # Quote
    BY <2>6, <2>8, NameHoldsNoQuote
  <2> HIDE DEF equals
  <2>10. pair.first \in 1 .. Len(text) + 1 /\ pair.last \in 0 .. Len(text)
    BY <2>8 DEF SliceOf
  <2>11. equals + 1 \notin Inside(text)
    <3> DEFINE p == pair.first
               q == equals + 1
    <3>1. p \in Nat /\ q \in Nat /\ p <= q /\ p \notin Inside(text)
          /\ \A i \in p .. q - 1 : text[i] # Quote
      BY <2>1, <2>8, <2>9, <2>10
    <3> HIDE DEF p, q
    <3>2. q \notin Inside(text)
      BY <3>1, OutsideGoesOn
    <3> QED
      BY <3>2 DEF q
  <2> DEFINE s == Slice(equals + 1, pair.last)
  <2>12. s.first = equals + 1 /\ s.last = pair.last /\ s = Slice(s.first, s.last)
    BY SliceIs
  <2> HIDE DEF s
  <2>13. SliceOf(text, s) /\ s.first \notin Inside(text) /\ s.last + 1 \notin Inside(text)
    BY <2>1, <2>8, <2>9, <2>10, <2>11, <2>12 DEF SliceOf
  <2> DEFINE value == Trim(text, s)
  <2>14. SliceOf(text, value) /\ value.first \notin Inside(text) /\ value.last + 1 \notin Inside(text)
    BY <2>13, TrimScan
  <2>15. v = Text(text, value)
    BY DEF s
  <2> HIDE DEF v, value
  <2>16. v \in Seq(Char) /\ IsClosed(v)
    BY <2>14, <2>15, PieceScan
  <2>17. ~IsUnclosed(v)
    BY <2>16, ClosedTextCloses
  <2>18. Value(v) \in {{Node(v)}, {Node(Contents(v))}, {Opaque}}
    BY <2>17 DEF Value, IsUnclosed
  <2>19. \E e \in {Opaque} \cup {Ip(ip) : ip \in IpAddr} : ElementHop(text, w) = {e}
    BY <1>1, <1>3, <2>18, NodeGives
  <2>20. equals \in 1 .. Len(text)
    BY <2>1, <2>9, <2>10
  <2> QED
    BY <2>9, <2>19, <2>20 DEF w
<1> QED
  BY <1>2, <1>3 DEF w

=============================================================================
