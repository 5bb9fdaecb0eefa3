--------------------------- MODULE ProxyPathProofs --------------------------
(***************************************************************************)
(* Theorems about ProxyPath, for ways of any length, any proxies and rules,*)
(* and strangers that write any headers.                                   *)
(***************************************************************************)
EXTENDS ProxyPath, ClientIpResolverProofs

(***************************************************************************)
(* The chain that proxies have written.  The hosts from position near on   *)
(* are known to be listed; what stands before them may be anything, unless *)
(* the chain is exact and begins with them.                                *)
(***************************************************************************)

\* The hop that stands for a host, some of which were kept back.
HopOf(hosts, kept, i) == IF i \in kept THEN Opaque ELSE Ip(hosts[i])

Tells(part, hosts, kept, i, kind) ==
  /\ part.text # "empty"
  /\ Entry(kind, part) = HopOf(hosts, kept, i)
  /\ part.text = "plain" => part.ip = hosts[i]

Width(value) == IF value.readable THEN Len(value.parts) ELSE 0

\* What has been read ends with the hosts from near up to the one before stop.
Ends(read, hosts, kept, near, stop) ==
  \A i \in near .. stop - 1 :
    /\ Len(read) >= stop - i
    /\ read[Len(read) - (stop - 1 - i)] = HopOf(hosts, kept, i)

(***************************************************************************)
(* What has been read and the lines that are left list the hosts together: *)
(* at[n] is the host that the first part of line n tells of.               *)
(***************************************************************************)
Lists(at, lines, read, hosts, kept, near, exact, kind) ==
  /\ at \in [1 .. Len(lines) + 1 -> Int]
  /\ at[Len(lines) + 1] = Len(hosts)
  /\ \A n \in 1 .. Len(lines) + 1 : at[n] <= Len(hosts)
  /\ \A n \in 1 .. Len(lines) :
       /\ at[n + 1] <= near => at[n] <= near
       /\ at[n + 1] > near \/ exact => at[n + 1] = at[n] + Width(lines[n])
       /\ at[n + 1] > near /\ lines[n].readable =>
            \A j \in DOMAIN lines[n].parts :
              at[n] + j - 1 >= near =>
                Tells(lines[n].parts[j], hosts, kept, at[n] + j - 1, kind)
  /\ Ends(read, hosts, kept, near, at[1])
  /\ exact => at[1] = near + Len(read)

Listing(lines, read, hosts, kept, near, exact, kind) ==
  \E at : Lists(at, lines, read, hosts, kept, near, exact, kind)

-----------------------------------------------------------------------------
(* How a listing grows, and how it is read.                                 *)

\* Lines of a header, and what a line that a proxy adds to a chain is.
LEMMA LinesOfHeader ==
  ASSUME NEW lines \in Seq(HeaderValue)
  PROVE  /\ Len(lines) \in Nat /\ DOMAIN lines = 1 .. Len(lines)
         /\ \A n \in 1 .. Len(lines) :
              /\ lines[n] \in HeaderValue /\ lines[n].readable \in BOOLEAN
              /\ Width(lines[n]) \in Nat
              /\ lines[n].readable =>
                   /\ lines[n] = [readable |-> TRUE, parts |-> lines[n].parts]
                   /\ lines[n].parts \in Seq(Part)
                   /\ Len(lines[n].parts) \in Nat
                   /\ DOMAIN lines[n].parts = 1 .. Len(lines[n].parts)
                   /\ Width(lines[n]) = Len(lines[n].parts)
<1>1. Len(lines) \in Nat /\ DOMAIN lines = 1 .. Len(lines)
  BY LenProperties
<1>2. ASSUME NEW n \in 1 .. Len(lines)
      PROVE  /\ lines[n] \in HeaderValue /\ lines[n].readable \in BOOLEAN
             /\ lines[n].readable =>
                  /\ lines[n] = [readable |-> TRUE, parts |-> lines[n].parts]
                  /\ lines[n].parts \in Seq(Part)
  <2>1. lines[n] \in HeaderValue
    BY ElementOfSeq
  <2> QED
    BY <2>1 DEF HeaderValue
<1>3. \A parts \in Seq(Part) : Len(parts) \in Nat /\ DOMAIN parts = 1 .. Len(parts)
  BY LenProperties
<1> QED
  BY <1>1, <1>2, <1>3 DEF Width

\* What a listing says of the first line.
LEMMA FirstLine ==
  ASSUME NEW at, NEW lines, NEW read, NEW hosts, NEW kept, NEW near, NEW exact, NEW kind,
         Lists(at, lines, read, hosts, kept, near, exact, kind), 1 \in 1 .. Len(lines)
  PROVE  /\ at[2] <= near => at[1] <= near
         /\ at[2] > near \/ exact => at[2] = at[1] + Width(lines[1])
         /\ at[2] > near /\ lines[1].readable =>
              \A j \in DOMAIN lines[1].parts :
                at[1] + j - 1 >= near => Tells(lines[1].parts[j], hosts, kept, at[1] + j - 1, kind)
<1>1. 1 + 1 = 2
  OBVIOUS
<1>2. \A n \in 1 .. Len(lines) :
       /\ at[n + 1] <= near => at[n] <= near
       /\ at[n + 1] > near \/ exact => at[n + 1] = at[n] + Width(lines[n])
       /\ at[n + 1] > near /\ lines[n].readable =>
            \A j \in DOMAIN lines[n].parts :
              at[n] + j - 1 >= near => Tells(lines[n].parts[j], hosts, kept, at[n] + j - 1, kind)
  BY DEF Lists
<1> QED
  BY <1>1, <1>2, Zenon

\* Right behind a stranger nothing is known of the chain.
LEMMA NothingListed ==
  ASSUME NEW lines \in Seq(HeaderValue), NEW hosts \in Seq(IpAddr), NEW kept, NEW kind,
         NEW exact \in BOOLEAN, exact => lines = <<>>
  PROVE  Listing(lines, <<>>, hosts, kept, Len(hosts), exact, kind)
<1> DEFINE at == [n \in 1 .. Len(lines) + 1 |-> Len(hosts)]
<1>1. Len(lines) \in Nat /\ Len(hosts) \in Nat
  BY LenProperties
<1>2. at \in [1 .. Len(lines) + 1 -> Int]
  BY <1>1
<1>3. \A n \in 1 .. Len(lines) + 1 : at[n] = Len(hosts)
  OBVIOUS
<1> HIDE DEF at
<1>4. \A n \in 1 .. Len(lines) : n + 1 \in 1 .. Len(lines) + 1 /\ n \in 1 .. Len(lines) + 1
  BY <1>1
<1>5. 1 \in 1 .. Len(lines) + 1 /\ Len(lines) + 1 \in 1 .. Len(lines) + 1
  BY <1>1
<1>6. /\ Len(hosts) .. at[1] - 1 = {}
      /\ \A n \in 1 .. Len(lines) + 1 : at[n] <= Len(hosts)
  BY <1>1, <1>3, <1>5
<1>7. Lists(at, lines, <<>>, hosts, kept, Len(hosts), exact, kind)
  BY <1>1, <1>2, <1>3, <1>4, <1>5, <1>6 DEF Lists, Ends
<1> QED
  BY <1>7 DEF Listing

(***************************************************************************)
(* A chain that has been read to its end ends with the hops of the hosts.  *)
(***************************************************************************)
LEMMA ReadToTheEnd ==
  ASSUME NEW read, NEW hosts \in Seq(IpAddr), NEW kept, NEW near, NEW exact, NEW kind,
         Listing(<<>>, read, hosts, kept, near, exact, kind)
  PROVE  Ends(read, hosts, kept, near, Len(hosts)) /\ (exact => Len(hosts) = near + Len(read))
<1>1. Len(<<>>) = 0
  OBVIOUS
<1>2. PICK at : at[1] = Len(hosts) /\ Ends(read, hosts, kept, near, at[1])
                  /\ (exact => at[1] = near + Len(read))
  BY <1>1 DEF Listing, Lists
<1> QED
  BY <1>2

\* What is known of a host does not change when another one follows.
LEMMA TellsOnLongerWay ==
  ASSUME NEW part, NEW hosts \in Seq(IpAddr), NEW h \in IpAddr, NEW kept, NEW kept2, NEW kind,
         \A i \in 1 .. Len(hosts) - 1 : i \in kept2 <=> i \in kept,
         NEW i \in 1 .. Len(hosts) - 1, Tells(part, hosts, kept, i, kind)
  PROVE  Tells(part, Append(hosts, h), kept2, i, kind)
<1>1. Append(hosts, h)[i] = hosts[i]
  BY AppendProperties
<1> QED
  BY <1>1 DEF Tells, HopOf

\* The place in the chain that part j of a line has.
LEMMA PlaceOfPart ==
  ASSUME NEW first \in Int, NEW width \in Nat, NEW next \in Int, next = first + width,
         NEW j \in 1 .. width, NEW near \in Nat \ {0}, first + j - 1 >= near,
         NEW count \in Nat, next <= count
  PROVE  first + j - 1 \in 1 .. count - 1
OBVIOUS

\* A proxy adds the host it was called by on a line of its own ...
LEMMA GrowsByLine ==
  ASSUME NEW lines \in Seq(HeaderValue), NEW hosts \in Seq(IpAddr), NEW h \in IpAddr,
         NEW kept, NEW kept2, NEW near \in 1 .. Len(hosts), NEW exact \in BOOLEAN, NEW kind,
         NEW part \in Part,
         \A i \in 1 .. Len(hosts) - 1 : i \in kept2 <=> i \in kept,
         Tells(part, Append(hosts, h), kept2, Len(hosts), kind),
         Listing(lines, <<>>, hosts, kept, near, exact, kind)
  PROVE  Listing(Append(lines, [readable |-> TRUE, parts |-> <<part>>]), <<>>,
                 Append(hosts, h), kept2, near, exact, kind)
<1> DEFINE line   == [readable |-> TRUE, parts |-> <<part>>]
           lines2 == Append(lines, line)
           hosts2 == Append(hosts, h)
<1>1. PICK at : Lists(at, lines, <<>>, hosts, kept, near, exact, kind)
  BY DEF Listing
<1> DEFINE at2 == [n \in 1 .. Len(lines) + 2 |-> IF n = Len(lines) + 2 THEN Len(hosts) + 1 ELSE at[n]]
<1>2. Len(lines) \in Nat /\ Len(hosts) \in Nat
  BY LenProperties
<1>3. /\ Len(lines2) = Len(lines) + 1 /\ lines2[Len(lines) + 1] = line
      /\ \A n \in 1 .. Len(lines) : lines2[n] = lines[n]
      /\ Len(hosts2) = Len(hosts) + 1
  <2>1. <<part>> \in Seq(Part)
    OBVIOUS
  <2>2. line \in HeaderValue
    BY <2>1 DEF HeaderValue
  <2> QED
    BY <2>2, AppendProperties
<1>4. /\ at2 \in [1 .. Len(lines) + 2 -> Int] /\ at2[Len(lines) + 2] = Len(hosts) + 1
      /\ \A n \in 1 .. Len(lines) + 1 : at2[n] = at[n]
  BY <1>1, <1>2 DEF Lists
<1>5. Width(line) = 1 /\ line.readable /\ line.parts = <<part>>
  BY DEF Width
<1> HIDE DEF at2, lines2, hosts2, line
<1>6. ASSUME NEW n \in 1 .. Len(lines2)
      PROVE  /\ at2[n + 1] <= near => at2[n] <= near
             /\ at2[n + 1] > near \/ exact => at2[n + 1] = at2[n] + Width(lines2[n])
             /\ at2[n + 1] > near /\ lines2[n].readable =>
                  \A j \in DOMAIN lines2[n].parts :
                    at2[n] + j - 1 >= near =>
                      Tells(lines2[n].parts[j], hosts2, kept2, at2[n] + j - 1, kind)
  <2>1. CASE n = Len(lines) + 1
    <3>1. at2[n] = Len(hosts) /\ at2[n + 1] = Len(hosts) + 1 /\ lines2[n] = line
      BY <1>1, <1>2, <1>3, <1>4, <2>1 DEF Lists
    <3>2. \A j \in DOMAIN line.parts : j = 1 /\ line.parts[j] = part
      BY <1>5
    <3> QED
      BY <1>2, <1>5, <3>1, <3>2 DEF hosts2
  <2>2. CASE n # Len(lines) + 1
    <3>1. /\ n \in 1 .. Len(lines) /\ n + 1 \in 1 .. Len(lines) + 1 /\ n \in 1 .. Len(lines) + 1
          /\ lines2[n] = lines[n] /\ at2[n] = at[n] /\ at2[n + 1] = at[n + 1]
      BY <1>2, <1>3, <1>4, <2>2
    <3>2. /\ at[n] \in Int /\ at[n + 1] \in Int /\ at[n + 1] <= Len(hosts)
          /\ at[n + 1] <= near => at[n] <= near
          /\ at[n + 1] > near \/ exact => at[n + 1] = at[n] + Width(lines[n])
      BY <1>1, <3>1 DEF Lists
    <3>3. ASSUME at[n + 1] > near, lines[n].readable, NEW j \in DOMAIN lines[n].parts,
                 at[n] + j - 1 >= near
          PROVE  Tells(lines[n].parts[j], hosts2, kept2, at[n] + j - 1, kind)
      <4>1. Tells(lines[n].parts[j], hosts, kept, at[n] + j - 1, kind)
        BY <1>1, <3>1, <3>3 DEF Lists
      <4>2. j \in 1 .. Width(lines[n]) /\ Width(lines[n]) \in Nat
        <5>1. /\ DOMAIN lines[n].parts = 1 .. Len(lines[n].parts)
              /\ Width(lines[n]) = Len(lines[n].parts) /\ Width(lines[n]) \in Nat
          BY <3>1, <3>3, LinesOfHeader
        <5> QED
          BY <3>3, <5>1
      <4>3. at[n + 1] = at[n] + Width(lines[n]) /\ near \in Nat \ {0}
        BY <1>2, <3>2, <3>3
      <4>4. at[n] + j - 1 \in 1 .. Len(hosts) - 1
        BY <1>2, <3>2, <3>3, <4>2, <4>3, PlaceOfPart
      <4> QED
        BY <4>1, <4>4, TellsOnLongerWay DEF hosts2
    <3> QED
      BY <3>1, <3>2, <3>3
  <2> QED
    BY <2>1, <2>2
<1>7. \A n \in 1 .. Len(lines2) + 1 : at2[n] <= Len(hosts2)
  <2>1. \A n \in 1 .. Len(lines2) + 1 : n = Len(lines) + 2 \/ n \in 1 .. Len(lines) + 1
    BY <1>2, <1>3
  <2>2. \A n \in 1 .. Len(lines) + 1 : at[n] <= Len(hosts) /\ at[n] \in Int
    BY <1>1 DEF Lists
  <2> QED
    BY <1>2, <1>3, <1>4, <2>1, <2>2
<1>8. at2[1] = at[1] /\ at[1] \in Int
  <2>1. 1 \in 1 .. Len(lines) + 1
    BY <1>2
  <2> QED
    BY <1>1, <1>4, <2>1 DEF Lists
<1>9. /\ \A i \in near .. at2[1] - 1 : Len(<<>>) >= at2[1] - i
      /\ exact => at2[1] = near + Len(<<>>)
  BY <1>1, <1>8 DEF Lists, Ends
<1>10. near .. at2[1] - 1 = {}
  BY <1>8, <1>9
<1>11. Len(lines2) + 1 = Len(lines) + 2
  BY <1>2, <1>3
<1>12. Lists(at2, lines2, <<>>, hosts2, kept2, near, exact, kind)
  BY <1>2, <1>3, <1>4, <1>6, <1>7, <1>9, <1>10, <1>11 DEF Lists, Ends
<1> QED
  BY <1>12 DEF Listing, lines2, hosts2, line

\* Other parts in a readable value.
LEMMA WithParts ==
  ASSUME NEW value \in HeaderValue, value.readable, NEW list \in Seq(Part)
  PROVE  /\ [value EXCEPT !.parts = list] \in HeaderValue
         /\ [value EXCEPT !.parts = list].readable
         /\ [value EXCEPT !.parts = list].parts = list
<1>1. value \in [readable : {TRUE}, parts : Seq(Part)]
  BY DEF HeaderValue
<1> QED
  BY <1>1 DEF HeaderValue

\* ... or at the end of the last line.
WithPart(lines, part) == [lines EXCEPT ![Len(lines)].parts = Append(@, part)]

LEMMA GrowsByPart ==
  ASSUME NEW lines \in Seq(HeaderValue), lines # <<>>, lines[Len(lines)].readable,
         NEW hosts \in Seq(IpAddr), NEW h \in IpAddr,
         NEW kept, NEW kept2, NEW near \in 1 .. Len(hosts), NEW exact \in BOOLEAN, NEW kind,
         NEW part \in Part,
         \A i \in 1 .. Len(hosts) - 1 : i \in kept2 <=> i \in kept,
         Tells(part, Append(hosts, h), kept2, Len(hosts), kind),
         Listing(lines, <<>>, hosts, kept, near, exact, kind)
  PROVE  Listing(WithPart(lines, part), <<>>, Append(hosts, h), kept2, near, exact, kind)
<1> DEFINE end    == Len(lines)
           lines2 == [lines EXCEPT ![end].parts = Append(@, part)]
           hosts2 == Append(hosts, h)
           width  == Width(lines[end])
<1>1. PICK at : Lists(at, lines, <<>>, hosts, kept, near, exact, kind)
  BY DEF Listing
<1> DEFINE at2 == [n \in 1 .. end + 1 |-> CASE n = end + 1 -> Len(hosts) + 1
                                             [] n = end     -> Len(hosts) - width
                                             [] OTHER       -> at[n]]
<1>2. /\ end = Len(lines) /\ end \in Nat \ {0} /\ end \in 1 .. end /\ DOMAIN lines = 1 .. end
      /\ Len(hosts) \in Nat /\ Len(hosts2) = Len(hosts) + 1
  BY LenProperties, EmptySeq, AppendProperties
<1>3. /\ lines[end] = [readable |-> TRUE, parts |-> lines[end].parts]
      /\ lines[end].parts \in Seq(Part) /\ width = Len(lines[end].parts) /\ width \in Nat
      /\ width = Width(lines[end])
      /\ DOMAIN lines[end].parts = 1 .. width
  BY <1>2, LinesOfHeader
<1> HIDE DEF end, width
<1>4. /\ Append(lines[end].parts, part) \in Seq(Part)
      /\ Len(Append(lines[end].parts, part)) = width + 1
      /\ DOMAIN Append(lines[end].parts, part) = 1 .. width + 1
      /\ \A j \in 1 .. width : Append(lines[end].parts, part)[j] = lines[end].parts[j]
      /\ Append(lines[end].parts, part)[width + 1] = part
  BY <1>3, AppendProperties, LenProperties
<1>5. /\ lines2[end] = [readable |-> TRUE, parts |-> Append(lines[end].parts, part)]
      /\ \A n \in 1 .. end : n # end => lines2[n] = lines[n]
  BY <1>2, <1>3
<1>6. lines2 \in Seq(HeaderValue) /\ Len(lines2) = end
  <2>1. lines[end] \in HeaderValue /\ lines[end].readable
    BY <1>2, LinesOfHeader
  <2>2. [lines[end] EXCEPT !.parts = Append(@, part)] \in HeaderValue
    BY <1>4, <2>1, WithParts
  <2>3. /\ [lines EXCEPT ![end] = [lines[end] EXCEPT !.parts = Append(@, part)]] \in Seq(HeaderValue)
        /\ Len([lines EXCEPT ![end] = [lines[end] EXCEPT !.parts = Append(@, part)]]) = Len(lines)
    BY <1>2, <2>2, ExceptSeq
  <2> QED
    BY <1>2, <2>3
<1>7. /\ at \in [1 .. end + 1 -> Int] /\ at[end + 1] = Len(hosts)
      /\ \A n \in 1 .. end + 1 : at[n] <= Len(hosts) /\ at[n] \in Int
      /\ \A n \in 1 .. end : at[n + 1] <= near => at[n] <= near
  BY <1>1, <1>2 DEF Lists
<1>8. /\ at2 \in [1 .. end + 1 -> Int] /\ at2[end + 1] = Len(hosts) + 1
      /\ at2[end] = Len(hosts) - width
      /\ \A n \in 1 .. end - 1 : at2[n] = at[n]
  BY <1>2, <1>3, <1>7
<1>9. Width(lines2[end]) = width + 1 /\ lines2[end].readable
      /\ lines2[end].parts = Append(lines[end].parts, part)
  BY <1>4, <1>5, <1>2 DEF Width
<1>10. /\ Len(hosts) > near \/ exact => at2[end] = at[end]
       /\ Len(hosts) <= near => at2[end] <= near
  <2>1. at[end + 1] > near \/ exact => at[end + 1] = at[end] + width
    BY <1>1, <1>2, <1>3 DEF Lists
  <2> QED
    BY <1>2, <1>3, <1>7, <1>8, <2>1
<1> HIDE DEF at2, lines2, hosts2
<1>11. ASSUME NEW n \in 1 .. end, at[n + 1] > near, lines[n].readable,
              NEW j \in DOMAIN lines[n].parts, at[n] + j - 1 >= near
       PROVE  Tells(lines[n].parts[j], hosts2, kept2, at[n] + j - 1, kind)
  <2>1. Tells(lines[n].parts[j], hosts, kept, at[n] + j - 1, kind)
    BY <1>1, <1>2, <1>11 DEF Lists
  <2>2. /\ j \in 1 .. Width(lines[n]) /\ Width(lines[n]) \in Nat
        /\ at[n + 1] = at[n] + Width(lines[n]) /\ n + 1 \in 1 .. end + 1 /\ n \in 1 .. end + 1
    <3>1. /\ DOMAIN lines[n].parts = 1 .. Len(lines[n].parts)
          /\ Width(lines[n]) = Len(lines[n].parts) /\ Width(lines[n]) \in Nat
      BY <1>2, <1>11, LinesOfHeader
    <3> QED
      BY <1>1, <1>2, <1>11, <3>1 DEF Lists
  <2>3. at[n] \in Int /\ at[n + 1] <= Len(hosts) /\ j \in Int
    BY <1>7, <2>2
  <2>4. at[n] + j - 1 \in 1 .. Len(hosts) - 1
    BY <1>2, <1>11, <2>2, <2>3
  <2> QED
    BY <2>1, <2>4, TellsOnLongerWay DEF hosts2
<1>12. ASSUME NEW n \in 1 .. end
       PROVE  /\ at2[n + 1] <= near => at2[n] <= near
              /\ at2[n + 1] > near \/ exact => at2[n + 1] = at2[n] + Width(lines2[n])
              /\ at2[n + 1] > near /\ lines2[n].readable =>
                   \A j \in DOMAIN lines2[n].parts :
                     at2[n] + j - 1 >= near =>
                       Tells(lines2[n].parts[j], hosts2, kept2, at2[n] + j - 1, kind)
  <2>1. CASE n = end
    <3>1. /\ at2[n + 1] = Len(hosts) + 1 /\ at2[n] = Len(hosts) - width
          /\ Width(lines2[n]) = width + 1
      BY <1>8, <1>9, <2>1
    <3>2. ASSUME NEW j \in DOMAIN lines2[n].parts, at2[n] + j - 1 >= near
          PROVE  Tells(lines2[n].parts[j], hosts2, kept2, at2[n] + j - 1, kind)
      <4>1. j \in 1 .. width + 1
        BY <1>4, <1>9, <2>1, <3>2
      <4>2. CASE j = width + 1
        <5>1. at2[n] + j - 1 = Len(hosts) /\ lines2[n].parts[j] = part
          BY <1>2, <1>3, <1>4, <1>8, <1>9, <2>1, <4>2
        <5> QED
          BY <5>1 DEF hosts2
      <4>3. CASE j # width + 1
        <5>1. j \in 1 .. width /\ lines2[n].parts[j] = lines[end].parts[j]
          BY <1>3, <1>4, <1>9, <2>1, <4>1, <4>3
        <5>2. Len(hosts) > near
          BY <1>2, <1>3, <1>8, <2>1, <3>2, <5>1
        <5>3. at2[n] = at[end] /\ at[end + 1] > near
          BY <1>7, <1>10, <2>1, <5>2
        <5> QED
          BY <1>3, <1>11, <2>1, <3>2, <5>1, <5>3
      <4> QED
        BY <4>2, <4>3
    <3>3. at2[n + 1] > near /\ at2[n + 1] = at2[n] + Width(lines2[n])
      <4>1. Len(hosts) + 1 > near /\ Len(hosts) + 1 = Len(hosts) - width + (width + 1)
        BY <1>2, <1>3
      <4> QED
        BY <3>1, <4>1
    <3>4. at2[n + 1] \in Int
      BY <1>2, <3>1
    <3> QED
      BY <3>2, <3>3, <3>4
  <2>2. CASE n # end
    <3>1. n \in 1 .. end - 1 /\ lines2[n] = lines[n] /\ at2[n] = at[n] /\ n + 1 \in 1 .. end
      BY <1>2, <1>5, <1>8, <2>2 DEF lines2
    <3>2. CASE n + 1 # end \/ Len(hosts) > near \/ exact
      <4>1. at2[n + 1] = at[n + 1]
        BY <1>2, <1>8, <1>10, <3>1, <3>2
      <4>2. at[n + 1] > near \/ exact => at[n + 1] = at[n] + Width(lines[n])
        BY <1>1, <1>2 DEF Lists
      <4> QED
        BY <1>7, <1>11, <3>1, <4>1, <4>2
    <3>3. CASE n + 1 = end /\ Len(hosts) <= near /\ ~exact
      BY <1>2, <1>3, <1>7, <1>8, <1>10, <3>1, <3>3
    <3> QED
      BY <1>2, <3>2, <3>3
  <2> QED
    BY <2>1, <2>2
<1>13. \A n \in 1 .. end + 1 : at2[n] <= Len(hosts2)
  <2>1. \A n \in 1 .. end + 1 : n = end + 1 \/ n = end \/ n \in 1 .. end - 1
    BY <1>2
  <2> QED
    BY <1>2, <1>3, <1>7, <1>8, <2>1
<1>14. near .. at2[1] - 1 = {} /\ (exact => at2[1] = near + Len(<<>>))
  <2>1. 1 \in 1 .. end + 1 /\ at[1] \in Int
    BY <1>2, <1>7
  <2>2. at[1] <= near /\ (exact => at[1] = near)
    <3>1. /\ \A i \in near .. at[1] - 1 : 0 >= at[1] - i
          /\ exact => at[1] = near + 0
      BY <1>1 DEF Lists, Ends
    <3> QED
      BY <2>1, <3>1
  <2>3. CASE end = 1
    BY <1>2, <1>8, <1>10, <2>1, <2>2, <2>3
  <2>4. CASE end # 1
    <3>1. 1 \in 1 .. end - 1
      BY <1>2, <2>4
    <3>2. at2[1] = at[1]
      BY <1>8, <3>1
    <3> QED
      BY <2>1, <2>2, <3>2
  <2> QED
    BY <2>3, <2>4
<1>15. Lists(at2, lines2, <<>>, hosts2, kept2, near, exact, kind)
  BY <1>2, <1>6, <1>8, <1>12, <1>13, <1>14 DEF Lists, Ends
<1> QED
  BY <1>6, <1>15 DEF Listing, lines2, hosts2, end, WithPart

\* The next host is read.
LEMMA EndsLater ==
  ASSUME NEW read \in Seq(ChainEntry), NEW hosts, NEW kept, NEW near \in Nat, NEW stop \in Int,
         stop >= near, HopOf(hosts, kept, stop) \in ChainEntry, Ends(read, hosts, kept, near, stop)
  PROVE  Ends(Append(read, HopOf(hosts, kept, stop)), hosts, kept, near, stop + 1)
<1> DEFINE read2 == Append(read, HopOf(hosts, kept, stop))
<1>1. /\ Len(read2) = Len(read) + 1 /\ read2[Len(read) + 1] = HopOf(hosts, kept, stop)
      /\ \A k \in 1 .. Len(read) : read2[k] = read[k]
      /\ Len(read) \in Nat
  BY AppendProperties, LenProperties
<1> HIDE DEF read2
<1>2. ASSUME NEW i \in near .. stop
      PROVE  /\ Len(read2) >= stop + 1 - i
             /\ read2[Len(read2) - (stop + 1 - 1 - i)] = HopOf(hosts, kept, i)
  <2>1. CASE i = stop
    <3>1. Len(read2) - (stop + 1 - 1 - i) = Len(read) + 1
      BY <1>1, <2>1
    <3> QED
      BY <1>1, <2>1, <3>1
  <2>2. CASE i # stop
    <3>1. i \in near .. stop - 1
      BY <2>2
    <3>2. /\ Len(read) >= stop - i
          /\ read[Len(read) - (stop - 1 - i)] = HopOf(hosts, kept, i)
      BY <3>1 DEF Ends
    <3>3. /\ Len(read) - (stop - 1 - i) \in 1 .. Len(read)
          /\ Len(read2) - (stop + 1 - 1 - i) = Len(read) - (stop - 1 - i)
      BY <1>1, <3>1, <3>2
    <3> QED
      BY <1>1, <3>2, <3>3
  <2> QED
    BY <2>1, <2>2
<1>3. near .. stop + 1 - 1 = near .. stop
  OBVIOUS
<1> QED
  BY <1>2, <1>3 DEF Ends, read2

(***************************************************************************)
(* The reader takes the first part of the first line and adds its hop to   *)
(* those it has read.                                                      *)
(***************************************************************************)
LEMMA ReadsPart ==
  ASSUME NEW lines \in Seq(HeaderValue), lines # <<>>, Head(lines).readable,
         Head(lines).parts # <<>>, NEW read \in Seq(ChainEntry),
         NEW hosts \in Seq(IpAddr), NEW kept, NEW near \in Nat, NEW exact \in BOOLEAN, NEW kind,
         Listing(lines, read, hosts, kept, near, exact, kind)
  PROVE  LET part == Head(Head(lines).parts)
         IN  Listing([lines EXCEPT ![1].parts = Tail(@)],
                     IF part.text = "empty" THEN read ELSE Append(read, Entry(kind, part)),
                     hosts, kept, near, exact, kind)
<1> DEFINE first  == lines[1]
           rest   == Tail(first.parts)
           lines2 == [lines EXCEPT ![1].parts = Tail(@)]
           part   == Head(first.parts)
           read2  == IF part.text = "empty" THEN read ELSE Append(read, Entry(kind, part))
           end    == Len(lines)
           width  == Width(first)
<1>1. PICK at : Lists(at, lines, read, hosts, kept, near, exact, kind)
  BY DEF Listing
<1> DEFINE at2 == [n \in 1 .. end + 1 |->
                     IF n = 1 /\ (at[2] > near \/ exact) THEN at[1] + 1 ELSE at[n]]
<1>2. /\ end = Len(lines) /\ end \in Nat \ {0} /\ 1 \in 1 .. end /\ DOMAIN lines = 1 .. end
      /\ 1 \in 1 .. end + 1 /\ 2 \in 1 .. end + 1 /\ Head(lines) = first
      /\ Len(hosts) \in Nat /\ Len(read) \in Nat
  BY LenProperties, EmptySeq, HeadTailProperties
<1>3. /\ first \in HeaderValue /\ first.readable
      /\ first.parts \in Seq(Part) /\ first.parts # <<>>
      /\ width = Width(first) /\ width = Len(first.parts) /\ width \in Nat \ {0}
      /\ DOMAIN first.parts = 1 .. width
  <2>1. first.parts \in Seq(Part) /\ first.parts # <<>>
    BY <1>2, LinesOfHeader
  <2>2. Len(first.parts) # 0
    BY <2>1, EmptySeq
  <2> QED
    BY <1>2, <2>1, <2>2, LinesOfHeader
<1>4. /\ rest \in Seq(Part) /\ Len(rest) = width - 1 /\ DOMAIN rest = 1 .. width - 1
      /\ part = first.parts[1] /\ part \in Part
      /\ \A j \in 1 .. width - 1 : rest[j] = first.parts[j + 1]
  BY <1>3, HeadTailProperties, LenProperties
<1>5. /\ lines2 \in Seq(HeaderValue) /\ Len(lines2) = end
      /\ lines2[1].readable /\ lines2[1].parts = rest /\ Width(lines2[1]) = width - 1
      /\ \A n \in 2 .. end : lines2[n] = lines[n]
  <2> DEFINE value == [first EXCEPT !.parts = Tail(@)]
  <2>1. value \in HeaderValue /\ value.readable /\ value.parts = rest
    BY <1>3, <1>4, WithParts
  <2>2. lines2 = [lines EXCEPT ![1] = value]
    OBVIOUS
  <2>3. lines2 \in Seq(HeaderValue) /\ Len(lines2) = end
    BY <1>2, <2>1, <2>2, ExceptSeq
  <2>4. lines2[1] = value /\ \A n \in 2 .. end : lines2[n] = lines[n]
    BY <1>2, <2>2
  <2> QED
    BY <1>4, <2>1, <2>3, <2>4 DEF Width
<1> HIDE DEF end, width, rest, first, part, lines2
<1>6. /\ at \in [1 .. end + 1 -> Int] /\ at[end + 1] = Len(hosts)
      /\ \A n \in 1 .. end + 1 : at[n] \in Int /\ at[n] <= Len(hosts)
      /\ exact => at[1] = near + Len(read)
      /\ at[2] <= near => at[1] <= near
      /\ at[2] > near \/ exact => at[2] = at[1] + width
  <2>1. /\ at[2] <= near => at[1] <= near
        /\ at[2] > near \/ exact => at[2] = at[1] + Width(lines[1])
    BY <1>1, <1>2, FirstLine
  <2> QED
    BY <1>1, <1>2, <1>3, <2>1 DEF Lists, first
<1>7. /\ at2 \in [1 .. end + 1 -> Int]
      /\ at2[1] = IF at[2] > near \/ exact THEN at[1] + 1 ELSE at[1]
      /\ \A n \in 2 .. end + 1 : at2[n] = at[n]
  BY <1>2, <1>6
<1>8. at[1] \in Int /\ at[2] \in Int /\ at[2] <= Len(hosts) /\ 2 \in 2 .. end + 1
  BY <1>2, <1>6
<1>9. exact => at[2] > near
  BY <1>2, <1>3, <1>6, <1>8
<1> HIDE DEF at2
<1>10. \A n \in 1 .. end + 1 : at2[n] <= Len(hosts)
  <2>1. at2[1] <= Len(hosts)
    BY <1>2, <1>3, <1>6, <1>7, <1>8
  <2>2. \A n \in 1 .. end + 1 : n = 1 \/ n \in 2 .. end + 1
    BY <1>2
  <2> QED
    BY <1>6, <1>7, <2>1, <2>2
<1>11. at2[end + 1] = Len(hosts)
  BY <1>2, <1>6, <1>7
<1>12. ASSUME at[2] > near, NEW j \in 1 .. width, at[1] + j - 1 >= near
       PROVE  Tells(first.parts[j], hosts, kept, at[1] + j - 1, kind)
  BY <1>1, <1>2, <1>3, <1>12, FirstLine DEF first
<1>13. ASSUME NEW n \in 1 .. end
       PROVE  /\ at2[n + 1] <= near => at2[n] <= near
              /\ at2[n + 1] > near \/ exact => at2[n + 1] = at2[n] + Width(lines2[n])
              /\ at2[n + 1] > near /\ lines2[n].readable =>
                   \A j \in DOMAIN lines2[n].parts :
                     at2[n] + j - 1 >= near =>
                       Tells(lines2[n].parts[j], hosts, kept, at2[n] + j - 1, kind)
  <2>1. CASE n = 1
    <3>1. at2[n + 1] = at[2]
      BY <1>7, <1>8, <2>1
    <3>2. at[2] <= near => at2[1] = at[1] /\ ~exact
      BY <1>7, <1>8, <1>9
    <3>3. at[2] > near \/ exact => at2[1] = at[1] + 1
      BY <1>7
    <3>4. at[2] > near \/ exact => at[2] = at[1] + width
      BY <1>6
    <3>5. at[2] <= near => at2[1] <= near
      BY <1>6, <3>2
    <3>6. at[2] > near \/ exact => at[2] = at2[1] + (width - 1)
      BY <1>3, <1>8, <3>3, <3>4
    <3>7. ASSUME at[2] > near, NEW j \in 1 .. width - 1, at2[1] + j - 1 >= near
          PROVE  Tells(rest[j], hosts, kept, at2[1] + j - 1, kind)
      <4>1. j + 1 \in 1 .. width /\ at2[1] + j - 1 = at[1] + (j + 1) - 1
        BY <1>3, <1>8, <3>3, <3>7
      <4>2. Tells(first.parts[j + 1], hosts, kept, at[1] + (j + 1) - 1, kind)
        BY <1>12, <3>7, <4>1
      <4> QED
        BY <1>4, <4>1, <4>2
    <3> QED
      BY <1>4, <1>5, <2>1, <3>1, <3>5, <3>6, <3>7
  <2>2. CASE n # 1
    <3>1. at2[n] = at[n] /\ at2[n + 1] = at[n + 1] /\ lines2[n] = lines[n]
      BY <1>2, <1>5, <1>7, <2>2
    <3> QED
      BY <1>1, <1>2, <3>1 DEF Lists
  <2> QED
    BY <2>1, <2>2
<1>14. Ends(read2, hosts, kept, near, at2[1]) /\ (exact => at2[1] = near + Len(read2))
  <2>1. Ends(read, hosts, kept, near, at[1])
    BY <1>1 DEF Lists
  <2>2. CASE at[1] >= near /\ at[2] > near
    <3>1. Tells(part, hosts, kept, at[1], kind) /\ at2[1] = at[1] + 1
      <4>1. 1 \in 1 .. width /\ at[1] + 1 - 1 = at[1]
        BY <1>3, <1>8
      <4> QED
        BY <1>4, <1>7, <1>12, <2>2, <4>1
    <3>2. read2 = Append(read, HopOf(hosts, kept, at[1]))
      BY <3>1 DEF Tells
    <3>3. HopOf(hosts, kept, at[1]) \in ChainEntry
      BY <1>4, <3>1, EntryIsHop DEF Tells
    <3>4. Len(read2) = Len(read) + 1
      BY <3>2, <3>3, AppendProperties
    <3> HIDE DEF read2
    <3>5. Ends(read2, hosts, kept, near, at2[1])
      BY <1>8, <2>1, <2>2, <3>1, <3>2, <3>3, EndsLater
    <3>6. exact => at2[1] = near + Len(read2)
      BY <1>2, <1>6, <1>8, <3>1, <3>4
    <3> QED
      BY <3>5, <3>6
  <2>3. CASE ~(at[1] >= near /\ at[2] > near)
    <3>1. ~exact
      BY <1>2, <1>6, <1>8, <1>9, <2>3
    <3>2. at2[1] <= near
      BY <1>6, <1>7, <1>8, <2>3, <3>1
    <3>3. at2[1] \in Int
      BY <1>7, <1>8
    <3>4. near .. at2[1] - 1 = {}
      BY <3>2, <3>3
    <3> QED
      BY <3>1, <3>4 DEF Ends
  <2> QED
    BY <2>2, <2>3
<1>15. Lists(at2, lines2, read2, hosts, kept, near, exact, kind)
  BY <1>5, <1>7, <1>10, <1>11, <1>13, <1>14 DEF Lists
<1> QED
  BY <1>2, <1>15 DEF Listing, lines2, part, first

\* A line without parts that are left adds nothing.
LEMMA ReadsLine ==
  ASSUME NEW lines \in Seq(HeaderValue), lines # <<>>, Head(lines).readable,
         Head(lines).parts = <<>>, NEW read, NEW hosts \in Seq(IpAddr),
         NEW kept, NEW near \in Nat, NEW exact \in BOOLEAN, NEW kind,
         Listing(lines, read, hosts, kept, near, exact, kind)
  PROVE  Listing(Tail(lines), read, hosts, kept, near, exact, kind)
<1> DEFINE end   == Len(lines)
           lines2 == Tail(lines)
<1>1. PICK at : Lists(at, lines, read, hosts, kept, near, exact, kind)
  BY DEF Listing
<1> DEFINE at2 == [n \in 1 .. end |-> at[n + 1]]
<1>2. /\ end = Len(lines) /\ end \in Nat \ {0} /\ Head(lines) = lines[1]
      /\ lines2 \in Seq(HeaderValue) /\ Len(lines2) = end - 1
      /\ \A n \in 1 .. end - 1 : lines2[n] = lines[n + 1]
      /\ 1 \in 1 .. end /\ 1 \in 1 .. end + 1 /\ 2 \in 1 .. end + 1
  BY LenProperties, EmptySeq, HeadTailProperties
<1>3. Width(lines[1]) = 0
  BY <1>2 DEF Width
<1> HIDE DEF end, lines2
<1>4. /\ at \in [1 .. end + 1 -> Int] /\ at[end + 1] = Len(hosts)
      /\ \A n \in 1 .. end + 1 : at[n] \in Int /\ at[n] <= Len(hosts)
      /\ at[2] <= near => at[1] <= near
      /\ at[2] > near \/ exact => at[2] = at[1] + 0
      /\ exact => at[1] = near + Len(read)
  <2>1. /\ at[2] <= near => at[1] <= near
        /\ at[2] > near \/ exact => at[2] = at[1] + 0
    BY <1>1, <1>2, <1>3, FirstLine
  <2> QED
    BY <1>1, <1>2, <2>1 DEF Lists
<1>5. at2 \in [1 .. end -> Int] /\ \A n \in 1 .. end : at2[n] = at[n + 1] /\ n + 1 \in 1 .. end + 1
  BY <1>2, <1>4
<1> HIDE DEF at2
<1>6. ASSUME NEW n \in 1 .. end - 1
      PROVE  /\ at2[n + 1] <= near => at2[n] <= near
             /\ at2[n + 1] > near \/ exact => at2[n + 1] = at2[n] + Width(lines2[n])
             /\ at2[n + 1] > near /\ lines2[n].readable =>
                  \A j \in DOMAIN lines2[n].parts :
                    at2[n] + j - 1 >= near =>
                      Tells(lines2[n].parts[j], hosts, kept, at2[n] + j - 1, kind)
  <2>1. /\ n + 1 \in 1 .. end /\ n \in 1 .. end /\ lines2[n] = lines[n + 1]
        /\ at2[n] = at[n + 1] /\ at2[n + 1] = at[n + 1 + 1]
    <3>1. n + 1 \in 1 .. end /\ n \in 1 .. end /\ n \in 1 .. end - 1
      BY <1>2
    <3> QED
      BY <1>2, <1>5, <3>1, Zenon
  <2> QED
    BY <1>1, <1>2, <2>1 DEF Lists
<1>7. Ends(read, hosts, kept, near, at2[1]) /\ (exact => at2[1] = near + Len(read))
  <2>1. at2[1] = at[2] /\ at[1] \in Int /\ at[2] \in Int
    BY <1>2, <1>4, <1>5
  <2>2. CASE at[2] > near \/ exact
    <3>1. at2[1] = at[1]
      BY <1>4, <2>1, <2>2
    <3> QED
      BY <1>1, <3>1 DEF Lists
  <2>3. CASE ~(at[2] > near \/ exact)
    <3>1. near .. at2[1] - 1 = {}
      BY <2>1, <2>3
    <3> QED
      BY <2>3, <3>1 DEF Ends
  <2> QED
    BY <2>2, <2>3
<1>8. at2[end - 1 + 1] = Len(hosts) /\ \A n \in 1 .. end - 1 + 1 : at2[n] <= Len(hosts)
  BY <1>2, <1>4, <1>5
<1>9. at2 \in [1 .. end - 1 + 1 -> Int]
  BY <1>2, <1>5
<1>10. Lists(at2, lines2, read, hosts, kept, near, exact, kind)
  BY <1>2, <1>6, <1>7, <1>8, <1>9 DEF Lists
<1> QED
  BY <1>10 DEF Listing, lines2

-----------------------------------------------------------------------------
(***************************************************************************)
(* The inductive invariant.  Behind the stranger nearest to the service    *)
(* there may be proxies; they know what is on the way.                     *)
(***************************************************************************)
Proxied == Strangers # {} /\ Nearest < Len(via)

PathTypeOK ==
  /\ via \in Seq(IpAddr)
  /\ written \in [HeaderName -> Seq(HeaderValue)]
  /\ hidden \subseteq 1 .. Len(via) - 1
  /\ edge \in Nat

\* The request is what the last host has sent.
RequestState ==
  /\ pc # "idle" => via # <<>> /\ request.connect_info = Sender /\ request.headers = written
  /\ MayRead /\ config.trust = "TrustAllProxies" => header = config.client_ip_header

EdgeState == edge # 0 => Proxied /\ edge = Nearest

\* What is left of the first chain header while it is read.
Rest ==
  CASE pc = "read"             -> unread
    [] pc \in {"scan", "pick"} -> <<>>
    [] OTHER                   -> written[Chain.name]

ChainOfProxies ==
  Proxied =>
    /\ written[Chain.name] # <<>>
    /\ pc # "done" => Listing(Rest, hops, via, hidden, Nearest, edge # 0, Chain.kind)

OwnValue(ip) == [readable |-> TRUE, parts |-> <<[text |-> "plain", ip |-> ip]>>]

OwnHeaderState ==
  Proxied /\ OwnHeader(Sender) \notin {NoHeader, Chain.name} =>
    LET values == written[OwnHeader(Sender)]
    IN  values # <<>> /\ values[Len(values)] = OwnValue(via[Len(via) - 1])

\* A chain that cannot be read is found out before the hops are looked at.
UnreadState ==
  /\ pc = "read" => (Unread(unread) <=> Unread(Values))
  /\ pc \in {"scan", "pick"} => ~Unread(Values)

PathInvariant ==
  /\ ResolverInvariant
  /\ PathTypeOK
  /\ RequestState
  /\ EdgeState
  /\ ChainOfProxies
  /\ OwnHeaderState
  /\ UnreadState
  /\ StrangersCannotChooseTheirAddress
  /\ FittingSelectionFindsTheClient

-----------------------------------------------------------------------------
(* Hosts, proxies and headers of a state.                                   *)

\* Proxies are told by the canonical form of their address.
LEMMA RuleOfCanonical ==
  ASSUME NEW rules, NEW ip \in IpAddr
  PROVE  RuleFor(rules, CanonicalIp(ip)) = RuleFor(rules, ip)
<1>1. CanonicalIp(CanonicalIp(ip)) = CanonicalIp(ip)
  <2>1. ~IsMapped(CanonicalIp(ip))
    BY CanonicalIpIsCanonical
  <2> QED
    BY <2>1 DEF CanonicalIp
<1> QED
  BY <1>1 DEF RuleFor

\* A service behind proxies has a chain header to read.
LEMMA FirstChainHeader ==
  ASSUME config \in Configs
  PROVE  /\ config \in ClientIpConfig /\ config.trust \in {"TrustedProxies", "TrustAllProxies"}
         /\ Order \in Seq(ChainHeader) /\ Len(Order) \in Nat \ {0}
         /\ Chain = Order[1] /\ Chain.name \in HeaderName
         /\ Chain.kind \in {"Forwarded", "XForwardedFor"}
<1>1. /\ config \in ClientIpConfig /\ config.trust # "NoProxy" /\ Order # <<>>
  BY ResolverAssumption, PathAssumption DEF Order
<1>2. config.trust \in {"TrustedProxies", "TrustAllProxies"} /\ Order \in Seq(ChainHeader)
  BY <1>1, ConfigParts DEF Order
<1>3. Len(Order) \in Nat \ {0}
  BY <1>1, <1>2, LenProperties, EmptySeq
<1>4. 1 \in 1 .. Len(Order)
  BY <1>3
<1>5. Chain \in ChainHeader
  BY <1>2, <1>4, ElementOfSeq DEF Chain, Order
<1> QED
  BY <1>1, <1>2, <1>3, <1>5 DEF Chain, Order, ChainHeader, NewChainHeader, ForwardedStyle

\* The nearest stranger is a stranger, and only proxies follow it.
NearestIsKnown ==
  /\ Len(via) \in Nat /\ DOMAIN via = 1 .. Len(via) /\ Strangers \subseteq 1 .. Len(via)
  /\ Strangers # {} =>
       /\ Nearest \in 1 .. Len(via) /\ Nearest \in Strangers
       /\ via[Nearest] \in IpAddr /\ ~ReliedOn(via[Nearest])
       /\ \A i \in 1 .. Len(via) : i > Nearest => ReliedOn(via[i])

LEMMA NearestStranger == via \in Seq(IpAddr) => NearestIsKnown
<1> SUFFICES ASSUME via \in Seq(IpAddr) PROVE NearestIsKnown
  OBVIOUS
<1>1. Len(via) \in Nat /\ DOMAIN via = 1 .. Len(via)
  BY LenProperties
<1>2. Strangers \subseteq 1 .. Len(via)
  BY <1>1 DEF Strangers
<1>3. ASSUME Strangers # {}
      PROVE  Nearest \in Strangers /\ \A j \in Strangers : Nearest >= j
  BY <1>1, <1>2, <1>3, LargestIsChosen DEF Nearest
<1>4. \A i \in Strangers : via[i] \in IpAddr
  BY <1>1, <1>2, ElementOfSeq
<1>5. ASSUME Strangers # {}, NEW i \in 1 .. Len(via), i > Nearest PROVE ReliedOn(via[i])
  <2>1. \A j \in Strangers : Nearest >= j
    BY <1>3, <1>5
  <2>2. Nearest \in 1 .. Len(via)
    BY <1>2, <1>3, <1>5
  <2>3. ~(Nearest >= i)
    BY <1>1, <1>5, <2>2
  <2> QED
    BY <1>1, <2>1, <2>3 DEF Strangers
<1>6. Strangers # {} => Nearest \in Strangers /\ Nearest \in 1 .. Len(via)
  BY <1>2, <1>3
<1> QED
  BY <1>1, <1>2, <1>4, <1>5, <1>6 DEF Strangers, NearestIsKnown

LEMMA NearestStrangerNext == (via \in Seq(IpAddr))' => NearestIsKnown'
BY NearestStranger, PTL

\* The last host of a way.
LEMMA SenderIsHost ==
  ASSUME via \in Seq(IpAddr), via # <<>>
  PROVE  Sender \in IpAddr /\ Len(via) \in 1 .. Len(via) /\ Len(via) \in Nat \ {0}
<1>1. Len(via) \in Nat \ {0}
  BY LenProperties, EmptySeq
<1>2. Len(via) \in 1 .. Len(via)
  BY <1>1
<1> QED
  BY <1>1, <1>2, ElementOfSeq DEF Sender

(***************************************************************************)
(* With trusted proxies, a host is relied on if a rule covers its          *)
(* canonical address.                                                      *)
(***************************************************************************)
LEMMA ReliedOnMeansCovered ==
  ASSUME config \in Configs, config.trust = "TrustedProxies", NEW ip \in IpAddr
  PROVE  /\ ReliedOn(ip) <=> Covers(CanonicalIp(ip)) # {}
         /\ ReliedOn(ip) <=> IsTrustedProxy(CanonicalIp(ip))
         /\ ReliedOn(ip) <=> RuleFor(config.rules, ip) # 0
<1>1. CanonicalIp(ip) \in IpAddr /\ ~IsMapped(CanonicalIp(ip)) /\ config \in ClientIpConfig
  BY CanonicalIpIsCanonical, FirstChainHeader
<1>2. Covers(CanonicalIp(ip)) = {RuleFor(config.rules, CanonicalIp(ip))} \ {0}
  BY <1>1, TrustedMeansCovered
<1>3. RuleFor(config.rules, CanonicalIp(ip)) = RuleFor(config.rules, ip)
  BY RuleOfCanonical
<1>4. ReliedOn(ip) <=> RuleFor(config.rules, ip) # 0
  BY DEF ReliedOn, IsTrustedProxy
<1> QED
  BY <1>2, <1>3, <1>4 DEF IsTrustedProxy

\* What is known of a way stays known as long as it does not change.
LEMMA WayStays ==
  ASSUME UNCHANGED <<config, via>>
  PROVE  /\ Strangers' = Strangers /\ Nearest' = Nearest /\ Proxied' = Proxied
         /\ Sender' = Sender /\ Chain' = Chain
<1>1. Strangers' = Strangers
  BY DEF Strangers, ReliedOn, IsTrustedProxy
<1>2. Nearest' = Nearest
  BY <1>1 DEF Nearest
<1> QED
  BY <1>1, <1>2 DEF Proxied, Sender, Chain

\* A proxy at the end of the way is no stranger.
LEMMA WayGrowsByProxy ==
  ASSUME via \in Seq(IpAddr), via # <<>>, NEW host \in IpAddr, ReliedOn(host),
         config' = config, via' = Append(via, host)
  PROVE  /\ via' \in Seq(IpAddr) /\ Len(via') = Len(via) + 1
         /\ Strangers' = Strangers /\ Nearest' = Nearest
         /\ Sender' = host /\ via'[Len(via') - 1] = Sender /\ Chain' = Chain
<1>1. /\ via' \in Seq(IpAddr) /\ Len(via') = Len(via) + 1 /\ Len(via) \in Nat \ {0}
      /\ \A i \in 1 .. Len(via) : via'[i] = via[i]
      /\ via'[Len(via) + 1] = host
      /\ DOMAIN via = 1 .. Len(via) /\ DOMAIN via' = 1 .. Len(via) + 1
  BY AppendProperties, LenProperties, EmptySeq
<1>2. \A ip : ReliedOn(ip)' <=> ReliedOn(ip)
  BY DEF ReliedOn, IsTrustedProxy
<1>3. Strangers' = Strangers
  BY <1>1, <1>2 DEF Strangers
<1>4. Nearest' = Nearest
  BY <1>3 DEF Nearest
<1>5. Len(via') - 1 = Len(via) /\ Len(via) \in 1 .. Len(via)
  BY <1>1
<1> QED
  BY <1>1, <1>3, <1>4, <1>5 DEF Sender, Chain

\* Nobody stands between the service and a way that has just begun anew.
LEMMA NotProxied ==
  ASSUME (via \in Seq(IpAddr))', Len(via') = 1 \/ ~ReliedOn(Sender)'
  PROVE  ~Proxied'
<1>1. NearestIsKnown'
  BY NearestStrangerNext
<1>2. SUFFICES ASSUME Strangers' # {}, Nearest' < Len(via') PROVE FALSE
  BY DEF Proxied
<1>3. Nearest' \in 1 .. Len(via') /\ Len(via') \in Nat
  BY <1>1, <1>2 DEF NearestIsKnown
<1>4. \A l \in Nat : \A n \in 1 .. l : n < l => l \in 1 .. l /\ l # 1 /\ l > n
  OBVIOUS
<1>5. Len(via') \in 1 .. Len(via') /\ Len(via') # 1 /\ Len(via') > Nearest'
  BY <1>2, <1>3, <1>4, Zenon
<1>6. (\A i \in 1 .. Len(via) : i > Nearest => ReliedOn(via[i]))'
  BY <1>1, <1>2 DEF NearestIsKnown
<1>7. ReliedOn(via[Len(via)])'
  BY <1>5, <1>6
<1> QED
  BY <1>5, <1>7 DEF Sender

-----------------------------------------------------------------------------
(* Hosts on the way.                                                        *)

\* What a proxy adds to the chain is a part, and it tells of the sender.
LEMMA HopTells ==
  ASSUME config \in Configs, NEW hosts, NEW i, hosts[i] \in IpAddr, NEW manner \in Manners,
         NEW kept, i \in kept <=> manner = "hidden"
  PROVE  Hop(hosts[i], manner) \in Part /\ Tells(Hop(hosts[i], manner), hosts, kept, i, Chain.kind)
<1>1. manner \in {"plain", "ported", "hidden"} /\ Chain.kind \in {"Forwarded", "XForwardedFor"}
  BY PathAssumption, FirstChainHeader
<1> USE DEF Tells, HopOf, Hop, Part, Entry, ForwardedEntry, ListEntry
<1>2. CASE manner = "hidden"
  BY <1>1, <1>2
<1>3. CASE manner # "hidden" /\ Chain.kind = "Forwarded"
  BY <1>1, <1>3
<1>4. CASE manner # "hidden" /\ Chain.kind # "Forwarded"
  BY <1>1, <1>4
<1> QED
  BY <1>2, <1>3, <1>4

\* However a proxy adds its hop, it leaves lines that are well-formed ...
LEMMA HopIsAdded ==
  ASSUME NEW lines \in Seq(HeaderValue), NEW part \in Part, NEW adds_line
  PROVE  WithHop(lines, part, adds_line) \in Seq(HeaderValue) \ {<<>>}
<1>1. CASE adds_line \/ lines = <<>> \/ ~lines[Len(lines)].readable
  <2>1. <<part>> \in Seq(Part)
    OBVIOUS
  <2>2. [readable |-> TRUE, parts |-> <<part>>] \in HeaderValue
    BY <2>1 DEF HeaderValue
  <2> QED
    BY <1>1, <2>2, AppendProperties DEF WithHop
<1>2. CASE ~(adds_line \/ lines = <<>> \/ ~lines[Len(lines)].readable)
  <2> DEFINE end == Len(lines)
  <2>1. end \in 1 .. Len(lines) /\ lines[end].readable
    BY <1>2, LenProperties, EmptySeq
  <2>2. lines[end] \in HeaderValue /\ lines[end].parts \in Seq(Part)
    BY <2>1, LinesOfHeader
  <2>3. Append(lines[end].parts, part) \in Seq(Part)
    BY <2>2, AppendProperties
  <2>4. [lines[end] EXCEPT !.parts = Append(@, part)] \in HeaderValue
    BY <2>1, <2>2, <2>3, WithParts
  <2>5. WithHop(lines, part, adds_line)
          = [lines EXCEPT ![end] = [lines[end] EXCEPT !.parts = Append(@, part)]]
    BY <1>2 DEF WithHop
  <2>6. /\ WithHop(lines, part, adds_line) \in Seq(HeaderValue)
        /\ Len(WithHop(lines, part, adds_line)) = Len(lines)
    BY <2>1, <2>4, <2>5, ExceptSeq
  <2> QED
    BY <2>1, <2>6, EmptySeq
<1> QED
  BY <1>1, <1>2

\* ... and the chain then lists the sender as well.
LEMMA HopIsListed ==
  ASSUME NEW lines \in Seq(HeaderValue), NEW part \in Part, NEW adds_line,
         NEW hosts \in Seq(IpAddr), NEW h \in IpAddr,
         NEW kept, NEW kept2, NEW near \in 1 .. Len(hosts), NEW exact \in BOOLEAN, NEW kind,
         \A i \in 1 .. Len(hosts) - 1 : i \in kept2 <=> i \in kept,
         Tells(part, Append(hosts, h), kept2, Len(hosts), kind),
         Listing(lines, <<>>, hosts, kept, near, exact, kind)
  PROVE  Listing(WithHop(lines, part, adds_line), <<>>, Append(hosts, h), kept2, near, exact, kind)
<1>1. CASE adds_line \/ lines = <<>> \/ ~lines[Len(lines)].readable
  BY <1>1, GrowsByLine DEF WithHop
<1>2. CASE ~(adds_line \/ lines = <<>> \/ ~lines[Len(lines)].readable)
  <2>1. WithHop(lines, part, adds_line) = WithPart(lines, part)
    BY <1>2 DEF WithHop, WithPart
  <2> QED
    BY <1>2, <2>1, GrowsByPart
<1> QED
  BY <1>1, <1>2

\* What a proxy that is relied on calls its client IP header, if it has one.
LEMMA OwnHeaderIsMetadata ==
  ASSUME config \in Configs, NEW host \in IpAddr, ReliedOn(host)
  PROVE  OwnHeader(host) \in Metadata
<1>1. config \in ClientIpConfig /\ config.trust \in {"TrustedProxies", "TrustAllProxies"}
  BY FirstChainHeader
<1>2. CASE config.trust = "TrustedProxies"
  <2> DEFINE rule == RuleFor(config.rules, host)
  <2>1. config.rules \in Seq(TrustedProxyRule) /\ Apart(config.rules)
    BY <1>1, <1>2, ConfigParts DEF BuiltRules
  <2>2. rule # 0 /\ {rule} \ {0} \subseteq DOMAIN config.rules
    BY <1>2, <2>1, ReliedOnMeansCovered, LookupFindsTheRule
  <2>3. config.rules[rule].metadata \in Metadata
    BY <2>1, <2>2, RulesOfList, RuleParts
  <2> QED
    BY <1>2, <2>3 DEF OwnHeader
<1>3. CASE config.trust = "TrustAllProxies"
  BY <1>1, <1>3, ConfigParts DEF OwnHeader
<1> QED
  BY <1>1, <1>2, <1>3

\* A proxy that sets its client IP header leaves the chain header alone.
SetsOwnHeader(headers, headers2, name, ip) ==
  /\ headers2 \in [HeaderName -> Seq(HeaderValue)]
  /\ headers2[Chain.name] = headers[Chain.name]
  /\ name \notin {NoHeader, Chain.name} =>
       headers2[name] # <<>> /\ headers2[name][Len(headers2[name])] = OwnValue(ip)

LEMMA OwnHeaderIsSet ==
  ASSUME NEW headers \in [HeaderName -> Seq(HeaderValue)], NEW name \in Metadata,
         NEW ip \in IpAddr, NEW alone
  PROVE  SetsOwnHeader(headers, WithOwnHeader(headers, name, ip, alone), name, ip)
<1> USE DEF SetsOwnHeader
<1>1. CASE name \in {NoHeader, Chain.name}
  BY <1>1 DEF WithOwnHeader
<1>2. CASE name \notin {NoHeader, Chain.name}
  <2> DEFINE values == IF alone THEN <<OwnValue(ip)>> ELSE Append(headers[name], OwnValue(ip))
  <2>1. name \in HeaderName /\ headers[name] \in Seq(HeaderValue)
    BY <1>2 DEF Metadata
  <2>2. OwnValue(ip) \in HeaderValue
    <3>1. [text |-> "plain", ip |-> ip] \in Part
      BY DEF Part
    <3>2. <<[text |-> "plain", ip |-> ip]>> \in Seq(Part)
      BY <3>1
    <3> QED
      BY <3>2 DEF OwnValue, HeaderValue
  <2>3. values \in Seq(HeaderValue) /\ values # <<>> /\ values[Len(values)] = OwnValue(ip)
    <3>1. CASE alone
      BY <2>2, <3>1
    <3>2. CASE ~alone
      BY <2>1, <2>2, <3>2, AppendProperties, LenProperties
    <3> QED
      BY <3>1, <3>2
  <2>4. WithOwnHeader(headers, name, ip, alone) = [headers EXCEPT ![name] = values]
    BY <1>2 DEF WithOwnHeader, OwnValue
  <2> HIDE DEF values
  <2> QED
    BY <1>2, <2>1, <2>3, <2>4
<1> QED
  BY <1>1, <1>2

(***************************************************************************)
(* A proxy that is called by the last host: it knows who that is, and if   *)
(* the chain it was given lists the hosts from some position on, then the  *)
(* chain that it sends does.                                               *)
(***************************************************************************)
WithChain(headers, part, adds_line) ==
  [headers EXCEPT ![Chain.name] = WithHop(@, part, adds_line)]

LEMMA ProxyAddsSender ==
  ASSUME config \in Configs, via \in Seq(IpAddr), via # <<>>,
         NEW host \in IpAddr, ReliedOn(host), NEW manner \in Manners, NEW adds_line, NEW alone,
         NEW base \in [HeaderName -> Seq(HeaderValue)],
         config' = config, via' = Append(via, host),
         written' = WithOwnHeader(WithChain(base, Hop(Sender, manner), adds_line),
                                  OwnHeader(host), Sender, alone),
         Len(via) \in hidden' <=> manner = "hidden"
  PROVE  /\ via' \in Seq(IpAddr) /\ written' \in [HeaderName -> Seq(HeaderValue)]
         /\ written'[Chain.name] # <<>>
         /\ OwnHeaderState'
         /\ written'[Chain.name] = WithHop(base[Chain.name], Hop(Sender, manner), adds_line)
         /\ base[Chain.name] \in Seq(HeaderValue) /\ Hop(Sender, manner) \in Part
         /\ Tells(Hop(Sender, manner), via', hidden', Len(via), Chain.kind)
<1> DEFINE lines    == WithHop(base[Chain.name], Hop(Sender, manner), adds_line)
           headers  == [base EXCEPT ![Chain.name] = lines]
           name     == OwnHeader(host)
<1>1. /\ Sender \in IpAddr /\ Len(via) \in 1 .. Len(via) /\ Len(via) \in Nat \ {0}
      /\ Sender = via[Len(via)]
  BY SenderIsHost DEF Sender
<1>2. /\ via' \in Seq(IpAddr) /\ Len(via') = Len(via) + 1
      /\ Sender' = host /\ via'[Len(via') - 1] = Sender /\ Chain' = Chain
  BY WayGrowsByProxy
<1>3. Chain.name \in HeaderName /\ base[Chain.name] \in Seq(HeaderValue)
  BY FirstChainHeader
<1>4. via'[Len(via)] = Sender
  BY <1>1, <1>2
<1>5. Hop(Sender, manner) \in Part /\ Tells(Hop(Sender, manner), via', hidden', Len(via), Chain.kind)
  BY <1>1, <1>4, HopTells
<1>6. lines \in Seq(HeaderValue) \ {<<>>}
  BY <1>3, <1>5, HopIsAdded
<1> HIDE DEF lines
<1>7. headers \in [HeaderName -> Seq(HeaderValue)] /\ headers[Chain.name] = lines
  BY <1>3, <1>6
<1>8. name \in Metadata
  BY OwnHeaderIsMetadata
<1>9. written' = WithOwnHeader(headers, name, Sender, alone)
  BY DEF lines, WithChain
<1> HIDE DEF headers, name
<1>10. /\ written' \in [HeaderName -> Seq(HeaderValue)]
       /\ written'[Chain.name] = lines
       /\ name \notin {NoHeader, Chain.name} =>
            written'[name] # <<>> /\ written'[name][Len(written'[name])] = OwnValue(Sender)
  <2>1. SetsOwnHeader(headers, WithOwnHeader(headers, name, Sender, alone), name, Sender)
    BY <1>1, <1>7, <1>8, OwnHeaderIsSet
  <2>2. SetsOwnHeader(headers, written', name, Sender)
    BY <1>9, <2>1
  <2> QED
    BY <1>7, <2>2 DEF SetsOwnHeader
<1>11. OwnHeaderState'
  <2>1. OwnHeader(Sender)' = name
    BY <1>2 DEF name, OwnHeader
  <2> QED
    BY <1>2, <1>10, <2>1 DEF OwnHeaderState
<1> QED
  BY <1>2, <1>3, <1>5, <1>6, <1>10, <1>11 DEF lines

\* As long as the request is on its way, the resolver has no part in it.
LEMMA OnTheWay ==
  ASSUME PathInvariant, pc = "idle", UNCHANGED vars,
         PathTypeOK', EdgeState', ChainOfProxies', OwnHeaderState'
  PROVE  PathInvariant'
<1>1. ResolverInvariant'
  BY NextInvariant DEF PathInvariant
<1>2. pc' = "idle"
  BY DEF vars
<1>3. RequestState' /\ UnreadState'
  BY <1>2 DEF RequestState, UnreadState, MayRead, InChain
<1>4. StrangersCannotChooseTheirAddress' /\ FittingSelectionFindsTheClient'
  BY <1>2 DEF StrangersCannotChooseTheirAddress, FittingSelectionFindsTheClient
<1> QED
  BY <1>1, <1>3, <1>4 DEF PathInvariant

\* Before a proxy has the request there is nothing to be known of the chain.
LEMMA OnTheWayUnproxied ==
  ASSUME PathInvariant, pc = "idle", UNCHANGED vars, PathTypeOK', ~Proxied', edge' = 0
  PROVE  PathInvariant'
<1>1. EdgeState' /\ ChainOfProxies' /\ OwnHeaderState'
  BY DEF EdgeState, ChainOfProxies, OwnHeaderState
<1> QED
  BY <1>1, OnTheWay

LEMMA DepartKeepsInvariant ==
  ASSUME PathInvariant, NEW client \in Clients, NEW headers \in Written, Depart(client, headers)
  PROVE  PathInvariant'
<1>1. pc = "idle" /\ via = <<>> /\ UNCHANGED vars /\ UNCHANGED <<hidden, edge>>
  BY DEF Depart
<1>2. client \in IpAddr /\ headers \in [HeaderName -> Seq(HeaderValue)]
  BY PathAssumption
<1>3. via' = <<client>> /\ written' = headers
  BY DEF Depart
<1>4. via' \in Seq(IpAddr) /\ Len(via') = 1
  BY <1>2, <1>3
<1>5. edge = 0 /\ hidden = {}
  <2>1. Len(via) = 0
    BY <1>1
  <2>2. hidden \subseteq 1 .. Len(via) - 1 /\ NearestIsKnown
    BY NearestStranger DEF PathInvariant, PathTypeOK
  <2>3. ~Proxied
    BY <2>1, <2>2 DEF NearestIsKnown, Proxied
  <2> QED
    BY <2>1, <2>2, <2>3 DEF PathInvariant, EdgeState
<1>6. PathTypeOK'
  BY <1>1, <1>2, <1>3, <1>4, <1>5 DEF PathTypeOK
<1>7. ~Proxied'
  BY <1>4, NotProxied
<1> QED
  BY <1>1, <1>5, <1>6, <1>7, OnTheWayUnproxied

LEMMA InventKeepsInvariant ==
  ASSUME PathInvariant, NEW host \in Hosts, NEW headers \in Written, Invent(host, headers)
  PROVE  PathInvariant'
<1>1. pc = "idle" /\ UNCHANGED vars
  BY DEF Invent, Departed
<1>2. /\ via \in Seq(IpAddr) /\ host \in IpAddr /\ ~ReliedOn(host)
      /\ headers \in [HeaderName -> Seq(HeaderValue)]
  BY PathAssumption DEF Invent, PathInvariant, PathTypeOK
<1>3. via' = Append(via, host) /\ written' = headers /\ hidden' = {} /\ edge' = 0 /\ config' = config
  BY <1>1 DEF Invent, vars
<1>4. via' \in Seq(IpAddr) /\ Sender' = host
  BY <1>2, <1>3, AppendProperties DEF Sender
<1>5. PathTypeOK'
  BY <1>2, <1>3, <1>4 DEF PathTypeOK
<1>6. ~ReliedOn(Sender)'
  BY <1>2, <1>3, <1>4 DEF ReliedOn, IsTrustedProxy
<1>7. ~Proxied'
  BY <1>4, <1>6, NotProxied
<1> QED
  BY <1>1, <1>3, <1>5, <1>7, OnTheWayUnproxied

LEMMA RelayKeepsInvariant ==
  ASSUME PathInvariant, NEW host \in Hosts, NEW manner \in Manners, NEW adds_line \in BOOLEAN,
         Relay(host, manner, adds_line)
  PROVE  PathInvariant'
<1>1. /\ pc = "idle" /\ via # <<>> /\ ReliedOn(host) /\ via' = Append(via, host)
      /\ UNCHANGED <<vars, edge>>
      /\ written' = WithOwnHeader(WithChain(written, Hop(Sender, manner), adds_line),
                                  OwnHeader(host), Sender, ~adds_line)
      /\ hidden' = IF manner = "hidden" THEN hidden \cup {Len(via)} ELSE hidden
  BY DEF Relay, Departed, WithChain
<1>2. /\ via \in Seq(IpAddr) /\ host \in IpAddr /\ edge \in Nat
      /\ written \in [HeaderName -> Seq(HeaderValue)] /\ hidden \subseteq 1 .. Len(via) - 1
      /\ config \in Configs /\ config' = config /\ pc' = "idle" /\ hops' = hops
  BY <1>1, PathAssumption DEF PathInvariant, PathTypeOK, ResolverInvariant, TypeOK, vars, call
<1>3. Len(via) \in Nat \ {0}
  BY <1>1, <1>2, SenderIsHost
<1>4. /\ \A i \in 1 .. Len(via) - 1 : i \in hidden' <=> i \in hidden
      /\ Len(via) \in hidden' <=> manner = "hidden"
      /\ hidden' \subseteq 1 .. Len(via)
  <2>1. Len(via) \notin hidden /\ Len(via) \notin 1 .. Len(via) - 1
    BY <1>2, <1>3
  <2>2. Len(via) \in 1 .. Len(via) /\ 1 .. Len(via) - 1 \subseteq 1 .. Len(via)
    BY <1>3
  <2>3. hidden' = IF manner = "hidden" THEN hidden \cup {Len(via)} ELSE hidden
    BY <1>1
  <2>4. hidden \subseteq 1 .. Len(via)
    BY <1>2, <2>2
  <2>5. CASE manner = "hidden"
    BY <2>1, <2>2, <2>3, <2>4, <2>5
  <2>6. CASE manner # "hidden"
    BY <2>1, <2>3, <2>4, <2>6
  <2> QED
    BY <2>5, <2>6
<1>5. /\ via' \in Seq(IpAddr) /\ written' \in [HeaderName -> Seq(HeaderValue)]
      /\ written'[Chain.name] # <<>> /\ OwnHeaderState'
      /\ written'[Chain.name] = WithHop(written[Chain.name], Hop(Sender, manner), adds_line)
      /\ written[Chain.name] \in Seq(HeaderValue) /\ Hop(Sender, manner) \in Part
      /\ Tells(Hop(Sender, manner), via', hidden', Len(via), Chain.kind)
  BY <1>1, <1>2, <1>4, ProxyAddsSender
<1>6. /\ Len(via') = Len(via) + 1 /\ Strangers' = Strangers /\ Nearest' = Nearest
      /\ Chain' = Chain
  BY <1>1, <1>2, WayGrowsByProxy
<1>7. PathTypeOK'
  <2>1. Len(via') - 1 = Len(via)
    BY <1>3, <1>6
  <2> QED
    BY <1>1, <1>2, <1>4, <1>5, <2>1 DEF PathTypeOK
<1>8. NearestIsKnown
  BY <1>2, NearestStranger
<1>9. EdgeState'
  <2>1. edge # 0 => Proxied /\ edge = Nearest
    BY DEF PathInvariant, EdgeState
  <2>2. Proxied => Proxied'
    BY <1>3, <1>6, <1>8 DEF Proxied, NearestIsKnown
  <2> QED
    BY <1>1, <1>6, <2>1, <2>2 DEF EdgeState
<1>10. ASSUME Proxied'
       PROVE  Listing(Rest, hops, via, hidden, Nearest, edge # 0, Chain.kind)'
  <2>1. Strangers # {} /\ Nearest \in 1 .. Len(via)
    BY <1>6, <1>8, <1>10 DEF Proxied, NearestIsKnown
  <2>2. hops = <<>> /\ Rest = written[Chain.name]
    BY <1>1 DEF PathInvariant, ResolverInvariant, ChainState, Rest
  <2>3. Listing(written[Chain.name], <<>>, via, hidden, Nearest, edge # 0, Chain.kind)
    <3>1. CASE Nearest < Len(via)
      BY <1>1, <2>1, <2>2, <3>1 DEF PathInvariant, ChainOfProxies, Proxied
    <3>2. CASE ~(Nearest < Len(via))
      <4>1. Nearest = Len(via) /\ edge = 0
        BY <1>3, <2>1, <3>2 DEF PathInvariant, EdgeState, Proxied
      <4>2. written[Chain.name] \in Seq(HeaderValue)
        BY <1>2, FirstChainHeader
      <4> QED
        BY <1>2, <4>1, <4>2, NothingListed
    <3> QED
      BY <3>1, <3>2
  <2>4. Listing(written'[Chain.name], <<>>, via', hidden', Nearest, edge # 0, Chain.kind)
    <3> DEFINE lines == written[Chain.name]
               part  == Hop(Sender, manner)
               begun == edge # 0
               kind  == Chain.kind
    <3>1. Tells(part, Append(via, host), hidden', Len(via), kind) /\ begun \in BOOLEAN
      BY <1>1, <1>5
    <3>2. Listing(lines, <<>>, via, hidden, Nearest, begun, kind)
      BY <2>3
    <3>3. lines \in Seq(HeaderValue) /\ part \in Part
      BY <1>5
    <3>4. written'[Chain.name] = WithHop(lines, part, adds_line) /\ via' = Append(via, host)
      BY <1>1, <1>5
    <3> HIDE DEF lines, part, begun, kind
    <3>5. Listing(WithHop(lines, part, adds_line), <<>>, Append(via, host), hidden', Nearest, begun, kind)
      BY <1>2, <1>4, <2>1, <3>1, <3>2, <3>3, HopIsListed
    <3> QED
      BY <3>4, <3>5 DEF begun, kind
  <2>5. /\ Rest' = written'[Chain.name] /\ hops' = <<>>
        /\ Nearest' = Nearest /\ edge' = edge /\ Chain' = Chain
    BY <1>1, <1>2, <1>6, <2>2 DEF Rest
  <2>6. Listing(Rest', hops', via', hidden', Nearest', edge' # 0, Chain'.kind)
    BY <2>4, <2>5
  <2> QED
    BY <2>6
<1>11. ChainOfProxies'
  BY <1>5, <1>6, <1>10 DEF ChainOfProxies
<1> QED
  BY <1>1, <1>5, <1>7, <1>9, <1>11, OnTheWay

LEMMA OverwriteKeepsInvariant ==
  ASSUME PathInvariant, NEW host \in Hosts, NEW manner \in Manners, Overwrite(host, manner)
  PROVE  PathInvariant'
<1>1. /\ pc = "idle" /\ via # <<>> /\ ReliedOn(host) /\ ~ReliedOn(Sender)
      /\ via' = Append(via, host) /\ UNCHANGED vars
      /\ written' = WithOwnHeader(WithChain(NoHeaders, Hop(Sender, manner), TRUE),
                                  OwnHeader(host), Sender, TRUE)
      /\ hidden' = IF manner = "hidden" THEN {Len(via)} ELSE {}
      /\ edge' = Len(via)
  BY DEF Overwrite, Departed, WithChain
<1>2. /\ via \in Seq(IpAddr) /\ host \in IpAddr /\ hidden \subseteq 1 .. Len(via) - 1
      /\ NoHeaders \in [HeaderName -> Seq(HeaderValue)]
      /\ config \in Configs /\ config' = config /\ pc' = "idle" /\ hops' = hops
  BY <1>1, PathAssumption, EmptySeq DEF PathInvariant, PathTypeOK, ResolverInvariant, TypeOK,
                                        vars, call, NoHeaders
<1>3. Len(via) \in Nat \ {0} /\ Len(via) \in 1 .. Len(via)
  BY <1>1, <1>2, SenderIsHost
<1>4. /\ \A i \in 1 .. Len(via) - 1 : i \in hidden' <=> i \in {}
      /\ Len(via) \in hidden' <=> manner = "hidden"
      /\ hidden' \subseteq 1 .. Len(via)
  BY <1>1, <1>3
<1>5. /\ via' \in Seq(IpAddr) /\ written' \in [HeaderName -> Seq(HeaderValue)]
      /\ written'[Chain.name] # <<>> /\ OwnHeaderState'
      /\ written'[Chain.name] = WithHop(NoHeaders[Chain.name], Hop(Sender, manner), TRUE)
      /\ NoHeaders[Chain.name] \in Seq(HeaderValue) /\ Hop(Sender, manner) \in Part
      /\ Tells(Hop(Sender, manner), via', hidden', Len(via), Chain.kind)
  BY <1>1, <1>2, <1>4, ProxyAddsSender
<1>6. /\ Len(via') = Len(via) + 1 /\ Strangers' = Strangers /\ Nearest' = Nearest
      /\ Chain' = Chain
  BY <1>1, <1>2, WayGrowsByProxy
<1>7. PathTypeOK'
  <2>1. Len(via') - 1 = Len(via)
    BY <1>3, <1>6
  <2> QED
    BY <1>1, <1>3, <1>4, <1>5, <2>1 DEF PathTypeOK
<1>8. Strangers # {} /\ Nearest = Len(via)
  <2>1. NearestIsKnown
    BY <1>2, NearestStranger
  <2>2. Len(via) \in Strangers
    BY <1>1, <1>3, <2>1 DEF Strangers, Sender, NearestIsKnown
  <2>3. Nearest \in 1 .. Len(via) /\ ~(Len(via) > Nearest)
    BY <1>1, <1>3, <2>1, <2>2 DEF NearestIsKnown, Sender
  <2> QED
    BY <1>3, <2>2, <2>3
<1>9. Proxied'
  BY <1>3, <1>6, <1>8 DEF Proxied
<1>10. EdgeState'
  BY <1>1, <1>6, <1>8, <1>9 DEF EdgeState
<1>11. Listing(Rest, hops, via, hidden, Nearest, edge # 0, Chain.kind)'
  <2>1. NoHeaders[Chain.name] = <<>>
    BY <1>2, FirstChainHeader DEF NoHeaders
  <2>2. Listing(<<>>, <<>>, via, {}, Len(via), TRUE, Chain.kind)
    BY <1>2, NothingListed, EmptySeq
  <2>3. Listing(written'[Chain.name], <<>>, via', hidden', Len(via), TRUE, Chain.kind)
    <3> DEFINE lines == NoHeaders[Chain.name]
               part  == Hop(Sender, manner)
               kind  == Chain.kind
    <3>1. Tells(part, Append(via, host), hidden', Len(via), kind)
      BY <1>1, <1>5
    <3>2. Listing(lines, <<>>, via, {}, Len(via), TRUE, kind)
      BY <2>1, <2>2
    <3>3. lines \in Seq(HeaderValue) /\ part \in Part
      BY <1>5
    <3>4. written'[Chain.name] = WithHop(lines, part, TRUE) /\ via' = Append(via, host)
      BY <1>1, <1>5
    <3> HIDE DEF lines, part, kind
    <3>5. Listing(WithHop(lines, part, TRUE), <<>>, Append(via, host), hidden', Len(via), TRUE, kind)
      BY <1>2, <1>3, <1>4, <3>1, <3>2, <3>3, HopIsListed
    <3> QED
      BY <3>4, <3>5 DEF kind
  <2>4. /\ Rest' = written'[Chain.name] /\ hops' = <<>> /\ (edge' # 0) = TRUE
        /\ Nearest' = Len(via) /\ Chain' = Chain
    BY <1>1, <1>2, <1>3, <1>6, <1>8 DEF Rest, PathInvariant, ResolverInvariant, ChainState
  <2>5. Listing(Rest', hops', via', hidden', Nearest', edge' # 0, Chain'.kind)
    BY <2>3, <2>4
  <2> QED
    BY <2>5
<1>12. ChainOfProxies'
  BY <1>5, <1>6, <1>11 DEF ChainOfProxies
<1> QED
  BY <1>1, <1>5, <1>7, <1>10, <1>12, OnTheWay

LEMMA ArriveKeepsInvariant ==
  ASSUME PathInvariant, Arrive
  PROVE  PathInvariant'
<1> DEFINE r == [connect_info |-> Sender, headers |-> written, optional |-> FALSE]
<1>1. pc = "idle" /\ via # <<>> /\ Receive(r) /\ UNCHANGED path
  BY DEF Arrive, Departed
<1>2. r \in Request
  BY <1>1, SenderIsHost DEF PathInvariant, PathTypeOK, Request
<1>3. ResolverInvariant'
  BY <1>1, <1>2, ReceiveKeepsInvariant DEF PathInvariant
<1>4. /\ pc' = "extract" /\ request' = r
      /\ UNCHANGED <<config, header, hops>> /\ UNCHANGED <<via, written, hidden, edge>>
  BY <1>1 DEF Receive, path
<1>5. /\ Strangers' = Strangers /\ Nearest' = Nearest /\ Proxied' = Proxied
      /\ Sender' = Sender /\ Chain' = Chain
  BY <1>4, WayStays
<1>6. RequestState'
  BY <1>1, <1>4, <1>5 DEF RequestState, MayRead, InChain
<1>7. PathTypeOK' /\ EdgeState'
  BY <1>4, <1>5 DEF PathInvariant, PathTypeOK, EdgeState
<1>8. ChainOfProxies'
  <2>1. Rest' = Rest
    BY <1>1, <1>4, <1>5 DEF Rest
  <2> QED
    BY <1>1, <1>4, <1>5, <2>1 DEF PathInvariant, ChainOfProxies
<1>9. OwnHeaderState'
  <2>1. OwnHeader(Sender)' = OwnHeader(Sender)
    BY <1>4, <1>5 DEF OwnHeader
  <2> QED
    BY <1>4, <1>5, <2>1 DEF PathInvariant, OwnHeaderState
<1>10. /\ UnreadState' /\ StrangersCannotChooseTheirAddress' /\ FittingSelectionFindsTheClient'
  BY <1>4 DEF UnreadState, StrangersCannotChooseTheirAddress, FittingSelectionFindsTheClient
<1> QED
  BY <1>3, <1>6, <1>7, <1>8, <1>9, <1>10 DEF PathInvariant

LEMMA ForgetKeepsInvariant ==
  ASSUME PathInvariant, Forget
  PROVE  PathInvariant'
<1>1. Return /\ via' = <<>> /\ written' = NoHeaders /\ hidden' = {} /\ edge' = 0 /\ pc' = "idle"
  BY DEF Forget, Return
<1>2. ResolverInvariant'
  BY <1>1, ReturnKeepsInvariant DEF PathInvariant
<1>3. PathTypeOK'
  <2>1. NoHeaders \in [HeaderName -> Seq(HeaderValue)] /\ <<>> \in Seq(IpAddr)
    BY EmptySeq DEF NoHeaders
  <2> QED
    BY <1>1, <2>1 DEF PathTypeOK
<1>4. ~Proxied'
  <2>1. NearestIsKnown' /\ Len(via') = 0
    BY <1>1, <1>3, NearestStrangerNext DEF PathTypeOK
  <2> QED
    BY <2>1 DEF NearestIsKnown, Proxied
<1> QED
  BY <1>1, <1>2, <1>3, <1>4 DEF PathInvariant, RequestState, EdgeState, ChainOfProxies,
       OwnHeaderState, UnreadState, MayRead, InChain, StrangersCannotChooseTheirAddress,
       FittingSelectionFindsTheClient

-----------------------------------------------------------------------------
(* Where the resolver stands.                                               *)

\* A peer whose headers are read is a proxy that is relied on.
LEMMA ReaderIsProxied ==
  ASSUME PathInvariant, MayRead, config.trust = "TrustedProxies", Strangers # {}
  PROVE  Proxied
<1>1. via \in Seq(IpAddr) /\ config \in Configs
  BY DEF PathInvariant, PathTypeOK, ResolverInvariant, TypeOK
<1>2. via # <<>> /\ socket_ip = CanonicalIp(Sender) /\ RuleFor(config.rules, socket_ip) # 0
  BY DEF PathInvariant, RequestState, ResolverInvariant, PeerState, PeerIsKnown, MayRead, InChain
<1>3. Sender \in IpAddr /\ Len(via) \in Nat \ {0}
  BY <1>1, <1>2, SenderIsHost
<1>4. ReliedOn(Sender)
  BY <1>1, <1>2, <1>3, ReliedOnMeansCovered DEF IsTrustedProxy
<1>5. NearestIsKnown
  BY <1>1, NearestStranger
<1>6. Nearest \in 1 .. Len(via) /\ ~ReliedOn(via[Nearest])
  BY <1>5 DEF NearestIsKnown
<1>7. Nearest # Len(via)
  BY <1>4, <1>6 DEF Sender
<1> QED
  BY <1>3, <1>6, <1>7 DEF Proxied

\* The proxies' chain header is the one that is tried.
LEMMA ProxiesChainIsTried ==
  ASSUME PathInvariant, MayRead, Proxied
  PROVE  /\ tried = 1 /\ Order[tried] = Chain /\ tried <= Len(Order)
         /\ Values = written[Chain.name] /\ Values # <<>> /\ Values \in Seq(HeaderValue)
<1>1. /\ config \in Configs /\ tried \in Nat \ {0}
      /\ \A n \in 1 .. tried - 1 : request.headers[Order[n].name] = <<>>
  BY DEF PathInvariant, ResolverInvariant, TypeOK, ChainState
<1>2. Chain = Order[1] /\ Len(Order) \in Nat \ {0} /\ Chain.name \in HeaderName
  BY <1>1, FirstChainHeader
<1>3. request.headers = written /\ written[Chain.name] # <<>>
  BY DEF PathInvariant, RequestState, ChainOfProxies, MayRead, InChain
<1>4. tried = 1
  <2>1. SUFFICES ASSUME tried # 1 PROVE FALSE
    OBVIOUS
  <2>2. 1 \in 1 .. tried - 1
    BY <1>1, <2>1
  <2> QED
    BY <1>1, <1>2, <1>3, <2>2
<1> QED
  BY <1>2, <1>3, <1>4 DEF Values, PathInvariant, PathTypeOK

\* Once the chain has been read, every host from the stranger on is in it.
LEMMA HopsOfProxies ==
  ASSUME PathInvariant, Proxied, pc \in {"scan", "pick"}
  PROVE  /\ \A i \in Nearest .. Len(via) - 1 :
              /\ Len(hops) >= Len(via) - i
              /\ hops[Len(hops) - (Len(via) - 1 - i)] = HopOf(via, hidden, i)
         /\ edge # 0 => Len(via) = Nearest + Len(hops)
<1>1. Listing(<<>>, hops, via, hidden, Nearest, edge # 0, Chain.kind) /\ via \in Seq(IpAddr)
  BY DEF PathInvariant, ChainOfProxies, Rest, PathTypeOK
<1>2. Ends(hops, via, hidden, Nearest, Len(via)) /\ (edge # 0 => Len(via) = Nearest + Len(hops))
  BY <1>1, ReadToTheEnd
<1> QED
  BY <1>2 DEF Ends

\* The last line of a chain, if it is one address, is that of the sender.
LEMMA LastPartTellsSender ==
  ASSUME NEW lines \in Seq(HeaderValue), NEW hosts \in Seq(IpAddr), NEW kept, NEW near \in Nat,
         NEW exact \in BOOLEAN, NEW kind, near < Len(hosts),
         Listing(lines, <<>>, hosts, kept, near, exact, kind), UsableHeader(lines)
  PROVE  lines[Len(lines)].parts[1].ip = hosts[Len(hosts) - 1]
<1> DEFINE end == Len(lines)
<1>1. PICK at : Lists(at, lines, <<>>, hosts, kept, near, exact, kind)
  BY DEF Listing
<1>2. end \in Nat \ {0} /\ end \in 1 .. Len(lines) /\ Len(hosts) \in Nat
  BY LenProperties, EmptySeq DEF UsableHeader
<1>3. /\ lines[end].readable /\ Len(lines[end].parts) = 1 /\ lines[end].parts[1].text = "plain"
  BY DEF UsableHeader
<1>4. Width(lines[end]) = 1 /\ DOMAIN lines[end].parts = 1 .. 1
  BY <1>2, <1>3, LinesOfHeader
<1> HIDE DEF end
<1>5. at[end + 1] = Len(hosts) /\ at[end] \in Int /\ end \in 1 .. Len(lines)
  BY <1>1, <1>2 DEF Lists, end
<1>6. at[end + 1] = at[end] + 1
  BY <1>1, <1>4, <1>5 DEF Lists
<1>7. at[end] + 1 - 1 = Len(hosts) - 1 /\ at[end] + 1 - 1 >= near
  BY <1>2, <1>5, <1>6
<1>8. 1 \in DOMAIN lines[end].parts
  BY <1>4
<1>9. Tells(lines[end].parts[1], hosts, kept, at[end] + 1 - 1, kind)
  BY <1>1, <1>3, <1>5, <1>7, <1>8 DEF Lists
<1> QED
  BY <1>3, <1>7, <1>9 DEF Tells, end

\* Reading a part, or leaving a line, says nothing of what cannot be read.
LEMMA PartsReadable ==
  ASSUME NEW lines \in Seq(HeaderValue), lines # <<>>, Head(lines).readable,
         Head(lines).parts # <<>>
  PROVE  Unread([lines EXCEPT ![1].parts = Tail(@)]) <=> Unread(lines)
<1> DEFINE value  == [lines[1] EXCEPT !.parts = Tail(@)]
           lines2 == [lines EXCEPT ![1].parts = Tail(@)]
<1>1. /\ DOMAIN lines = 1 .. Len(lines) /\ Len(lines) \in Nat \ {0} /\ Head(lines) = lines[1]
  BY LenProperties, EmptySeq, HeadTailProperties
<1>2. 1 \in 1 .. Len(lines)
  BY <1>1
<1>3. lines[1] \in HeaderValue /\ lines[1].readable /\ lines[1].parts \in Seq(Part)
  BY <1>1, <1>2, LinesOfHeader
<1>4. Tail(lines[1].parts) \in Seq(Part)
  BY <1>1, <1>3, HeadTailProperties
<1>5. value.readable
  BY <1>3, <1>4, WithParts
<1>6. /\ DOMAIN lines2 = DOMAIN lines /\ lines2[1] = value
      /\ \A i \in DOMAIN lines : i # 1 => lines2[i] = lines[i]
  BY <1>1, <1>2
<1> HIDE DEF value, lines2
<1>7. \A i \in DOMAIN lines : lines2[i].readable <=> lines[i].readable
  BY <1>3, <1>5, <1>6
<1> QED
  BY <1>6, <1>7 DEF Unread, lines2

LEMMA TailReadable ==
  ASSUME NEW lines \in Seq(HeaderValue), lines # <<>>, Head(lines).readable
  PROVE  Unread(Tail(lines)) <=> Unread(lines)
<1>1. /\ DOMAIN lines = 1 .. Len(lines) /\ Len(lines) \in Nat \ {0} /\ Head(lines) = lines[1]
      /\ Tail(lines) \in Seq(HeaderValue) /\ Len(Tail(lines)) = Len(lines) - 1
      /\ \A i \in 1 .. Len(lines) - 1 : Tail(lines)[i] = lines[i + 1]
  BY LenProperties, EmptySeq, HeadTailProperties
<1>2. DOMAIN Tail(lines) = 1 .. Len(lines) - 1
  BY <1>1, LenProperties
<1>3. ASSUME NEW i \in DOMAIN lines, ~lines[i].readable PROVE Unread(Tail(lines))
  <2>1. i - 1 \in 1 .. Len(lines) - 1 /\ i - 1 + 1 = i
    BY <1>1, <1>3
  <2>2. Tail(lines)[i - 1] = lines[i]
    BY <1>1, <2>1
  <2> QED
    BY <1>2, <1>3, <2>1, <2>2 DEF Unread
<1>4. ASSUME NEW i \in DOMAIN Tail(lines), ~Tail(lines)[i].readable PROVE Unread(lines)
  <2>1. i + 1 \in DOMAIN lines /\ Tail(lines)[i] = lines[i + 1]
    BY <1>1, <1>2
  <2> QED
    BY <1>4, <2>1 DEF Unread
<1> QED
  BY <1>3, <1>4 DEF Unread

(***************************************************************************)
(* A client IP header that is used is the last proxy's, and gives the host *)
(* that this proxy was called by.                                          *)
(***************************************************************************)
LEMMA HeaderGivesCaller ==
  ASSUME PathInvariant, UseClientIpHeader, Proxied
  PROVE  HeaderIp(request.headers[header]) = CanonicalIp(via[Len(via) - 1])
<1> DEFINE lines == written[header]
<1>1. /\ via \in Seq(IpAddr) /\ config \in Configs /\ hidden \subseteq 1 .. Len(via) - 1
      /\ written \in [HeaderName -> Seq(HeaderValue)] /\ header \in Metadata
  BY DEF PathInvariant, PathTypeOK, ResolverInvariant, TypeOK
<1>2. /\ pc = "client_ip_header" /\ MayRead /\ header # NoHeader /\ UsableHeader(request.headers[header])
  BY DEF UseClientIpHeader, Usable, MayRead
<1>3. via # <<>> /\ request.headers = written
  BY <1>2 DEF PathInvariant, RequestState
<1>4. Sender \in IpAddr /\ NearestIsKnown
  BY <1>1, <1>3, SenderIsHost, NearestStranger
<1>5. header \in HeaderName /\ lines \in Seq(HeaderValue) /\ UsableHeader(lines)
  BY <1>1, <1>2, <1>3 DEF Metadata
<1>6. header = OwnHeader(Sender)
  <2>1. config.trust \in {"TrustedProxies", "TrustAllProxies"}
    BY <1>1, FirstChainHeader
  <2>2. CASE config.trust = "TrustedProxies"
    <3>1. /\ socket_ip = CanonicalIp(Sender)
          /\ header = config.rules[RuleFor(config.rules, socket_ip)].metadata
      BY <1>2, <2>2 DEF PathInvariant, RequestState, ResolverInvariant, PeerState, PeerIsKnown
    <3>2. RuleFor(config.rules, socket_ip) = RuleFor(config.rules, Sender)
      BY <1>4, <3>1, RuleOfCanonical
    <3> QED
      BY <2>2, <3>1, <3>2 DEF OwnHeader
  <2>3. CASE config.trust = "TrustAllProxies"
    BY <1>2, <2>3 DEF PathInvariant, RequestState, OwnHeader
  <2> QED
    BY <2>1, <2>2, <2>3
<1>7. lines[Len(lines)].parts[1].ip = via[Len(via) - 1]
  <2>1. CASE header = Chain.name
    <3>1. Listing(lines, <<>>, via, hidden, Nearest, edge # 0, Chain.kind)
      BY <1>2, <2>1 DEF PathInvariant, ChainOfProxies, Rest, ResolverInvariant, ChainState
    <3>2. Nearest \in Nat /\ Nearest < Len(via)
      BY <1>4 DEF NearestIsKnown, Proxied
    <3> QED
      BY <1>1, <1>5, <3>1, <3>2, LastPartTellsSender
  <2>2. CASE header # Chain.name
    <3>1. lines[Len(lines)] = OwnValue(via[Len(via) - 1])
      BY <1>2, <1>6, <2>2 DEF PathInvariant, OwnHeaderState
    <3> QED
      BY <3>1 DEF OwnValue
  <2> QED
    BY <2>1, <2>2
<1> QED
  BY <1>3, <1>7 DEF HeaderIp

\* The selection and the client it is to find, when the deployment fits it.
Caller ==
  IF config.chain_ip_selection.pick = "Leftmost" THEN edge
  ELSE Len(via) - 1 - Skipped(config.chain_ip_selection)

Fits ==
  /\ Strangers # {}
  /\ IF config.chain_ip_selection.pick = "Leftmost" THEN edge # 0
     ELSE Appending = Skipped(config.chain_ip_selection) + 1

LEMMA CallerIsNearest ==
  ASSUME PathInvariant, config.trust = "TrustAllProxies", Fits
  PROVE  /\ Proxied /\ Caller = Nearest
         /\ pc = "pick" => Position(config.chain_ip_selection) = Len(hops) - (Len(via) - 1 - Nearest)
<1> DEFINE selection == config.chain_ip_selection
<1>1. via \in Seq(IpAddr) /\ config \in Configs /\ Strangers # {} /\ hops \in Seq(ChainEntry)
  BY DEF PathInvariant, PathTypeOK, ResolverInvariant, TypeOK, Fits
<1>2. /\ Len(via) \in Nat /\ Nearest \in 1 .. Len(via) /\ Len(hops) \in Nat
  BY <1>1, NearestStranger, LenProperties DEF NearestIsKnown
<1>3. selection \in Selection
  BY <1>1, FirstChainHeader, ConfigParts
<1>4. CASE selection.pick = "Leftmost"
  <2>1. Proxied /\ edge = Nearest /\ edge # 0
    BY <1>4 DEF Fits, PathInvariant, EdgeState
  <2>2. pc = "pick" => Len(via) = Nearest + Len(hops)
    BY <2>1, HopsOfProxies
  <2>3. Caller = edge /\ Position(selection) = 1
    BY <1>4 DEF Caller, Position
  <2> QED
    BY <1>2, <2>1, <2>2, <2>3
<1>5. CASE selection.pick # "Leftmost"
  <2>1. Skipped(selection) \in Nat /\ Position(selection) = Len(hops) - Skipped(selection)
    BY <1>2, <1>3, <1>5 DEF Selection, Skipped, Position
  <2>2. Len(via) - Nearest = Skipped(selection) + 1
    BY <1>1, <1>5 DEF Fits, Appending
  <2>3. Caller = Len(via) - 1 - Skipped(selection)
    BY <1>5 DEF Caller
  <2> HIDE DEF selection
  <2>4. Nearest < Len(via) /\ Skipped(selection) = Len(via) - 1 - Nearest
        /\ Len(via) - 1 - Skipped(selection) = Nearest
    BY <1>2, <2>1, <2>2
  <2> QED
    BY <1>1, <2>1, <2>3, <2>4 DEF Proxied, selection
<1> QED
  BY <1>4, <1>5

-----------------------------------------------------------------------------
(* Steps of the resolver.                                                   *)

\* The way stays as it is while the resolver is at work.
LEMMA ResolveLeavesWay ==
  ASSUME PathInvariant, Resolve, UNCHANGED path
  PROVE  /\ ResolverInvariant' /\ PathTypeOK' /\ RequestState' /\ EdgeState' /\ OwnHeaderState'
         /\ UNCHANGED <<config, request, via, written, hidden, edge>> /\ pc # "idle" /\ pc' # "idle"
         /\ Strangers' = Strangers /\ Nearest' = Nearest /\ Proxied' = Proxied
         /\ Sender' = Sender /\ Chain' = Chain
<1>1. ResolverInvariant'
  BY NextInvariant DEF PathInvariant, Next
<1> USE DEF Resolve, MissingConnectInfo, ExtractPeer, ResolveClientIp, TrustNoProxy, Stranger, TrustedPeer,
            TrustAnyPeer, UseClientIpHeader, TurnToChainHeaders, NoChainHeaderLeft,
            SkipAbsentHeader, UnreadableList, OpenHeader, UnreadableForwarded, ReadPart,
            NextValue, HopsRead, WalkPastProxy, StopAtStranger, StopAtOpaque, RunOut,
            PickHop, Answer, ReadHeaders, call
<1>2. UNCHANGED <<config, request>> /\ pc # "idle" /\ pc' # "idle"
  OBVIOUS
<1>3. MayRead' /\ config.trust = "TrustAllProxies" =>
        \/ MayRead /\ header' = header
        \/ header' = config.client_ip_header
  BY DEF MayRead, InChain
<1>4. UNCHANGED <<via, written, hidden, edge>>
  BY DEF path
<1>5. /\ Strangers' = Strangers /\ Nearest' = Nearest /\ Proxied' = Proxied
      /\ Sender' = Sender /\ Chain' = Chain
  BY <1>2, <1>4, WayStays
<1>6. RequestState'
  BY <1>2, <1>3, <1>4, <1>5 DEF PathInvariant, RequestState
<1>7. PathTypeOK' /\ EdgeState'
  BY <1>4, <1>5 DEF PathInvariant, PathTypeOK, EdgeState
<1>8. OwnHeaderState'
  <2>1. OwnHeader(Sender)' = OwnHeader(Sender)
    BY <1>2, <1>5 DEF OwnHeader
  <2> QED
    BY <1>4, <1>5, <2>1 DEF PathInvariant, OwnHeaderState
<1> QED
  BY <1>1, <1>2, <1>4, <1>5, <1>6, <1>7, <1>8

\* What an answer must be with trusted proxies ...
GivesStranger(a) ==
  CASE a.source = "ConfiguredHeader" ->
         Nearest < Len(via) /\ a.ip = CanonicalIp(via[Len(via) - 1])
    [] a.source = "ChainHeader" ->
         Nearest < Len(via) /\ a.ip = CanonicalIp(via[Nearest])
    [] OTHER ->
         /\ a = Socket(CanonicalIp(Sender))
         /\ \/ Nearest = Len(via)
            \/ hidden \cap (Nearest .. Len(via)) # {}
            \/ Unread(written[Chain.name])

\* ... and when all proxies are trusted.
GivesCaller(a) ==
  /\ a.source = "ConfiguredHeader" /\ Appending > 0 => a.ip = CanonicalIp(via[Len(via) - 1])
  /\ Fits /\ config.client_ip_header = NoHeader =>
       a = IF Caller \in hidden \/ Unread(written[Chain.name])
             THEN Socket(CanonicalIp(Sender))
             ELSE FromChain(CanonicalIp(via[Caller]), Chain.name)

LEMMA AnswerKeepsPath ==
  ASSUME PathInvariant, Resolve, UNCHANGED path, NEW a, Answer(a),
         config.trust = "TrustedProxies" /\ Strangers # {} => GivesStranger(a),
         config.trust = "TrustAllProxies" /\ Strangers # {} => GivesCaller(a)
  PROVE  PathInvariant'
<1>1. /\ ResolverInvariant' /\ PathTypeOK' /\ RequestState' /\ EdgeState' /\ OwnHeaderState'
      /\ UNCHANGED <<config, request, via, written, hidden, edge>>
      /\ Strangers' = Strangers /\ Nearest' = Nearest /\ Proxied' = Proxied
      /\ Sender' = Sender /\ Chain' = Chain
  BY ResolveLeavesWay
<1>2. answer' = a /\ pc' = "done"
  BY DEF Answer
<1>3. ChainOfProxies' /\ UnreadState'
  BY <1>1, <1>2 DEF PathInvariant, ChainOfProxies, UnreadState
<1>4. StrangersCannotChooseTheirAddress'
  <2>1. SUFFICES ASSUME config.trust = "TrustedProxies", Strangers # {}
                 PROVE  StrangersCannotChooseTheirAddress'
    BY <1>1 DEF StrangersCannotChooseTheirAddress
  <2>2. GivesStranger(a)
    BY <2>1
  <2> QED
    BY <1>1, <1>2, <2>2 DEF StrangersCannotChooseTheirAddress, GivesStranger
<1>5. FittingSelectionFindsTheClient'
  <2>1. SUFFICES ASSUME config.trust = "TrustAllProxies", Strangers # {}
                 PROVE  FittingSelectionFindsTheClient'
    BY <1>1 DEF FittingSelectionFindsTheClient
  <2>2. GivesCaller(a)
    BY <2>1
  <2> QED
    BY <1>1, <1>2, <2>1, <2>2 DEF FittingSelectionFindsTheClient, GivesCaller, Fits, Caller, Appending
<1> QED
  BY <1>1, <1>3, <1>4, <1>5 DEF PathInvariant

\* The socket peer is the answer if nothing else is to be had.
LEMMA SocketAnswerKeepsPath ==
  ASSUME PathInvariant, Resolve, UNCHANGED path, PeerIsKnown, Answer(Socket(socket_ip)),
         config.trust = "TrustedProxies" /\ Strangers # {} =>
           \/ Nearest = Len(via)
           \/ hidden \cap (Nearest .. Len(via)) # {}
           \/ Unread(written[Chain.name]),
         config.trust = "TrustAllProxies" /\ Fits /\ config.client_ip_header = NoHeader =>
           Caller \in hidden \/ Unread(written[Chain.name])
  PROVE  PathInvariant'
<1> DEFINE a == Socket(socket_ip)
<1>1. socket_ip = CanonicalIp(Sender)
  BY DEF PathInvariant, ResolverInvariant, PeerState, RequestState, PeerIsKnown, MayRead, InChain
<1>2. a.source = "Socket" /\ a = Socket(CanonicalIp(Sender))
  BY <1>1 DEF Socket
<1> HIDE DEF a
<1>3. config.trust = "TrustedProxies" /\ Strangers # {} => GivesStranger(a)
  BY <1>2 DEF GivesStranger
<1>4. config.trust = "TrustAllProxies" /\ Strangers # {} => GivesCaller(a)
  BY <1>2 DEF GivesCaller
<1> QED
  BY <1>3, <1>4, AnswerKeepsPath DEF a

\* A step to anything but an answer keeps what is known of the chain.
LEMMA StepKeepsPath ==
  ASSUME PathInvariant, Resolve, UNCHANGED path, pc' # "done",
         Proxied => Listing(Rest', hops', via, hidden, Nearest, edge # 0, Chain.kind),
         UnreadState'
  PROVE  PathInvariant'
<1>1. /\ ResolverInvariant' /\ PathTypeOK' /\ RequestState' /\ EdgeState' /\ OwnHeaderState'
      /\ UNCHANGED <<config, request, via, written, hidden, edge>>
      /\ Strangers' = Strangers /\ Nearest' = Nearest /\ Proxied' = Proxied
      /\ Sender' = Sender /\ Chain' = Chain
  BY ResolveLeavesWay
<1>2. ChainOfProxies'
  BY <1>1 DEF PathInvariant, ChainOfProxies
<1>3. StrangersCannotChooseTheirAddress' /\ FittingSelectionFindsTheClient'
  BY DEF StrangersCannotChooseTheirAddress, FittingSelectionFindsTheClient
<1> QED
  BY <1>1, <1>2, <1>3 DEF PathInvariant

\* Nor does a step that does not touch it.
LEMMA OtherStepKeepsPath ==
  ASSUME PathInvariant, Resolve, UNCHANGED path, hops' = hops,
         pc \notin {"read", "scan", "pick", "done"}, pc' \notin {"read", "scan", "pick", "done"}
  PROVE  PathInvariant'
<1>1. Rest' = Rest
  BY ResolveLeavesWay DEF Rest
<1>2. Proxied => Listing(Rest', hops', via, hidden, Nearest, edge # 0, Chain.kind)
  BY <1>1 DEF PathInvariant, ChainOfProxies
<1>3. UnreadState'
  BY DEF UnreadState
<1> QED
  BY <1>2, <1>3, StepKeepsPath

LEMMA ExtractorKeepsPath ==
  ASSUME PathInvariant, UNCHANGED path, MissingConnectInfo \/ ExtractPeer
  PROVE  PathInvariant'
<1>1. ~MissingConnectInfo
  <2>1. SUFFICES ASSUME MissingConnectInfo PROVE FALSE
    OBVIOUS
  <2>2. via # <<>> /\ via \in Seq(IpAddr) /\ request.connect_info = Sender
    BY <2>1 DEF MissingConnectInfo, PathInvariant, PathTypeOK, RequestState
  <2>3. Sender \in IpAddr
    BY <2>2, SenderIsHost
  <2> QED
    BY <2>1, <2>2, <2>3, ResolverAssumption DEF MissingConnectInfo
<1>2. Resolve /\ pc = "extract" /\ pc' = "trust" /\ hops' = hops
  BY <1>1 DEF Resolve, ExtractPeer, ResolveClientIp
<1> QED
  BY <1>2, OtherStepKeepsPath

LEMMA TrustKeepsPath ==
  ASSUME PathInvariant, UNCHANGED path, TrustNoProxy \/ Stranger \/ TrustedPeer \/ TrustAnyPeer
  PROVE  PathInvariant'
<1>1. /\ config \in Configs /\ via \in Seq(IpAddr)
      /\ config.trust \in {"TrustedProxies", "TrustAllProxies"}
  BY FirstChainHeader DEF PathInvariant, PathTypeOK, ResolverInvariant, TypeOK
<1>2. CASE TrustNoProxy
  BY <1>1, <1>2 DEF TrustNoProxy
<1>3. CASE Stranger
  <2>1. /\ Resolve /\ pc = "trust" /\ PeerIsKnown /\ Answer(Socket(socket_ip))
        /\ config.trust = "TrustedProxies" /\ RuleFor(config.rules, socket_ip) = 0
    BY <1>3 DEF Resolve, Stranger, PeerIsKnown
  <2>2. via # <<>> /\ socket_ip = CanonicalIp(Sender)
    BY <2>1 DEF PathInvariant, RequestState, ResolverInvariant, PeerState
  <2>3. Sender \in IpAddr /\ Len(via) \in 1 .. Len(via) /\ NearestIsKnown
    BY <1>1, <2>2, SenderIsHost, NearestStranger
  <2>4. ~ReliedOn(via[Len(via)])
    BY <1>1, <2>1, <2>2, <2>3, ReliedOnMeansCovered DEF IsTrustedProxy, Sender
  <2>5. Strangers # {} => Nearest = Len(via)
    <3>1. ASSUME Strangers # {} PROVE ~(Len(via) > Nearest)
      BY <2>3, <2>4, <3>1 DEF NearestIsKnown
    <3>2. \A l \in Nat : \A n \in 1 .. l : ~(l > n) => n = l
      OBVIOUS
    <3> QED
      BY <2>3, <3>1, <3>2 DEF NearestIsKnown
  <2> QED
    BY <2>1, <2>5, SocketAnswerKeepsPath
<1>4. CASE TrustedPeer \/ TrustAnyPeer
  <2>1. Resolve /\ pc = "trust" /\ pc' = "client_ip_header" /\ hops' = hops
    BY <1>4 DEF Resolve, TrustedPeer, TrustAnyPeer, ReadHeaders
  <2> QED
    BY <2>1, OtherStepKeepsPath
<1> QED
  BY <1>2, <1>3, <1>4

LEMMA UseHeaderKeepsPath ==
  ASSUME PathInvariant, UNCHANGED path, UseClientIpHeader
  PROVE  PathInvariant'
<1> DEFINE a == ConfiguredHeader(HeaderIp(request.headers[header]), header)
<1>1. Resolve /\ MayRead /\ Answer(a) /\ header # NoHeader
  BY DEF Resolve, UseClientIpHeader, MayRead, Usable
<1>2. a.source = "ConfiguredHeader" /\ a.ip = HeaderIp(request.headers[header])
  BY DEF ConfiguredHeader
<1> HIDE DEF a
<1>3. Proxied => a.ip = CanonicalIp(via[Len(via) - 1])
  BY <1>2, HeaderGivesCaller
<1>4. config.trust = "TrustedProxies" /\ Strangers # {} => GivesStranger(a)
  BY <1>1, <1>2, <1>3, ReaderIsProxied DEF GivesStranger, Proxied
<1>5. config.trust = "TrustAllProxies" /\ Strangers # {} => GivesCaller(a)
  <2>1. SUFFICES ASSUME config.trust = "TrustAllProxies", Strangers # {} PROVE GivesCaller(a)
    OBVIOUS
  <2>2. config.client_ip_header # NoHeader
    BY <1>1, <2>1 DEF PathInvariant, RequestState
  <2>3. Appending > 0 => Proxied
    <3>1. Len(via) \in Nat /\ Nearest \in 1 .. Len(via)
      BY <2>1, NearestStranger DEF PathInvariant, PathTypeOK, NearestIsKnown
    <3> QED
      BY <2>1, <3>1 DEF Appending, Proxied
  <2> QED
    BY <1>3, <2>2, <2>3 DEF GivesCaller
<1> QED
  BY <1>1, <1>4, <1>5, AnswerKeepsPath DEF a

LEMMA ChainHeadersKeepPath ==
  ASSUME PathInvariant, UNCHANGED path,
         TurnToChainHeaders \/ NoChainHeaderLeft \/ SkipAbsentHeader \/ UnreadableList \/ OpenHeader
  PROVE  PathInvariant'
<1>1. CASE TurnToChainHeaders
  <2>1. Resolve /\ pc = "client_ip_header" /\ pc' = "chain" /\ hops' = hops
    BY <1>1 DEF Resolve, TurnToChainHeaders, call
  <2> QED
    BY <2>1, OtherStepKeepsPath
<1>2. CASE SkipAbsentHeader
  <2>1. Resolve /\ pc = "chain" /\ pc' = "chain" /\ hops' = hops
    BY <1>2 DEF Resolve, SkipAbsentHeader
  <2> QED
    BY <2>1, OtherStepKeepsPath
<1>3. CASE NoChainHeaderLeft
  <2>1. Resolve /\ MayRead /\ PeerIsKnown /\ Answer(Socket(socket_ip)) /\ tried > Len(Order)
    BY <1>3 DEF Resolve, NoChainHeaderLeft, MayRead, PeerIsKnown
  <2>2. ~Proxied
    <3>1. SUFFICES ASSUME Proxied PROVE FALSE
      OBVIOUS
    <3>2. tried = 1 /\ Len(Order) \in Nat \ {0}
      BY <2>1, <3>1, ProxiesChainIsTried, FirstChainHeader DEF PathInvariant, ResolverInvariant, TypeOK
    <3> QED
      BY <2>1, <3>2
  <2> QED
    BY <2>1, <2>2, ReaderIsProxied, CallerIsNearest, SocketAnswerKeepsPath
<1>4. CASE UnreadableList
  <2>1. Resolve /\ MayRead /\ PeerIsKnown /\ Answer(Socket(socket_ip)) /\ Unread(Values)
    BY <1>4 DEF Resolve, UnreadableList, MayRead, PeerIsKnown, Unread
  <2>2. Proxied => Unread(written[Chain.name])
    BY <2>1, ProxiesChainIsTried
  <2> QED
    BY <2>1, <2>2, ReaderIsProxied, CallerIsNearest, SocketAnswerKeepsPath
<1>5. CASE OpenHeader
  <2>1. /\ Resolve /\ MayRead /\ pc = "chain" /\ pc' = "read" /\ hops' = hops /\ unread' = Values
        /\ UNCHANGED <<config, request, tried>>
    BY <1>5 DEF Resolve, OpenHeader, MayRead
  <2>2. Proxied => Listing(Rest', hops', via, hidden, Nearest, edge # 0, Chain.kind)
    <3>1. Rest = written[Chain.name] /\ Rest' = Values
      BY <2>1 DEF Rest
    <3> QED
      BY <2>1, <3>1, ProxiesChainIsTried DEF PathInvariant, ChainOfProxies
  <2>3. UnreadState'
    BY <2>1 DEF UnreadState, Values, Order
  <2> QED
    BY <2>1, <2>2, <2>3, StepKeepsPath
<1> QED
  BY <1>1, <1>2, <1>3, <1>4, <1>5

LEMMA ReadingKeepsPath ==
  ASSUME PathInvariant, UNCHANGED path, UnreadableForwarded \/ ReadPart \/ NextValue \/ HopsRead
  PROVE  PathInvariant'
<1>1. /\ pc = "read" /\ MayRead /\ PeerIsKnown /\ Resolve
      /\ unread \in Seq(HeaderValue) /\ hops \in Seq(ChainEntry) /\ via \in Seq(IpAddr)
      /\ Proxied => Listing(unread, hops, via, hidden, Nearest, edge # 0, Chain.kind)
      /\ Unread(unread) <=> Unread(Values)
  BY DEF UnreadableForwarded, ReadPart, NextValue, HopsRead, MayRead, PeerIsKnown, InChain, Resolve,
         PathInvariant, PathTypeOK, ResolverInvariant, TypeOK, ChainOfProxies, UnreadState, Rest
<1>2. Proxied => Nearest \in Nat /\ Order[tried] = Chain /\ Values = written[Chain.name]
  BY <1>1, NearestStranger, ProxiesChainIsTried DEF Proxied, NearestIsKnown
<1>3. CASE UnreadableForwarded
  <2>1. Answer(Socket(socket_ip)) /\ unread # <<>> /\ ~Head(unread).readable
    BY <1>3 DEF UnreadableForwarded
  <2>2. Unread(unread)
    <3>1. 1 \in DOMAIN unread /\ Head(unread) = unread[1]
      BY <1>1, <2>1, HeadTailProperties, LenProperties, EmptySeq
    <3> QED
      BY <2>1, <3>1 DEF Unread
  <2> QED
    BY <1>1, <1>2, <2>1, <2>2, ReaderIsProxied, CallerIsNearest, SocketAnswerKeepsPath
<1>4. CASE ReadPart
  <2> DEFINE part == Head(Head(unread).parts)
             hop  == Entry(Order[tried].kind, part)
  <2>1. /\ unread # <<>> /\ Head(unread).readable /\ Head(unread).parts # <<>>
        /\ pc' = "read" /\ UNCHANGED <<config, request, tried>>
        /\ unread' = [unread EXCEPT ![1].parts = Tail(@)]
        /\ hops' = IF part.text = "empty" THEN hops ELSE Append(hops, hop)
    BY <1>1, <1>4 DEF ReadPart
  <2>2. Proxied => Listing(unread', hops', via, hidden, Nearest, edge # 0, Chain.kind)
    BY <1>1, <1>2, <2>1, ReadsPart
  <2>3. Unread(unread') <=> Unread(unread)
    BY <1>1, <2>1, PartsReadable
  <2>4. UnreadState' /\ Rest' = unread'
    BY <1>1, <2>1, <2>3 DEF UnreadState, Values, Order, Rest
  <2> QED
    BY <1>1, <2>1, <2>2, <2>4, StepKeepsPath
<1>5. CASE NextValue
  <2>1. /\ unread # <<>> /\ Head(unread).readable /\ Head(unread).parts = <<>>
        /\ pc' = "read" /\ UNCHANGED <<config, request, tried, hops>> /\ unread' = Tail(unread)
    BY <1>1, <1>5 DEF NextValue
  <2>2. Proxied => Listing(unread', hops', via, hidden, Nearest, edge # 0, Chain.kind)
    BY <1>1, <1>2, <2>1, ReadsLine
  <2>3. Unread(unread') <=> Unread(unread)
    BY <1>1, <2>1, TailReadable
  <2>4. UnreadState' /\ Rest' = unread'
    BY <1>1, <2>1, <2>3 DEF UnreadState, Values, Order, Rest
  <2> QED
    BY <1>1, <2>1, <2>2, <2>4, StepKeepsPath
<1>6. CASE HopsRead
  <2>1. /\ unread = <<>> /\ pc' \in {"scan", "pick"}
        /\ UNCHANGED <<config, request, tried, hops>>
    BY <1>6 DEF HopsRead, call
  <2>2. ~Unread(unread)
    BY <2>1 DEF Unread
  <2>3. UnreadState' /\ Rest' = unread
    BY <1>1, <2>1, <2>2 DEF UnreadState, Values, Order, Rest
  <2> QED
    BY <1>1, <2>1, <2>3, StepKeepsPath
<1> QED
  BY <1>3, <1>4, <1>5, <1>6

(***************************************************************************)
(* The scan is still among the hosts from the stranger on: it does not     *)
(* walk past the stranger's hop.                                           *)
(***************************************************************************)
LEMMA ScanIsAmongHosts ==
  ASSUME PathInvariant, pc = "scan", Strangers # {}
  PROVE  LET i == Len(via) - 1 - (Len(hops) - left)
         IN  /\ Proxied /\ i \in Nearest .. Len(via) - 1 /\ left \in 1 .. Len(hops)
             /\ hops[left] = HopOf(via, hidden, i)
<1> DEFINE start == Len(hops) - (Len(via) - 1 - Nearest)
           i     == Len(via) - 1 - (Len(hops) - left)
<1>1. /\ config \in Configs /\ config.trust = "TrustedProxies" /\ via \in Seq(IpAddr)
      /\ hops \in Seq(ChainEntry) /\ left \in 0 .. Len(hops)
      /\ \A k \in left + 1 .. Len(hops) : hops[k] # Opaque /\ Covers(hops[k].ip) # {}
  BY DEF PathInvariant, PathTypeOK, ResolverInvariant, TypeOK, ScanState
<1>2. Proxied
  BY <1>1, ReaderIsProxied DEF MayRead, InChain
<1>3. /\ Len(via) \in Nat /\ Nearest \in 1 .. Len(via) /\ Nearest < Len(via) /\ Len(hops) \in Nat
      /\ via[Nearest] \in IpAddr /\ ~ReliedOn(via[Nearest])
  BY <1>1, <1>2, NearestStranger, LenProperties DEF NearestIsKnown, Proxied
<1>4. \A n \in Nearest .. Len(via) - 1 :
        /\ Len(hops) >= Len(via) - n
        /\ hops[Len(hops) - (Len(via) - 1 - n)] = HopOf(via, hidden, n)
  BY <1>2, HopsOfProxies
<1>5. Nearest \in Nearest .. Len(via) - 1
  BY <1>3
<1>6. hops[start] = HopOf(via, hidden, Nearest) /\ start \in 1 .. Len(hops)
  <2>1. Len(hops) >= Len(via) - Nearest /\ hops[start] = HopOf(via, hidden, Nearest)
    BY <1>4, <1>5
  <2> QED
    BY <1>3, <2>1
<1>7. hops[start] = Opaque \/ Covers(hops[start].ip) = {}
  <2>1. Covers(CanonicalIp(via[Nearest])) = {}
    BY <1>1, <1>3, ReliedOnMeansCovered
  <2> QED
    BY <1>6, <2>1 DEF HopOf, Ip
<1>8. start <= left
  <2>1. start \notin left + 1 .. Len(hops)
    BY <1>1, <1>7
  <2>2. start \in Int /\ left \in Int
    BY <1>1, <1>6
  <2> QED
    BY <1>3, <1>6, <2>1, <2>2
<1>9. /\ i \in Nearest .. Len(via) - 1 /\ left \in 1 .. Len(hops)
      /\ Len(hops) - (Len(via) - 1 - i) = left
  BY <1>1, <1>3, <1>6, <1>8
<1>10. hops[left] = HopOf(via, hidden, i)
  <2>1. hops[Len(hops) - (Len(via) - 1 - i)] = HopOf(via, hidden, i)
    BY <1>4, <1>9
  <2> QED
    BY <1>9, <2>1
<1> QED
  BY <1>2, <1>9, <1>10

LEMMA ScanKeepsPath ==
  ASSUME PathInvariant, UNCHANGED path, WalkPastProxy \/ StopAtStranger \/ StopAtOpaque \/ RunOut
  PROVE  PathInvariant'
<1> DEFINE i == Len(via) - 1 - (Len(hops) - left)
<1>1. /\ pc = "scan" /\ MayRead /\ PeerIsKnown /\ Resolve /\ config.trust = "TrustedProxies"
      /\ config \in Configs /\ via \in Seq(IpAddr)
  BY DEF WalkPastProxy, StopAtStranger, StopAtOpaque, RunOut, MayRead, PeerIsKnown, InChain, Resolve,
         PathInvariant, PathTypeOK, ResolverInvariant, TypeOK, ScanState
<1>2. Strangers # {} =>
        /\ Proxied /\ i \in Nearest .. Len(via) - 1 /\ left \in 1 .. Len(hops)
        /\ hops[left] = HopOf(via, hidden, i)
  BY <1>1, ScanIsAmongHosts
<1>3. NearestIsKnown
  BY <1>1, NearestStranger
<1> HIDE DEF i
<1>4. CASE WalkPastProxy
  <2>1. pc' = "scan" /\ UNCHANGED <<config, request, tried, hops, unread>>
    BY <1>1, <1>4 DEF WalkPastProxy
  <2>2. Rest' = Rest /\ UnreadState'
    BY <1>1, <2>1 DEF Rest, UnreadState, Values, Order, PathInvariant
  <2> QED
    BY <1>1, <2>1, <2>2, StepKeepsPath DEF PathInvariant, ChainOfProxies
<1>5. CASE StopAtStranger
  <2> DEFINE a == FromChain(Last.ip, Order[tried].name)
  <2>1. Answer(a) /\ Last # Opaque /\ ~IsTrustedProxy(Last.ip)
    BY <1>5 DEF StopAtStranger
  <2>2. a.source = "ChainHeader" /\ a.ip = Last.ip
    BY DEF FromChain
  <2> HIDE DEF a
  <2>3. ASSUME Strangers # {} PROVE GivesStranger(a)
    <3>1. /\ Proxied /\ i \in Nearest .. Len(via) - 1 /\ Last = HopOf(via, hidden, i)
          /\ Nearest \in 1 .. Len(via) /\ Len(via) \in Nat
      BY <1>2, <1>3, <2>3 DEF Last, NearestIsKnown
    <3>2. Last.ip = CanonicalIp(via[i])
      BY <2>1, <3>1 DEF HopOf, Ip
    <3>3. i \in 1 .. Len(via) /\ i >= Nearest
      BY <3>1
    <3>4. via[i] \in IpAddr
      BY <1>1, <3>3, ElementOfSeq
    <3>5. ~ReliedOn(via[i])
      BY <1>1, <2>1, <3>2, <3>4, ReliedOnMeansCovered
    <3>6. ~(i > Nearest)
      BY <1>3, <2>3, <3>3, <3>5 DEF NearestIsKnown
    <3>7. i = Nearest
      BY <3>1, <3>3, <3>6
    <3> QED
      BY <2>2, <3>1, <3>2, <3>7 DEF GivesStranger, Proxied
  <2> QED
    BY <1>1, <2>1, <2>3, AnswerKeepsPath DEF a
<1>6. CASE StopAtOpaque \/ RunOut
  <2>1. Answer(Socket(socket_ip)) /\ (left = 0 \/ Last = Opaque)
    BY <1>6 DEF StopAtOpaque, RunOut
  <2>2. ASSUME Strangers # {} PROVE hidden \cap (Nearest .. Len(via)) # {}
    <3>1. /\ i \in Nearest .. Len(via) - 1 /\ left \in 1 .. Len(hops)
          /\ hops[left] = HopOf(via, hidden, i)
          /\ Nearest \in 1 .. Len(via) /\ Len(via) \in Nat
      BY <1>2, <1>3, <2>2 DEF NearestIsKnown
    <3>2. hops[left] = Opaque
      BY <2>1, <3>1 DEF Last
    <3>3. i \in hidden
      BY <3>1, <3>2 DEF HopOf, Opaque, Ip
    <3>4. i \in Nearest .. Len(via)
      BY <3>1
    <3> QED
      BY <3>3, <3>4
  <2> QED
    BY <1>1, <2>1, <2>2, SocketAnswerKeepsPath
<1> QED
  BY <1>4, <1>5, <1>6

LEMMA PickKeepsPath ==
  ASSUME PathInvariant, UNCHANGED path, PickHop
  PROVE  PathInvariant'
<1> DEFINE position == Position(config.chain_ip_selection)
           a        == IF Picked(position) THEN FromChain(hops[position].ip, Order[tried].name)
                                           ELSE Socket(socket_ip)
<1>1. /\ pc = "pick" /\ MayRead /\ PeerIsKnown /\ Resolve /\ Answer(a)
      /\ config.trust = "TrustAllProxies" /\ via \in Seq(IpAddr) /\ hops \in Seq(ChainEntry)
      /\ socket_ip = CanonicalIp(Sender) /\ ~Unread(Values)
  BY DEF PickHop, MayRead, PeerIsKnown, InChain, Resolve, PathInvariant, PathTypeOK,
         ResolverInvariant, TypeOK, ScanState, PeerState, RequestState, UnreadState
<1>2. a.source # "ConfiguredHeader"
  BY DEF FromChain, Socket
<1>3. ASSUME Fits
      PROVE  a = IF Caller \in hidden \/ Unread(written[Chain.name])
                   THEN Socket(CanonicalIp(Sender))
                   ELSE FromChain(CanonicalIp(via[Caller]), Chain.name)
  <2>1. Proxied /\ Caller = Nearest /\ position = Len(hops) - (Len(via) - 1 - Nearest)
    BY <1>1, <1>3, CallerIsNearest
  <2>2. /\ Nearest \in 1 .. Len(via) /\ Nearest < Len(via) /\ Len(via) \in Nat
        /\ Len(hops) \in Nat /\ DOMAIN hops = 1 .. Len(hops)
    BY <1>1, <2>1, NearestStranger, LenProperties DEF NearestIsKnown, Proxied
  <2>3. Nearest \in Nearest .. Len(via) - 1
    BY <2>2
  <2>4. /\ Len(hops) >= Len(via) - Nearest
        /\ hops[Len(hops) - (Len(via) - 1 - Nearest)] = HopOf(via, hidden, Nearest)
    BY <1>1, <2>1, <2>3, HopsOfProxies
  <2>5. ~Unread(written[Chain.name]) /\ Order[tried].name = Chain.name
    BY <1>1, <2>1, ProxiesChainIsTried
  <2>6. position \in DOMAIN hops /\ hops[position] = HopOf(via, hidden, Nearest)
    BY <2>1, <2>2, <2>4
  <2> HIDE DEF position
  <2>7. CASE Nearest \in hidden
    BY <1>1, <2>1, <2>6, <2>7 DEF Picked, HopOf
  <2>8. CASE Nearest \notin hidden
    BY <2>1, <2>5, <2>6, <2>8 DEF Picked, HopOf, Opaque, Ip
  <2> QED
    BY <2>7, <2>8
<1> HIDE DEF a
<1>4. GivesCaller(a)
  BY <1>2, <1>3 DEF GivesCaller
<1> QED
  BY <1>1, <1>4, AnswerKeepsPath

-----------------------------------------------------------------------------
(* Theorems.                                                                *)

LEMMA PathInitInvariant == PathInit => PathInvariant
<1> SUFFICES ASSUME PathInit PROVE PathInvariant
  OBVIOUS
<1>1. ResolverInvariant /\ pc = "idle"
  BY InitInvariant DEF PathInit, Init
<1>2. via = <<>> /\ written = NoHeaders /\ hidden = {} /\ edge = 0
  BY DEF PathInit
<1>3. PathTypeOK
  <2>1. NoHeaders \in [HeaderName -> Seq(HeaderValue)] /\ <<>> \in Seq(IpAddr)
    BY EmptySeq DEF NoHeaders
  <2> QED
    BY <1>2, <2>1 DEF PathTypeOK
<1>4. ~Proxied
  <2>1. NearestIsKnown /\ Len(via) = 0
    BY <1>2, <1>3, NearestStranger DEF PathTypeOK
  <2> QED
    BY <2>1 DEF NearestIsKnown, Proxied
<1> QED
  BY <1>1, <1>2, <1>3, <1>4 DEF PathInvariant, RequestState, EdgeState, ChainOfProxies,
       OwnHeaderState, UnreadState, MayRead, InChain, StrangersCannotChooseTheirAddress,
       FittingSelectionFindsTheClient

LEMMA PathNextInvariant == PathInvariant /\ [PathNext]_<<vars, path>> => PathInvariant'
<1> SUFFICES ASSUME PathInvariant, [PathNext]_<<vars, path>> PROVE PathInvariant'
  OBVIOUS
<1>1. CASE \E client \in Clients, headers \in Written : Depart(client, headers)
  BY <1>1, DepartKeepsInvariant
<1>2. CASE \E host \in Hosts, manner \in Manners, adds_line \in BOOLEAN :
             Relay(host, manner, adds_line)
  BY <1>2, RelayKeepsInvariant
<1>3. CASE \E host \in Hosts, manner \in Manners : Overwrite(host, manner)
  BY <1>3, OverwriteKeepsInvariant
<1>4. CASE \E host \in Hosts, headers \in Written : Invent(host, headers)
  BY <1>4, InventKeepsInvariant
<1>5. CASE Arrive
  BY <1>5, ArriveKeepsInvariant
<1>6. CASE Forget
  BY <1>6, ForgetKeepsInvariant
<1>7. CASE Resolve /\ UNCHANGED path
  BY <1>7, ExtractorKeepsPath, TrustKeepsPath, UseHeaderKeepsPath, ChainHeadersKeepPath,
     ReadingKeepsPath, ScanKeepsPath, PickKeepsPath DEF Resolve
<1>8. CASE UNCHANGED <<vars, path>>
  <2>1. ResolverInvariant'
    BY <1>8, NextInvariant DEF PathInvariant
  <2>2. /\ UNCHANGED <<config, pc, request, socket_ip, header, tried, unread, hops, left, answer>>
        /\ UNCHANGED <<via, written, hidden, edge>>
    BY <1>8 DEF vars, call, path
  <2>3. /\ Strangers' = Strangers /\ Nearest' = Nearest /\ Proxied' = Proxied
        /\ Sender' = Sender /\ Chain' = Chain
    BY <2>2, WayStays
  <2>4. PathTypeOK' /\ RequestState' /\ EdgeState' /\ ChainOfProxies' /\ UnreadState'
    BY <2>2, <2>3 DEF PathInvariant, PathTypeOK, RequestState, EdgeState, ChainOfProxies, Rest,
                      UnreadState, Values, Order, MayRead, InChain
  <2>5. OwnHeaderState'
    BY <2>2, <2>3 DEF PathInvariant, OwnHeaderState, OwnHeader
  <2>6. StrangersCannotChooseTheirAddress'
    BY <2>2, <2>3 DEF PathInvariant, StrangersCannotChooseTheirAddress
  <2>7. FittingSelectionFindsTheClient'
    BY <2>2, <2>3 DEF PathInvariant, FittingSelectionFindsTheClient, Appending
  <2> QED
    BY <2>1, <2>4, <2>5, <2>6, <2>7 DEF PathInvariant
<1> QED
  BY <1>1, <1>2, <1>3, <1>4, <1>5, <1>6, <1>7, <1>8 DEF PathNext

(***************************************************************************)
(* Every state of a request's way satisfies the inductive invariant.       *)
(***************************************************************************)
THEOREM PathInvariantHolds == PathSpec => []PathInvariant
BY PathInitInvariant, PathNextInvariant, PTL DEF PathSpec

(***************************************************************************)
(* With trusted proxies, nothing that a stranger or a host behind it has   *)
(* written changes who the client is taken to be: the host nearest to the  *)
(* service that no rule covers, on ways of any length, whatever rules and  *)
(* proxies there are and in whichever way each of them adds the sender.    *)
(***************************************************************************)
THEOREM ClientIsNearestStranger == PathSpec => []StrangersCannotChooseTheirAddress
<1>1. PathInvariant => StrangersCannotChooseTheirAddress
  BY DEF PathInvariant
<1> QED
  BY <1>1, PathInvariantHolds, PTL

(***************************************************************************)
(* When all proxies are trusted, a selection that fits the deployment      *)
(* finds the host that called the first of the proxies.                    *)
(***************************************************************************)
THEOREM SelectionFindsCaller == PathSpec => []FittingSelectionFindsTheClient
<1>1. PathInvariant => FittingSelectionFindsTheClient
  BY DEF PathInvariant
<1> QED
  BY <1>1, PathInvariantHolds, PTL

=============================================================================
