--------------------------- MODULE IpSpaceProofs ---------------------------
(***************************************************************************)
(* Facts about addresses and networks, for every size of the two address   *)
(* spaces and every set of prefix lengths that IpSpaceAssumption allows.   *)
(***************************************************************************)
EXTENDS IpSpace, TLAPS, WellFoundedInduction

(***************************************************************************)
(* The least-number principle, for a set.  Induction over a number n is    *)
(* done with it: of the numbers for which a claim fails there is a least.  *)
(***************************************************************************)
LEMMA LeastOfSet ==
  ASSUME NEW T \in SUBSET Nat, T # {}
  PROVE  \E n \in T : \A m \in T : n <= m
<1> DEFINE R == {pair \in Nat \X Nat : pair[1] < pair[2]}
<1>1. IsWellFoundedOn(R, Nat)
  BY NatLessThanWellFounded DEF OpToRel
<1>2. \A x, y \in Nat : y < x => <<y, x>> \in R
  OBVIOUS
<1> HIDE DEF R
<1>3. PICK n \in T : \A m \in T : <<m, n>> \notin R
  BY <1>1, WFMin
<1>4. \A m \in T : ~(m < n)
  BY <1>2, <1>3
<1>5. \A m \in T : n <= m
  BY <1>4
<1> QED
  BY <1>5

\* Induction up to a number, over the set of those for which a claim holds.
LEMMA InductionUpTo ==
  ASSUME NEW count \in Nat, NEW T, 0 \in T,
         \A n \in 1 .. count : n - 1 \in T => n \in T
  PROVE  \A n \in 0 .. count : n \in T
<1> DEFINE Fails == {n \in 0 .. count : n \notin T}
<1>1. ASSUME Fails # {} PROVE FALSE
  <2>1. Fails \in SUBSET Nat
    OBVIOUS
  <2>2. PICK n \in Fails : \A m \in Fails : n <= m
    BY <1>1, <2>1, LeastOfSet
  <2>3. n # 0
    BY <2>2
  <2>4. n \in 1 .. count /\ n - 1 \in 0 .. count /\ n - 1 < n
    BY <2>3
  <2>5. n - 1 \notin Fails
    BY <2>2, <2>4
  <2> QED
    BY <2>2, <2>4, <2>5
<1> QED
  BY <1>1

(***************************************************************************)
(* Recursion over 0 .. count: there is a function that starts with base    *)
(* and goes on by next, and it is the only one.  What a recursive function *)
(* of the model is, the lemmas about it learn from these two.              *)
(***************************************************************************)
Follows(f, base, next, count) ==
  f[0] = base /\ \A n \in 1 .. count : f[n] = next[<<n, f[n - 1]>>]

LEMMA RecursionExists ==
  ASSUME NEW S, NEW base \in S, NEW count \in Nat, NEW next \in [(1 .. count) \X S -> S]
  PROVE  \E f \in [0 .. count -> S] : Follows(f, base, next, count)
<1> USE DEF Follows
<1> DEFINE Reaches(m) == \E f \in [0 .. m -> S] :
             f[0] = base /\ \A n \in 1 .. m : f[n] = next[<<n, f[n - 1]>>]
           Reached == {m \in 0 .. count : Reaches(m)}
<1>1. Reaches(0)
  <2> DEFINE f == [n \in 0 .. 0 |-> base]
  <2>1. f \in [0 .. 0 -> S] /\ f[0] = base /\ 1 .. 0 = {}
    OBVIOUS
  <2> HIDE DEF f
  <2>2. \A n \in 1 .. 0 : f[n] = next[<<n, f[n - 1]>>]
    BY <2>1
  <2> QED
    BY <2>1, <2>2
<1>2. ASSUME NEW m \in Nat, m < count, Reaches(m) PROVE Reaches(m + 1)
  <2>1. PICK f \in [0 .. m -> S] : f[0] = base /\ \A n \in 1 .. m : f[n] = next[<<n, f[n - 1]>>]
    BY <1>2
  <2>2. m \in 0 .. m /\ m + 1 \in 1 .. count
    BY <1>2
  <2>3. next[<<m + 1, f[m]>>] \in S
    BY <2>1, <2>2
  <2> DEFINE g == [n \in 0 .. m + 1 |-> IF n <= m THEN f[n] ELSE next[<<m + 1, f[m]>>]]
  <2>4. g \in [0 .. m + 1 -> S]
    BY <2>1, <2>3
  <2>5. \A n \in 0 .. m : g[n] = f[n]
    OBVIOUS
  <2>6. g[m + 1] = next[<<m + 1, f[m]>>]
    OBVIOUS
  <2> HIDE DEF g
  <2>7. g[0] = base
    BY <2>1, <2>5
  <2>8. ASSUME NEW n \in 1 .. m + 1 PROVE g[n] = next[<<n, g[n - 1]>>]
    <3>1. CASE n <= m
      <4>1. n \in 1 .. m /\ n \in 0 .. m /\ n - 1 \in 0 .. m
        BY <3>1
      <4> QED
        BY <4>1, <2>1, <2>5
    <3>2. CASE n = m + 1
      <4>1. n - 1 = m
        BY <3>2
      <4> QED
        BY <4>1, <3>2, <2>2, <2>5, <2>6
    <3> QED
      BY <3>1, <3>2
  <2> QED
    BY <2>4, <2>7, <2>8
<1> HIDE DEF Reaches
<1>3. 0 \in Reached
  BY <1>1
<1>4. ASSUME NEW n \in 1 .. count, n - 1 \in Reached PROVE n \in Reached
  <2>1. n - 1 \in Nat /\ n - 1 < count /\ (n - 1) + 1 = n
    OBVIOUS
  <2> QED
    BY <1>2, <1>4, <2>1
<1> HIDE DEF Reached
<1>5. count \in Reached
  BY <1>3, <1>4, InductionUpTo
<1> QED
  BY <1>5 DEF Reached, Reaches

LEMMA RecursionAgrees ==
  ASSUME NEW count \in Nat, NEW f, NEW g, f[0] = g[0],
         \A n \in 1 .. count : f[n - 1] = g[n - 1] => f[n] = g[n]
  PROVE  \A n \in 0 .. count : f[n] = g[n]
<1> DEFINE Same == {n \in 0 .. count : f[n] = g[n]}
<1>1. 0 \in Same
  OBVIOUS
<1>2. ASSUME NEW n \in 1 .. count, n - 1 \in Same PROVE n \in Same
  BY <1>2
<1> HIDE DEF Same
<1>3. \A n \in 0 .. count : n \in Same
  BY <1>1, <1>2, InductionUpTo
<1> QED
  BY <1>3 DEF Same

\* The largest of some positions.
LEMMA LargestIsChosen ==
  ASSUME NEW n \in Nat, NEW S \in SUBSET (1 .. n), S # {}
  PROVE  LET c == CHOOSE i \in S : \A j \in S : i >= j
         IN  c \in S /\ \A j \in S : c >= j
<1> DEFINE T == {k \in Nat : \E i \in S : k = n - i}
<1>1. T \in SUBSET Nat /\ T # {}
  <2>1. PICK i \in S : TRUE
    OBVIOUS
  <2>2. n - i \in T
    BY <2>1
  <2> QED
    BY <2>2
<1>2. PICK k \in T : \A l \in T : k <= l
  BY <1>1, LeastOfSet
<1>3. PICK i \in S : k = n - i
  BY <1>2
<1>4. \A j \in S : n - j \in T
  OBVIOUS
<1>5. \A j \in S : i >= j
  BY <1>2, <1>3, <1>4
<1> QED
  BY <1>3, <1>5

(***************************************************************************)
(* Multiplication is beyond linear arithmetic, so the two facts that block *)
(* alignment needs are stated once.                                        *)
(***************************************************************************)
LEMMA ProductMonotone ==
  ASSUME NEW a \in Int, NEW b \in Int, NEW s \in Nat, a <= b
  PROVE  a * s <= b * s
<1>1. (b - a) * s >= 0
  BY SMT
<1>2. (b - a) * s = b * s - a * s
  BY SMT
<1> QED
  BY <1>1, <1>2, SMT

LEMMA ProductCancel ==
  ASSUME NEW a \in Int, NEW b \in Int, NEW s \in Nat \ {0}, a * s < b * s
  PROVE  a < b
<1>1. SUFFICES ASSUME b <= a PROVE FALSE
  OBVIOUS
<1>2. b * s <= a * s
  BY <1>1, ProductMonotone
<1> QED
  BY <1>2, SMT

(***************************************************************************)
(* Two blocks whose sizes divide one another are nested or apart: with     *)
(* d.first = l * m * s and c.first = k * s, the small block c lies before, *)
(* inside or behind the large one, as k does to l * m and (l + 1) * m.     *)
(***************************************************************************)
LEMMA SmallBlockNestsOrNot ==
  ASSUME NEW base \in Int,
         NEW s \in Nat \ {0}, NEW m \in Nat, NEW k \in Nat, NEW l \in Nat,
         NEW cf \in Int, NEW cl \in Int, NEW df \in Int, NEW dl \in Int,
         cf = base + k * s, cl = cf + s - 1,
         df = base + l * (m * s), dl = df + m * s - 1
  PROVE  cl < df \/ dl < cf \/ (df <= cf /\ cl <= dl)
<1> DEFINE lm == l * m
           um == lm + m
<1>1. lm \in Nat /\ um \in Nat
  BY SMT
<1>2. df = base + lm * s
  BY SMT
<1>3. dl = base + um * s - 1
  BY <1>2, SMT
<1>4. cl = base + (k + 1) * s - 1
  BY SMT
<1> HIDE DEF lm, um
<1>5. CASE k + 1 <= lm
  <2>1. (k + 1) * s <= lm * s
    BY <1>5, <1>1, ProductMonotone
  <2> QED
    BY <2>1, <1>1, <1>2, <1>4, SMT
<1>6. CASE um <= k
  <2>1. um * s <= k * s
    BY <1>6, <1>1, ProductMonotone
  <2> QED
    BY <2>1, <1>1, <1>3, SMT
<1>7. CASE lm <= k /\ k + 1 <= um
  <2>1. lm * s <= k * s
    BY <1>7, <1>1, ProductMonotone
  <2>2. (k + 1) * s <= um * s
    BY <1>7, <1>1, ProductMonotone
  <2> QED
    BY <2>1, <2>2, <1>1, <1>2, <1>3, <1>4, SMT
<1> QED
  BY <1>1, <1>5, <1>6, <1>7, SMT

LEMMA CountsAreNumbers ==
  /\ V4Count \in Nat \ {0} /\ V6Count \in Nat \ {0}
  /\ MappedOffset \in Nat /\ MappedFirst \in Nat /\ V4Count <= MappedFirst
  /\ MappedFirst + V4Count <= V4Count + V6Count
<1>1. PICK j \in 0..V6Count : MappedOffset = j * V4Count
  BY IpSpaceAssumption
<1>2. j * V4Count \in Nat
  BY IpSpaceAssumption, SMT
<1> QED
  BY <1>1, <1>2, IpSpaceAssumption DEF MappedFirst

\* Canonical forms are addresses, and never mapped ones.
LEMMA CanonicalIpIsCanonical ==
  ASSUME NEW ip \in IpAddr
  PROVE  CanonicalIp(ip) \in IpAddr /\ ~IsMapped(CanonicalIp(ip))
BY CountsAreNumbers DEF CanonicalIp, IsMapped, IpAddr

(***************************************************************************)
(* A network is a block of one family, with at least one address.          *)
(***************************************************************************)
LEMMA NetworkBounds ==
  ASSUME NEW c \in IpCidr
  PROVE  /\ c.first \in Int /\ c.last \in Int /\ c.first \in IpAddr /\ c.last \in IpAddr
         /\ c = [first |-> c.first, last |-> c.last]
         /\ c.first <= c.last
         /\ Size(c) \in BlockSizes /\ Size(c) \in Nat \ {0}
         /\ \/ IsBlock(c, 0, V4Count) /\ c.last < V4Count
            \/ IsBlock(c, V4Count, V6Count) /\ V4Count <= c.first
<1>1. c \in [first : IpAddr, last : IpAddr]
  BY DEF IpCidr
<1>2. c.first \in Int /\ c.last \in Int /\ c = [first |-> c.first, last |-> c.last]
  BY <1>1, CountsAreNumbers DEF IpAddr
<1>3. IsBlock(c, 0, V4Count) \/ IsBlock(c, V4Count, V6Count)
  BY DEF IpCidr
<1>4. Size(c) \in BlockSizes /\ Size(c) \in Nat \ {0}
  BY <1>3, IpSpaceAssumption DEF IsBlock
<1>5. c.first <= c.last
  BY <1>2, <1>4 DEF Size
<1>6. ASSUME IsBlock(c, 0, V4Count) PROVE c.last < V4Count
  BY <1>6, <1>2, CountsAreNumbers DEF IsBlock
<1>7. ASSUME IsBlock(c, V4Count, V6Count) PROVE V4Count <= c.first
  <2>1. PICK k \in 0..V6Count : c.first = V4Count + k * Size(c)
    BY <1>7 DEF IsBlock
  <2>2. k * Size(c) \in Nat
    BY <1>4, CountsAreNumbers, SMT
  <2> QED
    BY <2>1, <2>2, CountsAreNumbers
<1> QED
  BY <1>1, <1>2, <1>3, <1>4, <1>5, <1>6, <1>7

(***************************************************************************)
(* Blocks of one family, the first of them no larger than the second.      *)
(***************************************************************************)
LEMMA SmallerNetworkNestsOrNot ==
  ASSUME NEW c \in IpCidr, NEW d \in IpCidr, Size(c) <= Size(d),
         NEW base \in Nat, NEW count \in Nat,
         IsBlock(c, base, count), IsBlock(d, base, count)
  PROVE  c.last < d.first \/ d.last < c.first \/ (d.first <= c.first /\ c.last <= d.last)
<1>1. PICK m \in 1..Size(d) : Size(d) = m * Size(c)
  BY NetworkBounds, IpSpaceAssumption
<1>2. PICK k \in 0..count : c.first = base + k * Size(c)
  BY DEF IsBlock
<1>3. PICK l \in 0..count : d.first = base + l * Size(d)
  BY DEF IsBlock
<1>4. d.first = base + l * (m * Size(c))
  BY <1>1, <1>3
<1>5. c.last = c.first + Size(c) - 1 /\ d.last = d.first + m * Size(c) - 1
  BY <1>1, NetworkBounds DEF Size
<1>6. m \in Nat /\ k \in Nat /\ l \in Nat
  BY NetworkBounds
<1> QED
  BY <1>2, <1>4, <1>5, <1>6, NetworkBounds, SmallBlockNestsOrNot

(***************************************************************************)
(* "Two networks of one address family are either nested or disjoint", and *)
(* "every IPv4 address sorts before every IPv6 address" (cidr_merge.rs).   *)
(***************************************************************************)
THEOREM NestedOrDisjoint ==
  ASSUME NEW c \in IpCidr, NEW d \in IpCidr
  PROVE  \/ c.last < d.first
         \/ d.last < c.first
         \/ d.first <= c.first /\ c.last <= d.last
         \/ c.first <= d.first /\ d.last <= c.last
<1>1. CASE c.last < V4Count /\ V4Count <= d.first
  BY <1>1, NetworkBounds, CountsAreNumbers
<1>2. CASE d.last < V4Count /\ V4Count <= c.first
  BY <1>2, NetworkBounds, CountsAreNumbers
<1>3. ASSUME NEW base \in Nat, NEW count \in Nat,
             IsBlock(c, base, count), IsBlock(d, base, count)
      PROVE  \/ c.last < d.first
             \/ d.last < c.first
             \/ d.first <= c.first /\ c.last <= d.last
             \/ c.first <= d.first /\ d.last <= c.last
  <2>1. CASE Size(c) <= Size(d)
    BY <1>3, <2>1, SmallerNetworkNestsOrNot
  <2>2. CASE Size(d) <= Size(c)
    BY <1>3, <2>2, SmallerNetworkNestsOrNot
  <2> QED
    BY <2>1, <2>2, NetworkBounds
<1>4. CASE IsBlock(c, 0, V4Count) /\ IsBlock(d, 0, V4Count)
  BY <1>3, <1>4, CountsAreNumbers
<1>5. CASE IsBlock(c, V4Count, V6Count) /\ IsBlock(d, V4Count, V6Count)
  BY <1>3, <1>5, CountsAreNumbers
<1> QED
  BY <1>1, <1>2, <1>4, <1>5, NetworkBounds

(***************************************************************************)
(* Networks share an address exactly if each begins before the other ends. *)
(***************************************************************************)
LEMMA OverlapOfIntervals ==
  ASSUME NEW c \in IpCidr, NEW d \in IpCidr
  PROVE  Overlap(c, d) <=> c.first <= d.last /\ d.first <= c.last
<1>1. ASSUME Overlap(c, d) PROVE c.first <= d.last /\ d.first <= c.last
  BY <1>1, NetworkBounds, CountsAreNumbers DEF Overlap, Contains, IpAddr
<1>2. ASSUME c.first <= d.last, d.first <= c.last PROVE Overlap(c, d)
  <2>1. CASE c.first <= d.first
    BY <1>2, <2>1, NetworkBounds DEF Overlap, Contains
  <2>2. CASE d.first <= c.first
    BY <1>2, <2>2, NetworkBounds DEF Overlap, Contains
  <2> QED
    BY <2>1, <2>2, NetworkBounds
<1> QED
  BY <1>1, <1>2

(***************************************************************************)
(* Rewriting a network to its IPv4 form gives a network.                   *)
(***************************************************************************)
THEOREM CanonicalCidrIsNetwork ==
  ASSUME NEW c \in IpCidr
  PROVE  CanonicalCidr(c) \in IpCidr
<1>1. CASE ~(Size(c) <= V4Count /\ IsMapped(c.first))
  BY <1>1 DEF CanonicalCidr
<1>2. CASE Size(c) <= V4Count /\ IsMapped(c.first)
  <2> DEFINE v4 == [first |-> c.first - MappedFirst, last |-> c.last - MappedFirst]
  <2>1. CanonicalCidr(c) = v4
    BY <1>2 DEF CanonicalCidr
  <2>2. c.first - MappedFirst \in 0 .. V4Count - 1
    BY <1>2, NetworkBounds, CountsAreNumbers DEF IsMapped
  <2>3. IsBlock(c, V4Count, V6Count)
    BY <2>2, NetworkBounds, CountsAreNumbers
  <2>4. PICK m \in 1..V4Count : V4Count = m * Size(c)
    BY <1>2, NetworkBounds, IpSpaceAssumption
  <2>5. PICK k \in 0..V6Count : c.first = V4Count + k * Size(c)
    BY <2>3 DEF IsBlock
  <2>6. PICK j \in 0..V6Count : MappedOffset = j * V4Count
    BY IpSpaceAssumption
  <2>7. m \in Nat /\ k \in Nat /\ j \in Nat /\ Size(c) \in Nat \ {0}
    BY NetworkBounds, CountsAreNumbers
  <2> DEFINE n == k - j * m
  <2>8. n \in Int /\ j * m \in Int
    BY <2>7, SMT
  <2>9. n * Size(c) = k * Size(c) - (j * m) * Size(c)
    BY <2>7, <2>8, SMT
  <2>10. (j * m) * Size(c) = j * (m * Size(c))
    BY <2>7, SMT
  <2>11. c.first - MappedFirst = n * Size(c)
    BY <2>4, <2>5, <2>6, <2>7, <2>9, <2>10, CountsAreNumbers DEF MappedFirst
  <2> HIDE DEF n
  <2>12. 0 <= n
    <3>1. (-1) * Size(c) < n * Size(c)
      BY <2>2, <2>7, <2>11, SMT
    <3> QED
      BY <3>1, <2>7, <2>8, ProductCancel
  <2>13. n < m
    BY <2>2, <2>4, <2>7, <2>8, <2>11, ProductCancel
  <2>14. (n + 1) * Size(c) <= V4Count
    BY <2>4, <2>7, <2>8, <2>13, ProductMonotone
  <2>15. (n + 1) * Size(c) = n * Size(c) + Size(c)
    BY <2>7, <2>8, SMT
  <2>16. v4.last = n * Size(c) + Size(c) - 1
    BY <2>11, NetworkBounds, CountsAreNumbers DEF Size
  <2>17. n * Size(c) \in Int
    BY <2>7, <2>8, SMT
  <2>18. v4.first \in IpAddr /\ v4.last \in IpAddr /\ v4.last < V4Count
    BY <2>2, <2>7, <2>11, <2>14, <2>15, <2>16, <2>17, CountsAreNumbers DEF IpAddr
  <2>19. Size(v4) = Size(c)
    BY NetworkBounds, CountsAreNumbers DEF Size
  <2>20. n \in 0..V4Count
    BY <2>4, <2>8, <2>12, <2>13, CountsAreNumbers
  <2>21. IsBlock(v4, 0, V4Count)
    <3>1. Size(v4) \in BlockSizes
      BY <2>19, NetworkBounds
    <3>2. v4.last < 0 + V4Count
      BY <2>18, CountsAreNumbers DEF IpAddr
    <3>3. v4.first = 0 + n * Size(v4)
      BY <2>11, <2>17, <2>19
    <3> HIDE DEF v4
    <3> QED
      BY <2>20, <3>1, <3>2, <3>3 DEF IsBlock
  <2>22. v4 \in [first : IpAddr, last : IpAddr]
    BY <2>18
  <2> QED
    BY <2>1, <2>21, <2>22 DEF IpCidr
<1> QED
  BY <1>1, <1>2

-----------------------------------------------------------------------------
(* Canonical networks.                                                      *)

MappedRange == [first |-> MappedFirst, last |-> MappedFirst + V4Count - 1]

\* ::ffff:0:0/96 is a network.
LEMMA MappedRangeIsNetwork == MappedRange \in IpCidr /\ Size(MappedRange) = V4Count
<1>1. Size(MappedRange) = V4Count
  BY CountsAreNumbers DEF MappedRange, Size
<1>2. PICK j \in 0..V6Count : MappedOffset = j * V4Count
  BY IpSpaceAssumption
<1>3. IsBlock(MappedRange, V4Count, V6Count)
  <2>1. MappedRange.first = V4Count + j * Size(MappedRange)
    BY <1>1, <1>2 DEF MappedRange, MappedFirst
  <2>2. MappedRange.last < V4Count + V6Count
    BY CountsAreNumbers DEF MappedRange
  <2>3. Size(MappedRange) \in BlockSizes
    BY <1>1, IpSpaceAssumption
  <2> QED
    BY <2>1, <2>2, <2>3 DEF IsBlock
<1>4. MappedRange \in [first : IpAddr, last : IpAddr]
  BY CountsAreNumbers DEF MappedRange, IpAddr
<1> QED
  BY <1>1, <1>3, <1>4 DEF IpCidr

(***************************************************************************)
(* The canonical form of a network is canonical.                           *)
(***************************************************************************)
THEOREM CanonicalCidrIsCanonical ==
  ASSUME NEW c \in IpCidr
  PROVE  CanonicalCidr(CanonicalCidr(c)) = CanonicalCidr(c)
<1>1. CASE Size(c) <= V4Count /\ IsMapped(c.first)
  <2> DEFINE v4 == [first |-> c.first - MappedFirst, last |-> c.last - MappedFirst]
  <2>1. CanonicalCidr(c) = v4
    BY <1>1 DEF CanonicalCidr
  <2>2. ~IsMapped(v4.first)
    BY <1>1, NetworkBounds, CountsAreNumbers DEF IsMapped
  <2> QED
    BY <2>1, <2>2 DEF CanonicalCidr
<1>2. CASE ~(Size(c) <= V4Count /\ IsMapped(c.first))
  BY <1>2 DEF CanonicalCidr
<1> QED
  BY <1>1, <1>2

\* A canonical network that meets the mapped range is wider than it.
LEMMA CanonicalAroundMapped ==
  ASSUME NEW d \in IpCidr, CanonicalCidr(d) = d,
         NEW ip, IsMapped(ip), Contains(d, ip)
  PROVE  V4Count < Size(d)
<1> SUFFICES ASSUME Size(d) <= V4Count PROVE FALSE
  BY NetworkBounds, CountsAreNumbers
<1>1. ~IsMapped(d.first)
  <2> SUFFICES ASSUME IsMapped(d.first) PROVE FALSE
    OBVIOUS
  <2>1. CanonicalCidr(d).first = d.first - MappedFirst
    BY DEF CanonicalCidr
  <2> QED
    BY <2>1, NetworkBounds, CountsAreNumbers
<1>2. ip \in Int /\ MappedFirst <= ip /\ ip <= MappedFirst + V4Count - 1
  BY CountsAreNumbers DEF IsMapped
<1>3. d.first <= ip /\ ip <= d.last /\ d.first \in Int /\ d.last \in Int
  BY NetworkBounds DEF Contains
<1>4. d.first < MappedFirst
  BY <1>1, <1>2, <1>3, CountsAreNumbers DEF IsMapped
<1>5. MappedFirst + V4Count - 1 <= d.last
  BY <1>2, <1>3, <1>4, MappedRangeIsNetwork, NestedOrDisjoint, CountsAreNumbers DEF MappedRange
<1> QED
  BY <1>3, <1>4, <1>5, CountsAreNumbers DEF Size

(***************************************************************************)
(* Canonical networks that share an address share a canonical one: one of  *)
(* them lies in the other, and is wider than the mapped range if it meets  *)
(* it, so that its first or its last address is outside.                   *)
(***************************************************************************)
LEMMA CanonicalNetworksMeet ==
  ASSUME NEW c \in IpCidr, NEW d \in IpCidr, CanonicalCidr(c) = c, CanonicalCidr(d) = d,
         Overlap(c, d)
  PROVE  \E ip \in IpAddr : ~IsMapped(ip) /\ Contains(c, ip) /\ Contains(d, ip)
<1>1. PICK ip \in IpAddr : Contains(c, ip) /\ Contains(d, ip)
  BY DEF Overlap
<1>2. ASSUME NEW e \in IpCidr, NEW f \in IpCidr, CanonicalCidr(e) = e, IsMapped(ip),
             Contains(e, ip), f.first <= e.first, e.last <= f.last
      PROVE  \E a \in IpAddr : ~IsMapped(a) /\ Contains(e, a) /\ Contains(f, a)
  <2>1. V4Count < Size(e)
    BY <1>2, CanonicalAroundMapped
  <2>2. /\ e.first \in Int /\ e.last \in Int /\ e.first \in IpAddr /\ e.last \in IpAddr
        /\ f.first \in Int /\ f.last \in Int /\ e.first <= e.last
    BY NetworkBounds
  <2>3. ~IsMapped(e.first) \/ ~IsMapped(e.last)
    BY <2>1, <2>2, CountsAreNumbers DEF IsMapped, Size
  <2>4. /\ Contains(e, e.first) /\ Contains(e, e.last)
        /\ Contains(f, e.first) /\ Contains(f, e.last)
    BY <1>2, <2>2 DEF Contains
  <2> QED
    BY <2>2, <2>3, <2>4
<1>3. CASE ~IsMapped(ip)
  BY <1>1, <1>3
<1>4. CASE IsMapped(ip)
  <2>1. /\ c.first \in Int /\ c.last \in Int /\ d.first \in Int /\ d.last \in Int /\ ip \in Int
        /\ c.first <= ip /\ ip <= c.last /\ d.first <= ip /\ ip <= d.last
    BY <1>1, NetworkBounds, CountsAreNumbers DEF Contains, IpAddr
  <2>2. \/ d.first <= c.first /\ c.last <= d.last
        \/ c.first <= d.first /\ d.last <= c.last
    BY <2>1, NestedOrDisjoint
  <2>3. CASE d.first <= c.first /\ c.last <= d.last
    BY <1>1, <1>2, <1>4, <2>3
  <2>4. CASE c.first <= d.first /\ d.last <= c.last
    BY <1>1, <1>2, <1>4, <2>4
  <2> QED
    BY <2>2, <2>3, <2>4
<1> QED
  BY <1>3, <1>4

=============================================================================
