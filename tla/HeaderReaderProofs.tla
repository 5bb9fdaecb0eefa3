------------------------- MODULE HeaderReaderProofs -------------------------
(***************************************************************************)
(* Theorems about HeaderReader, for headers of any lines of any length.    *)
(***************************************************************************)
EXTENDS HeaderReader, HeaderGrammarProofs

-----------------------------------------------------------------------------
(* The entry of a hop.                                                      *)

\* chain_entry, behind its trim.
EntryMade(text) ==
  IF text = <<>> THEN Opaque
  ELSE CASE text = <<Unknown>> \/ text[1] = Underscore -> Opaque
         [] IsAddress(text)         -> Parsed(text)
         [] text[1] = OpenBracket   -> Bracketed(text)
         [] OTHER                   -> Ported(text)

LEMMA AddressIs ==
  ASSUME NEW text \in Seq(Char)
  PROVE  /\ \A ip \in IpAddr : Len(text) = 1 /\ text[1] = Address(ip) => Parsed(text) = Ip(ip)
         /\ IsAddress(text) => text[1].ip \in IpAddr /\ text[1] = Address(text[1].ip)
         /\ IsAddress(text) <=> Len(text) = 1 /\ \E ip \in IpAddr : text[1] = Address(ip)
<1>1. ASSUME IsAddress(text) PROVE text[1].ip \in IpAddr /\ text[1] = Address(text[1].ip)
  <2>1. Len(text) = 1 /\ text[1].char = "address"
    BY <1>1 DEF IsAddress
  <2>2. text[1] \in Char
    BY <2>1, ElementOfSeq
  <2>3. text[1] \in [char : {"address"}, ip : IpAddr]
    BY <2>1, <2>2 DEF Char, Marks, Words
  <2> QED
    BY <2>3 DEF Address
<1>2. ASSUME NEW ip \in IpAddr, Len(text) = 1, text[1] = Address(ip)
      PROVE  IsAddress(text) /\ Parsed(text) = Ip(ip)
  BY <1>2 DEF IsAddress, Parsed, Address
<1> QED
  BY <1>1, <1>2 DEF IsAddress

LEMMA MadeOf ==
  ASSUME NEW text \in Seq(Char), Len(text) > 0
  PROVE  /\ text[1] = Underscore => EntryMade(text) = Opaque
         /\ text = <<Unknown>> => EntryMade(text) = Opaque
         /\ IsAddress(text) => EntryMade(text) = Parsed(text)
         /\ text[1] = OpenBracket => EntryMade(text) = Bracketed(text)
         /\ ~IsAddress(text) /\ text[1] \notin {OpenBracket, Underscore} /\ text # <<Unknown>> =>
              EntryMade(text) = Ported(text)
<1>1. text # <<>>
  BY EmptySeq
<1>2. text = <<Unknown>> => text[1] = Unknown
  OBVIOUS
<1>3. /\ Underscore # Unknown /\ Underscore # OpenBracket /\ Unknown # OpenBracket
      /\ Underscore.char # "address" /\ Unknown.char # "address" /\ OpenBracket.char # "address"
  BY DEF Underscore, Unknown, OpenBracket, Mark
<1>4. IsAddress(text) => text[1].char = "address"
  BY DEF IsAddress
<1> QED
  BY <1>1, <1>2, <1>3, <1>4 DEF EntryMade

LEMMA FindIs ==
  ASSUME NEW text, NEW first \in Nat, NEW last \in Int, NEW c, NEW n \in first .. last,
         text[n] = c, \A i \in first .. n - 1 : text[i] # c
  PROVE  Find(text, Slice(first, last), c) = n
<1> DEFINE found == {i \in first .. last : text[i] = c}
<1>1. Find(text, Slice(first, last), c) = IF found = {} THEN 0 ELSE Least(found)
  BY SliceIs DEF Find
<1>2. n \in found /\ found \in SUBSET Int /\ \A i \in found : n <= i
  OBVIOUS
<1> HIDE DEF found
<1> QED
  BY <1>1, <1>2, LeastIs

LEMMA FormMakes ==
  ASSUME NEW text \in Seq(Char), NEW ip \in IpAddr, Form(text, ip)
  PROVE  EntryMade(text) = Ip(ip)
<1>1. Len(text) \in Nat
  BY LenProperties
<1>2. /\ Address(ip) \notin {OpenBracket, CloseBracket, Underscore, Unknown, Colon}
      /\ OpenBracket # CloseBracket /\ OpenBracket.char # "address"
  BY DEF Address, OpenBracket, CloseBracket, Underscore, Unknown, Colon, Mark
<1>3. CASE Len(text) = 1 /\ text[1] = Address(ip)
  BY <1>3, AddressIs, MadeOf
<1>4. CASE /\ Len(text) >= 3
           /\ text[1] = OpenBracket /\ text[2] = Address(ip) /\ text[3] = CloseBracket
           /\ \/ Len(text) = 3
              \/ Len(text) > 4 /\ text[4] = Colon /\ IsNodePort(SubSeq(text, 5, Len(text)))
  <2>1. EntryMade(text) = Bracketed(text)
    BY <1>1, <1>4, MadeOf
  <2>2. Find(text, Slice(2, Len(text)), CloseBracket) = 3
    <3>1. 3 \in 2 .. Len(text) /\ \A i \in 2 .. 3 - 1 : i = 2
      BY <1>1, <1>4
    <3> QED
      BY <1>1, <1>2, <1>4, <3>1, FindIs
  <2> DEFINE address == SubSeq(text, 2, 3 - 1)
             tail == SubSeq(text, 3 + 1, Len(text))
  <2>3. Bracketed(text) = IF tail = <<>> \/ (Head(tail) = Colon /\ IsNodePort(Tail(tail)))
                            THEN Parsed(address) ELSE Opaque
    BY <2>2 DEF Bracketed, None
  <2>4. Parsed(address) = Ip(ip)
    <3>1. /\ SubSeq(text, 2, 2) \in Seq(Char) /\ Len(SubSeq(text, 2, 2)) = (2 - 2) + 1
          /\ \A i \in 1 .. (2 - 2) + 1 : SubSeq(text, 2, 2)[i] = text[(2 + i) - 1]
      BY <1>1, <1>4, PieceIs
    <3>2. address \in Seq(Char) /\ Len(address) = 1 /\ address[1] = text[2]
      BY <3>1
    <3> HIDE DEF address
    <3> QED
      BY <1>4, <3>2, AddressIs
  <2> HIDE DEF address
  <2>5. CASE Len(text) = 3
    <3>1. tail = <<>>
      BY <1>1, <2>5, SubSeqEmpty
    <3> QED
      BY <2>1, <2>3, <2>4, <3>1
  <2>6. CASE Len(text) > 4 /\ text[4] = Colon /\ IsNodePort(SubSeq(text, 5, Len(text)))
    <3>1. /\ tail \in Seq(Char) /\ Len(tail) = (Len(text) - 4) + 1 /\ tail[1] = text[4]
      <4>1. /\ SubSeq(text, 4, Len(text)) \in Seq(Char)
            /\ Len(SubSeq(text, 4, Len(text))) = (Len(text) - 4) + 1
            /\ \A i \in 1 .. (Len(text) - 4) + 1 : SubSeq(text, 4, Len(text))[i] = text[(4 + i) - 1]
        BY <1>1, <2>6, PieceIs
      <4>2. 1 \in 1 .. (Len(text) - 4) + 1 /\ (4 + 1) - 1 = 4 /\ 3 + 1 = 4
        BY <1>1, <2>6
      <4> QED
        BY <4>1, <4>2
    <3>2. Head(tail) = Colon
      BY <2>6, <3>1
    <3>3. Tail(tail) = SubSeq(text, 5, Len(text))
      <4> DEFINE rest == SubSeq(text, 5, Len(text))
                 n == (Len(text) - 5) + 1
      <4>1. rest \in Seq(Char) /\ Len(rest) = n /\ \A i \in 1 .. n : rest[i] = text[(5 + i) - 1]
        BY <1>1, <2>6, PieceIs
      <4>2. /\ \A i \in 1 .. (Len(text) - 4) + 1 : tail[i] = text[(4 + i) - 1]
        BY <1>1, <2>6, PieceIs
      <4> HIDE DEF tail, rest
      <4>3. tail # <<>>
        BY <1>1, <2>6, <3>1, EmptySeq
      <4>4. /\ Tail(tail) \in Seq(Char) /\ Len(Tail(tail)) = Len(tail) - 1
            /\ \A i \in 1 .. Len(Tail(tail)) : Tail(tail)[i] = tail[i + 1]
        BY <3>1, <4>3, HeadTailProperties
      <4>5. Len(Tail(tail)) = n
        BY <1>1, <3>1, <4>4
      <4>6. \A i \in 1 .. n : i + 1 \in 1 .. (Len(text) - 4) + 1 /\ (4 + (i + 1)) - 1 = (5 + i) - 1
        BY <1>1
      <4>7. \A i \in 1 .. n : Tail(tail)[i] = rest[i]
        BY <4>1, <4>2, <4>4, <4>5, <4>6
      <4>8. Len(Tail(tail)) = Len(rest) /\ \A i \in 1 .. Len(Tail(tail)) : Tail(tail)[i] = rest[i]
        BY <4>1, <4>5, <4>7
      <4>9. Tail(tail) = rest
        BY <4>1, <4>4, <4>8, SeqEqual
      <4> QED
        BY <4>9 DEF rest
    <3> HIDE DEF tail
    <3> QED
      BY <2>1, <2>3, <2>4, <2>6, <3>2, <3>3
  <2> QED
    BY <1>4, <2>5, <2>6
<1>5. CASE /\ ip < V4Count /\ Len(text) > 2
           /\ text[1] = Address(ip) /\ text[2] = Colon
           /\ IsNodePort(SubSeq(text, 3, Len(text)))
  <2>1. EntryMade(text) = Ported(text)
    <3>1. ~IsAddress(text) /\ text # <<Unknown>>
      BY <1>1, <1>2, <1>5 DEF IsAddress
    <3> QED
      BY <1>1, <1>2, <1>5, <3>1, MadeOf
  <2> DEFINE colons == {i \in DOMAIN text : text[i] = Colon}
             port == SubSeq(text, 3, Len(text))
             n == (Len(text) - 3) + 1
  <2>2. port \in Seq(Char) /\ Len(port) = n /\ \A i \in 1 .. n : port[i] = text[(3 + i) - 1]
    BY <1>1, <1>5, PieceIs
  <2>3. \A i \in 1 .. n : port[i] # Colon
    BY <1>5, <2>2, PortIs
  <2> HIDE DEF port
  <2>4. \A i \in 3 .. Len(text) : text[i] # Colon
    <3>1. \A i \in 3 .. Len(text) : (i - 3) + 1 \in 1 .. n /\ (3 + ((i - 3) + 1)) - 1 = i
      BY <1>1
    <3> QED
      BY <2>2, <2>3, <3>1
  <2>5. Greatest(colons) = 2
    <3>1. DOMAIN text = 1 .. Len(text)
      BY LenProperties
    <3>2. 2 \in colons /\ colons \in SUBSET Int
      BY <1>1, <1>5, <3>1
    <3>3. \A i \in colons : 2 >= i
      <4>1. \A i \in 1 .. Len(text) : i <= 2 \/ i \in 3 .. Len(text)
        BY <1>1
      <4> QED
        BY <2>4, <3>1, <4>1
    <3> HIDE DEF colons
    <3> QED
      BY <3>2, <3>3, GreatestIs
  <2>6. colons # {}
    <3>1. DOMAIN text = 1 .. Len(text) /\ 2 \in 1 .. Len(text)
      BY <1>1, <1>5, LenProperties
    <3> QED
      BY <1>5, <3>1
  <2> DEFINE address == SubSeq(text, 1, 2 - 1)
  <2>7. address \in Seq(Char) /\ Len(address) = 1 /\ address[1] = text[1]
    <3>1. /\ SubSeq(text, 1, 1) \in Seq(Char) /\ Len(SubSeq(text, 1, 1)) = (1 - 1) + 1
          /\ \A i \in 1 .. (1 - 1) + 1 : SubSeq(text, 1, 1)[i] = text[(1 + i) - 1]
      BY <1>1, <1>5, PieceIs
    <3> QED
      BY <3>1
  <2>8. IsNodePort(SubSeq(text, 2 + 1, Len(text)))
    BY <1>5
  <2>9. Ported(text) = IF colons # {} /\ IsV4(SubSeq(text, 1, Greatest(colons) - 1))
                          /\ IsNodePort(SubSeq(text, Greatest(colons) + 1, Len(text)))
                         THEN Parsed(SubSeq(text, 1, Greatest(colons) - 1)) ELSE Opaque
    BY DEF Ported
  <2> HIDE DEF colons
  <2>10. Ported(text) = IF IsV4(address) THEN Parsed(address) ELSE Opaque
    BY <2>5, <2>6, <2>8, <2>9
  <2> HIDE DEF address
  <2>11. IsV4(address) /\ Parsed(address) = Ip(ip)
    <3>1. address[1].ip = ip /\ address[1].char = "address"
      BY <1>5, <2>7 DEF Address
    <3> QED
      BY <1>5, <2>7, <3>1 DEF IsV4, IsAddress, Parsed
  <2> QED
    BY <2>1, <2>10, <2>11
<1> QED
  BY <1>3, <1>4, <1>5 DEF Form

LEMMA MakesForm ==
  ASSUME NEW text \in Seq(Char), EntryMade(text) # Opaque
  PROVE  \E ip \in IpAddr : Form(text, ip)
<1>1. Len(text) \in Nat /\ DOMAIN text = 1 .. Len(text) /\ Len(text) > 0
  <2>1. text # <<>>
    BY DEF EntryMade
  <2> QED
    BY <2>1, EmptySeq, LenProperties
<1>2. CASE IsAddress(text)
  BY <1>2, AddressIs DEF Form
<1>3. CASE text[1] = OpenBracket
  <2> DEFINE close == Find(text, Slice(2, Len(text)), CloseBracket)
             tail == SubSeq(text, close + 1, Len(text))
             address == SubSeq(text, 2, close - 1)
  <2>1. Bracketed(text) # Opaque
    BY <1>1, <1>3, MadeOf
  <2>2. /\ close # 0 /\ (tail = <<>> \/ (Head(tail) = Colon /\ IsNodePort(Tail(tail))))
        /\ IsAddress(address)
    BY <2>1 DEF Bracketed, None, Parsed
  <2>3. close \in 2 .. Len(text) /\ text[close] = CloseBracket
    <3> DEFINE found == {i \in 2 .. Len(text) : text[i] = CloseBracket}
    <3>1. close = IF found = {} THEN 0 ELSE Least(found)
      <4>1. Slice(2, Len(text)).first = 2 /\ Slice(2, Len(text)).last = Len(text)
        BY SliceIs
      <4> QED
        BY <4>1 DEF Find
    <3>2. found # {} /\ found \in SUBSET Nat
      BY <2>2, <3>1
    <3> HIDE DEF found
    <3>3. close \in found
      BY <2>2, <3>1, <3>2, LeastIsChosen
    <3> QED
      BY <3>3 DEF found
  <2> HIDE DEF close
  <2>4. /\ address \in Seq(Char) /\ Len(address) = ((close - 1) - 2) + 1
        /\ \A i \in 1 .. ((close - 1) - 2) + 1 : address[i] = text[(2 + i) - 1]
    <3>1. close - 1 \in Nat /\ close - 1 <= Len(text) /\ 2 <= (close - 1) + 1
      BY <1>1, <2>3
    <3> QED
      BY <3>1, PieceIs
  <2> HIDE DEF address
  <2>5. Len(address) = 1
    BY <2>2 DEF IsAddress
  <2>6. close = 3
    <3>1. close \in Int
      BY <1>1, <2>3
    <3>2. ((close - 1) - 2) + 1 = 1
      BY ONLY <2>4, <2>5
    <3> QED
      BY ONLY <3>1, <3>2
  <2>7. address[1] = text[2]
    BY <2>4, <2>6
  <2>8. PICK ip \in IpAddr : text[2] = Address(ip)
    BY <2>2, <2>4, <2>7, AddressIs
  <2>9. Len(text) >= 3 /\ text[3] = CloseBracket
    BY <1>1, <2>3, <2>6
  <2>10. Len(text) = 3 \/ (Len(text) > 4 /\ text[4] = Colon /\ IsNodePort(SubSeq(text, 5, Len(text))))
    <3>1. SUFFICES ASSUME Len(text) # 3
                   PROVE  Len(text) > 4 /\ text[4] = Colon /\ IsNodePort(SubSeq(text, 5, Len(text)))
      OBVIOUS
    <3> DEFINE n == (Len(text) - 4) + 1
    <3>2. tail \in Seq(Char) /\ Len(tail) = n /\ \A i \in 1 .. n : tail[i] = text[(4 + i) - 1]
      <4>1. /\ SubSeq(text, 4, Len(text)) \in Seq(Char)
            /\ Len(SubSeq(text, 4, Len(text))) = n
            /\ \A i \in 1 .. n : SubSeq(text, 4, Len(text))[i] = text[(4 + i) - 1]
        BY <1>1, <2>9, <3>1, PieceIs
      <4>2. close + 1 = 4
        BY <2>6
      <4> QED
        BY <4>1, <4>2
    <3> HIDE DEF tail
    <3>3. 1 <= n /\ n \in Nat /\ (4 + 1) - 1 = 4
      BY <1>1, <2>9, <3>1
    <3>4. tail # <<>> /\ tail[1] = text[4]
      BY <3>2, <3>3, EmptySeq
    <3>5. Head(tail) = Colon /\ IsNodePort(Tail(tail)) /\ Head(tail) = tail[1]
      BY <2>2, <3>2, <3>4, HeadTailProperties
    <3>6. /\ Tail(tail) \in Seq(Char) /\ Len(Tail(tail)) = Len(tail) - 1
          /\ \A i \in 1 .. Len(Tail(tail)) : Tail(tail)[i] = tail[i + 1]
      BY <3>2, <3>4, HeadTailProperties
    <3>7. 1 <= Len(Tail(tail))
      BY <3>5, <3>6, PortIs
    <3>8. Len(text) > 4
      BY <1>1, <3>2, <3>6, <3>7
    <3> DEFINE rest == SubSeq(text, 5, Len(text))
               m == (Len(text) - 5) + 1
    <3>9. rest \in Seq(Char) /\ Len(rest) = m /\ \A i \in 1 .. m : rest[i] = text[(5 + i) - 1]
      BY <1>1, <3>8, PieceIs
    <3> HIDE DEF rest
    <3>10. Len(Tail(tail)) = m
      <4>1. Len(Tail(tail)) = n - 1
        BY <3>2, <3>6
      <4>2. n - 1 = m
        BY <1>1
      <4> QED
        BY <4>1, <4>2
    <3>11. \A i \in 1 .. m : i + 1 \in 1 .. n /\ (4 + (i + 1)) - 1 = (5 + i) - 1
      BY <1>1
    <3>12. \A i \in 1 .. m : Tail(tail)[i] = rest[i]
      BY <3>2, <3>6, <3>9, <3>10, <3>11
    <3>13. Len(Tail(tail)) = Len(rest) /\ \A i \in 1 .. Len(Tail(tail)) : Tail(tail)[i] = rest[i]
      BY <3>9, <3>10, <3>12
    <3>14. Tail(tail) = rest
      BY <3>6, <3>9, <3>13, SeqEqual
    <3> QED
      BY <3>4, <3>5, <3>8, <3>14 DEF rest
  <2> QED
    BY <1>3, <2>8, <2>9, <2>10 DEF Form
<1>4. CASE ~IsAddress(text) /\ text[1] # OpenBracket
  <2> DEFINE colons == {i \in DOMAIN text : text[i] = Colon}
             colon == Greatest(colons)
             address == SubSeq(text, 1, colon - 1)
             port == SubSeq(text, colon + 1, Len(text))
  <2>1. Ported(text) # Opaque
    BY <1>1, <1>4, MadeOf
  <2>2. colons # {} /\ IsV4(address) /\ IsNodePort(port)
    BY <2>1 DEF Ported
  <2>3. colon \in 1 .. Len(text) /\ text[colon] = Colon
    <3>1. colons \in SUBSET (1 .. Len(text))
      BY <1>1
    <3>2. \A i \in colons : text[i] = Colon
      OBVIOUS
    <3> HIDE DEF colons
    <3> QED
      BY <1>1, <2>2, <3>1, <3>2, GreatestIsChosen
  <2> HIDE DEF colons, colon
  <2>4. /\ address \in Seq(Char) /\ Len(address) = ((colon - 1) - 1) + 1
        /\ \A i \in 1 .. ((colon - 1) - 1) + 1 : address[i] = text[(1 + i) - 1]
    <3>1. colon - 1 \in Nat /\ colon - 1 <= Len(text) /\ 1 <= (colon - 1) + 1
      BY <1>1, <2>3
    <3> QED
      BY <3>1, PieceIs
  <2> HIDE DEF address
  <2>5. IsAddress(address) /\ address[1].ip < V4Count /\ Len(address) = 1
    BY <2>2 DEF IsV4, IsAddress
  <2>6. colon = 2
    <3>1. colon \in Int
      BY <1>1, <2>3
    <3>2. ((colon - 1) - 1) + 1 = 1
      BY ONLY <2>4, <2>5
    <3> QED
      BY ONLY <3>1, <3>2
  <2>7. address[1] = text[1]
    BY <2>4, <2>6
  <2>8. address[1].ip \in IpAddr /\ text[1] = Address(address[1].ip)
    BY <2>4, <2>5, <2>7, AddressIs
  <2>9. IsNodePort(SubSeq(text, 3, Len(text)))
    <3>1. colon + 1 = 3
      BY <2>6
    <3> QED
      BY <2>2, <3>1
  <2>10. Len(text) > 2
    <3>1. SUFFICES ASSUME Len(text) < 3 PROVE FALSE
      BY <1>1
    <3>2. SubSeq(text, 3, Len(text)) = <<>>
      BY <1>1, <3>1, SubSeqEmpty
    <3> QED
      BY <2>9, <3>2 DEF IsNodePort
  <2> QED
    BY <2>3, <2>5, <2>6, <2>8, <2>9, <2>10 DEF Form
<1> QED
  BY <1>2, <1>3, <1>4

\* chain_entry finds the address in every form in which a hop may give it.
LEMMA EntryOfIsNode ==
  ASSUME NEW text \in Seq(Char)
  PROVE  EntryOf(text) = Node(text)
<1> DEFINE node == Trimmed(text)
           chosen == CHOOSE ip \in IpAddr : Gives(node, ip)
<1>1. node \in Seq(Char)
  BY TrimmedIs
<1>2. EntryOf(text) = EntryMade(node)
  BY DEF EntryOf, EntryMade
<1>3. Node(text) = IF \E ip \in IpAddr : Gives(node, ip) THEN Ip(chosen) ELSE Opaque
  BY DEF Node
<1> HIDE DEF node
<1>4. CASE \E ip \in IpAddr : Gives(node, ip)
  <2>1. chosen \in IpAddr /\ Gives(node, chosen)
    BY <1>4
  <2> HIDE DEF chosen
  <2>2. EntryMade(node) = Ip(chosen)
    BY <1>1, <2>1, GivesForm, FormMakes
  <2> QED
    BY <1>2, <1>3, <1>4, <2>2
<1>5. CASE ~\E ip \in IpAddr : Gives(node, ip)
  <2>1. EntryMade(node) = Opaque
    BY <1>1, <1>5, GivesForm, MakesForm
  <2> QED
    BY <1>2, <1>3, <1>5, <2>1
<1> QED
  BY <1>4, <1>5

\* The loop of unquote_http_quoted_string after n characters, and its state.
After(f, inner, n) ==
  IF n = 0 THEN [output |-> <<>>, escaped |-> FALSE]
  ELSE IF inner[n] = Backslash /\ ~f[n - 1].escaped
         THEN [output |-> f[n - 1].output, escaped |-> TRUE]
         ELSE [output |-> Append(f[n - 1].output, inner[n]), escaped |-> FALSE]

Loops(f, inner, m) == f = [n \in 0 .. m |-> After(f, inner, n)]

SoFar == [output : Seq(Char), escaped : BOOLEAN]

\* The loop comes to an end, whatever the text.
LEMMA LoopRuns ==
  ASSUME NEW inner, NEW count \in Nat
  PROVE  (\A n \in 1 .. count : inner[n] \in Char) =>
           \E f \in [0 .. count -> SoFar] : Loops(f, inner, count)
<1>0. SUFFICES ASSUME \A n \in 1 .. count : inner[n] \in Char
               PROVE  \E f \in [0 .. count -> SoFar] : Loops(f, inner, count)
  OBVIOUS
<1> DEFINE base == [output |-> <<>>, escaped |-> FALSE]
           next == [p \in (1 .. count) \X SoFar |->
                      IF inner[p[1]] = Backslash /\ ~p[2].escaped
                        THEN [output |-> p[2].output, escaped |-> TRUE]
                        ELSE [output |-> Append(p[2].output, inner[p[1]]), escaped |-> FALSE]]
<1>1. base \in SoFar
  BY EmptySeq DEF SoFar
<1>2. ASSUME NEW n \in 1 .. count, NEW so_far \in SoFar PROVE next[<<n, so_far>>] \in SoFar
  <2>1. inner[n] \in Char /\ so_far.output \in Seq(Char)
    BY <1>0 DEF SoFar
  <2>2. Append(so_far.output, inner[n]) \in Seq(Char)
    BY <2>1, AppendProperties
  <2>3. /\ [output |-> so_far.output, escaped |-> TRUE] \in SoFar
        /\ [output |-> Append(so_far.output, inner[n]), escaped |-> FALSE] \in SoFar
    BY <2>1, <2>2 DEF SoFar
  <2> QED
    BY <2>3
<1>3. next \in [(1 .. count) \X SoFar -> SoFar]
  <2>1. ASSUME NEW p \in (1 .. count) \X SoFar PROVE next[p] \in SoFar
    <3>1. p = <<p[1], p[2]>> /\ p[1] \in 1 .. count /\ p[2] \in SoFar
      OBVIOUS
    <3> HIDE DEF next
    <3> QED
      BY <3>1, <1>2
  <2> QED
    BY <2>1
<1>4. \A n \in 1 .. count : \A so_far \in SoFar :
        next[<<n, so_far>>] =
          IF inner[n] = Backslash /\ ~so_far.escaped
            THEN [output |-> so_far.output, escaped |-> TRUE]
            ELSE [output |-> Append(so_far.output, inner[n]), escaped |-> FALSE]
  OBVIOUS
<1> HIDE DEF next
<1>5. \E f \in [0 .. count -> SoFar] :
        f[0] = base /\ \A n \in 1 .. count : f[n] = next[<<n, f[n - 1]>>]
  <2> HIDE DEF base
  <2> QED
    BY <1>1, <1>3, RecursionExists DEF Follows
<1>6. PICK f \in [0 .. count -> SoFar] :
        f[0] = base /\ \A n \in 1 .. count : f[n] = next[<<n, f[n - 1]>>]
  BY <1>5
<1>7. ASSUME NEW n \in 0 .. count PROVE f[n] = After(f, inner, n)
  <2>1. CASE n = 0
    BY <1>6, <2>1 DEF After
  <2>2. CASE n # 0
    <3>1. n \in 1 .. count /\ n - 1 \in 0 .. count
      BY <2>2
    <3>2. f[n - 1] \in SoFar /\ f[n] = next[<<n, f[n - 1]>>]
      BY <1>6, <3>1
    <3> QED
      BY <2>2, <3>1, <3>2, <1>4 DEF After
  <2> QED
    BY <2>1, <2>2
<1> QED
  BY <1>6, <1>7 DEF Loops

-----------------------------------------------------------------------------
(* The value of a pair.                                                     *)

\* The positions of a quoted string that stand without their escapes.
Keep(value) ==
  {i \in 2 .. Len(value) - 1 : value[i] = Backslash => Run(value, 1, i) % 2 = 1}

KeptTo(value, n) == [k \in DOMAIN InOrder(Keep(value), n) |-> value[InOrder(Keep(value), n)[k]]]

LEMMA KeptGrows ==
  ASSUME NEW value \in Seq(Char), Len(value) >= 2
  PROVE  /\ KeptTo(value, 1) = <<>>
         /\ KeptTo(value, Len(value) - 1) = Contents(value)
         /\ \A n \in 0 .. Len(value) : KeptTo(value, n) \in Seq(Char)
         /\ \A n \in 1 .. Len(value) - 1 :
              KeptTo(value, n + 1) = IF n + 1 \in Keep(value)
                                       THEN Append(KeptTo(value, n), value[n + 1])
                                       ELSE KeptTo(value, n)
<1> DEFINE K == Keep(value)
           list(n) == InOrder(K, n)
<1>1. Len(value) \in Nat /\ Len(value) - 1 \in Nat /\ (Len(value) - 1) + 1 = Len(value)
  BY LenProperties
<1>2. \A n : KeptTo(value, n) = [k \in DOMAIN list(n) |-> value[list(n)[k]]]
  BY DEF KeptTo
<1>3. \A i \in K : i \in 2 .. Len(value) - 1
  BY DEF Keep
<1>4. Contents(value) = KeptTo(value, Len(value))
  BY DEF Contents, KeptTo, Keep
<1> HIDE DEF K
<1>5. ASSUME NEW n \in 0 .. Len(value)
      PROVE  /\ list(n) \in Seq(Nat) /\ Len(list(n)) \in Nat /\ DOMAIN list(n) = 1 .. Len(list(n))
             /\ \A k \in 1 .. Len(list(n)) : value[list(n)[k]] \in Char
  <2>1. n \in Nat
    OBVIOUS
  <2>2. list(n) \in Seq(Nat) /\ \A k \in DOMAIN list(n) : list(n)[k] \in (1 .. n) \cap K
    BY <2>1, InOrderLists
  <2> HIDE DEF list
  <2>3. Len(list(n)) \in Nat /\ DOMAIN list(n) = 1 .. Len(list(n))
    BY <2>2, LenProperties
  <2>4. \A k \in 1 .. Len(list(n)) : list(n)[k] \in 1 .. Len(value)
    BY <1>1, <1>3, <2>2, <2>3
  <2> QED
    BY <2>2, <2>3, <2>4, ElementOfSeq
<1>6. ASSUME NEW n \in 0 .. Len(value)
      PROVE  /\ KeptTo(value, n) \in Seq(Char) /\ Len(KeptTo(value, n)) = Len(list(n))
             /\ \A k \in 1 .. Len(list(n)) : KeptTo(value, n)[k] = value[list(n)[k]]
  <2> DEFINE text == [k \in 1 .. Len(list(n)) |-> value[list(n)[k]]]
  <2>1. text = KeptTo(value, n)
    BY <1>2, <1>5
  <2> HIDE DEF list
  <2>2. text \in Seq(Char) /\ Len(text) = Len(list(n))
    <3>1. text \in [1 .. Len(list(n)) -> Char]
      BY <1>5
    <3> QED
      BY <1>5, <3>1, IsASeq, LenProperties
  <2> QED
    BY <2>1, <2>2
<1>7. list(1) = <<>>
  <2>1. 1 \notin K
    BY <1>3
  <2>2. InOrder(K, 0 + 1) = IF 0 + 1 \in K THEN Append(InOrder(K, 0), 0 + 1) ELSE InOrder(K, 0)
    BY InOrderStep
  <2>3. 0 + 1 = 1 /\ InOrder(K, 0) = <<>>
    BY InOrderStep
  <2> QED
    BY <2>1, <2>2, <2>3
<1>8. KeptTo(value, 1) = <<>>
  <2>1. 1 \in 0 .. Len(value) /\ Len(list(1)) = 0
    BY <1>1, <1>7, EmptySeq
  <2> QED
    BY <1>6, <2>1, EmptySeq
<1>9. ASSUME NEW n \in 1 .. Len(value) - 1
      PROVE  KeptTo(value, n + 1) = IF n + 1 \in K THEN Append(KeptTo(value, n), value[n + 1])
                                    ELSE KeptTo(value, n)
  <2>1. n \in Nat /\ n \in 0 .. Len(value) /\ n + 1 \in 0 .. Len(value) /\ n + 1 \in 1 .. Len(value)
    BY <1>1
  <2>2. list(n + 1) = IF n + 1 \in K THEN Append(list(n), n + 1) ELSE list(n)
    BY <2>1, InOrderStep
  <2> DEFINE a == list(n)
             b == list(n + 1)
             s == KeptTo(value, n)
             t == KeptTo(value, n + 1)
  <2>3. /\ a \in Seq(Nat) /\ Len(a) \in Nat /\ s \in Seq(Char) /\ t \in Seq(Char)
        /\ Len(s) = Len(a) /\ \A k \in 1 .. Len(a) : s[k] = value[a[k]]
        /\ Len(t) = Len(b) /\ \A k \in 1 .. Len(b) : t[k] = value[b[k]]
    BY <1>5, <1>6, <2>1
  <2>4. value[n + 1] \in Char
    BY <2>1, ElementOfSeq
  <2>5. n + 1 \notin K => t = s
    <3>1. ASSUME n + 1 \notin K PROVE DOMAIN list(n + 1) = DOMAIN list(n) /\ list(n + 1) = list(n)
      BY <2>2, <3>1
    <3> HIDE DEF list
    <3> QED
      BY <1>2, <3>1
  <2> HIDE DEF list, a, b, s, t
  <2>6. ASSUME n + 1 \in K PROVE t = Append(s, value[n + 1])
    <3>1. b = Append(a, n + 1)
      BY <2>2, <2>6 DEF a, b
    <3>2. /\ Len(b) = Len(a) + 1 /\ b[Len(a) + 1] = n + 1
          /\ \A k \in 1 .. Len(a) : b[k] = a[k]
      BY <2>1, <2>3, <3>1, AppendProperties
    <3> DEFINE u == Append(s, value[n + 1])
    <3>3. /\ u \in Seq(Char) /\ Len(u) = Len(s) + 1 /\ u[Len(s) + 1] = value[n + 1]
          /\ \A k \in 1 .. Len(s) : u[k] = s[k]
      BY <2>3, <2>4, AppendProperties
    <3> HIDE DEF u
    <3>4. \A k \in 1 .. Len(t) : k \in 1 .. Len(a) \/ k = Len(a) + 1
      BY <2>3, <3>2
    <3>5. \A k \in 1 .. Len(a) : k \in 1 .. Len(b)
      BY <2>3, <3>2
    <3>6. \A k \in 1 .. Len(a) : t[k] = u[k]
      BY <2>3, <3>2, <3>3, <3>5
    <3>7. Len(a) + 1 \in 1 .. Len(b)
      BY <2>3, <3>2
    <3>8. t[Len(a) + 1] = u[Len(a) + 1]
      BY <2>3, <3>2, <3>3, <3>7
    <3>9. Len(t) = Len(u) /\ \A k \in 1 .. Len(t) : t[k] = u[k]
      BY <2>3, <3>2, <3>3, <3>4, <3>6, <3>8
    <3>10. t = u
      BY <2>3, <3>3, <3>9, SeqEqual
    <3> QED
      BY <3>10 DEF u
  <2> QED
    BY <2>5, <2>6 DEF s, t
<1>10. KeptTo(value, Len(value) - 1) = KeptTo(value, Len(value))
  <2>1. list(Len(value)) = list(Len(value) - 1)
    <3>1. \A i \in (Len(value) - 1) + 1 .. Len(value) : i \notin K
      BY <1>1, <1>3
    <3>2. Len(value) - 1 <= Len(value)
      BY <1>1
    <3> QED
      BY <1>1, <3>1, <3>2, InOrderSkips
  <2> HIDE DEF list
  <2> QED
    BY <1>2, <2>1
<1> QED
  BY <1>4, <1>6, <1>8, <1>9, <1>10 DEF K

\* The loop of unquote_http_quoted_string is in an escape where the string is, and
\* has kept what the string keeps.
LEMMA LoopKeepsContents ==
  ASSUME NEW value \in Seq(Char), Len(value) >= 2
  PROVE  WithoutEscapes(SubSeq(value, 2, Len(value) - 1)) = Contents(value)
<1> DEFINE inner == SubSeq(value, 2, Len(value) - 1)
           count == Len(value) - 2
           after == CHOOSE f : Loops(f, inner, Len(inner))
<1>1. Len(value) \in Nat /\ count \in Nat
  BY LenProperties
<1>2. inner \in Seq(Char) /\ Len(inner) = count /\ \A n \in 1 .. count : inner[n] = value[n + 1]
  <2>1. /\ inner \in Seq(Char) /\ Len(inner) = ((Len(value) - 1) - 2) + 1
        /\ \A i \in 1 .. ((Len(value) - 1) - 2) + 1 : inner[i] = value[(2 + i) - 1]
    <3> DEFINE last == Len(value) - 1
    <3>1. last \in Nat /\ last <= Len(value) /\ 2 <= last + 1 /\ 2 \in Nat \ {0}
      BY <1>1
    <3> HIDE DEF last
    <3>2. /\ SubSeq(value, 2, last) \in Seq(Char) /\ Len(SubSeq(value, 2, last)) = (last - 2) + 1
          /\ \A i \in 1 .. (last - 2) + 1 : SubSeq(value, 2, last)[i] = value[(2 + i) - 1]
      BY <3>1, PieceIs
    <3> QED
      BY <3>2 DEF last
  <2>2. ((Len(value) - 1) - 2) + 1 = count /\ \A i \in 1 .. count : (2 + i) - 1 = i + 1
    BY <1>1
  <2> QED
    BY <2>1, <2>2
<1>3. WithoutEscapes(inner) = after[Len(inner)].output
  BY DEF WithoutEscapes, Loops, After
<1> HIDE DEF inner
<1>4. \E f : Loops(f, inner, Len(inner))
  <2>1. \A n \in 1 .. count : inner[n] \in Char
    BY <1>2, ElementOfSeq
  <2> QED
    BY <1>1, <1>2, <2>1, LoopRuns
<1>5. Loops(after, inner, count)
  BY <1>2, <1>4
<1> HIDE DEF after
<1>6. \A n \in 0 .. count : after[n] = After(after, inner, n)
  BY <1>5 DEF Loops
<1> DEFINE T == {n \in 0 .. count : /\ after[n].output = KeptTo(value, n + 1)
                                    /\ after[n].escaped <=> Run(value, 1, n + 2) % 2 = 1}
<1>7. 0 \in T
  <2>1. after[0].output = <<>> /\ after[0].escaped = FALSE /\ 0 \in 0 .. count
    <3>1. 0 \in 0 .. count
      BY <1>1
    <3>2. after[0] = After(after, inner, 0)
      BY <1>6, <3>1
    <3>3. After(after, inner, 0) = [output |-> <<>>, escaped |-> FALSE]
      BY DEF After
    <3> QED
      BY <3>1, <3>2, <3>3
  <2>2. Run(value, 1, 1 + 1) = 0
    BY RunGrows
  <2>3. KeptTo(value, 1) = <<>>
    BY KeptGrows
  <2> QED
    BY <2>1, <2>2, <2>3
<1>8. ASSUME NEW n \in 1 .. count, n - 1 \in T PROVE n \in T
  <2> DEFINE c == value[n + 1]
             run == Run(value, 1, n + 1)
             was == after[n - 1]
  <2>1. n \in 0 .. count /\ n # 0 /\ (n - 1) + 1 = n /\ (n - 1) + 2 = n + 1 /\ (n + 1) + 1 = n + 2
    BY <1>1
  <2>2. was.output = KeptTo(value, n) /\ (was.escaped <=> run % 2 = 1)
    BY <1>8, <2>1
  <2>3. after[n] = IF c = Backslash /\ ~was.escaped
                     THEN [output |-> was.output, escaped |-> TRUE]
                     ELSE [output |-> Append(was.output, c), escaped |-> FALSE]
    BY <1>2, <1>6, <2>1 DEF After
  <2>4. run \in Nat /\ Run(value, 1, n + 2) = IF c = Backslash THEN run + 1 ELSE 0
    <3>1. n + 1 \in Nat /\ 1 < n + 1 /\ 1 \in Nat
      BY <2>1
    <3>2. run \in Nat /\ Run(value, 1, (n + 1) + 1) = IF c = Backslash THEN run + 1 ELSE 0
      BY <3>1, RunGrows
    <3> QED
      BY <2>1, <3>2
  <2>5. n + 1 \in Keep(value) <=> (c = Backslash => run % 2 = 1)
    <3>1. n + 1 \in 2 .. Len(value) - 1
      BY <1>1
    <3> QED
      BY <3>1 DEF Keep
  <2>6. KeptTo(value, n + 1) = IF n + 1 \in Keep(value) THEN Append(KeptTo(value, n), c)
                               ELSE KeptTo(value, n)
    <3>1. n \in 1 .. Len(value) - 1
      BY <1>1
    <3> QED
      BY <3>1, KeptGrows
  <2> HIDE DEF c, run, was
  <2>7. (run + 1) % 2 = 1 <=> ~(run % 2 = 1)
    BY <2>4
  <2>8. after[n].output = KeptTo(value, n + 1)
    BY <2>2, <2>3, <2>5, <2>6
  <2>9. after[n].escaped <=> Run(value, 1, n + 2) % 2 = 1
    BY <2>2, <2>3, <2>4, <2>7
  <2> QED
    BY <2>1, <2>8, <2>9
<1> HIDE DEF T
<1>9. \A n \in 0 .. count : n \in T
  BY <1>1, <1>7, <1>8, InductionUpTo
<1>10. after[count].output = KeptTo(value, count + 1)
  BY <1>1, <1>9 DEF T
<1>11. count + 1 = Len(value) - 1
  BY <1>1
<1> QED
  BY <1>2, <1>3, <1>10, <1>11, KeptGrows DEF inner

\* What a value is read as: itself, or what is between its first character and its last.
LEMMA UnquotedIs ==
  ASSUME NEW value \in Seq(Char)
  PROVE  /\ Unquoted(value) =
              IF Len(value) < 2 \/ value[1] # Quote \/ value[Len(value)] # Quote
                THEN value ELSE Contents(value)
         /\ Len(value) >= 2 =>
              /\ Contents(value) \in Seq(Char)
              /\ \A k \in 1 .. Len(Contents(value)) :
                   \E i \in 1 .. Len(value) : Contents(value)[k] = value[i]
              /\ \A i \in Keep(value) :
                   \E k \in 1 .. Len(Contents(value)) : Contents(value)[k] = value[i]
<1>1. Len(value) \in Nat
  BY LenProperties
<1>2. ~(Len(value) < 2) => Len(value) >= 2
  BY <1>1
<1>3. ASSUME Len(value) >= 2
      PROVE  /\ Contents(value) \in Seq(Char)
             /\ \A k \in 1 .. Len(Contents(value)) :
                  \E i \in 1 .. Len(value) : Contents(value)[k] = value[i]
             /\ \A i \in Keep(value) :
                  \E k \in 1 .. Len(Contents(value)) : Contents(value)[k] = value[i]
  <2> DEFINE list == InOrder(Keep(value), Len(value))
  <2>1. Contents(value) \in Seq(Char)
    <3>1. Len(value) - 1 \in 0 .. Len(value)
      BY <1>1, <1>3
    <3> QED
      BY <1>3, <3>1, KeptGrows
  <2>2. Contents(value) = [k \in DOMAIN list |-> value[list[k]]]
    BY DEF Contents, Keep
  <2>3. list \in Seq(Nat) /\ \A k \in DOMAIN list : list[k] \in (1 .. Len(value)) \cap Keep(value)
    BY <1>1, InOrderLists
  <2>4. \A i \in Keep(value) : \E k \in 1 .. Len(list) : list[k] = i
    <3>1. ASSUME NEW i \in Keep(value) PROVE i \in (1 .. Len(value)) \cap Keep(value)
      BY <1>1 DEF Keep
    <3> QED
      BY <1>1, <3>1, InOrderHas
  <2> HIDE DEF list
  <2>5. DOMAIN list = 1 .. Len(list) /\ Len(list) \in Nat
    BY <2>3, LenProperties
  <2>6. DOMAIN Contents(value) = 1 .. Len(Contents(value)) /\ DOMAIN Contents(value) = DOMAIN list
    BY <2>1, <2>2, LenProperties
  <2>7. \A k \in 1 .. Len(list) : list[k] \in 1 .. Len(value) /\ Contents(value)[k] = value[list[k]]
    BY <2>2, <2>3, <2>5
  <2>8. \A k \in 1 .. Len(Contents(value)) : k \in 1 .. Len(list)
    BY <2>5, <2>6
  <2>9. \A k \in 1 .. Len(list) : k \in 1 .. Len(Contents(value))
    BY <2>5, <2>6
  <2>10. \A k \in 1 .. Len(Contents(value)) :
           \E i \in 1 .. Len(value) : Contents(value)[k] = value[i]
    BY <2>7, <2>8
  <2>11. \A i \in Keep(value) :
           \E k \in 1 .. Len(Contents(value)) : Contents(value)[k] = value[i]
    BY <2>4, <2>7, <2>9
  <2> QED
    BY <2>1, <2>10, <2>11
<1>4. Unquoted(value) = IF Len(value) < 2 \/ value[1] # Quote \/ value[Len(value)] # Quote
                          THEN value ELSE Contents(value)
  BY <1>2, LoopKeepsContents DEF Unquoted
<1> QED
  BY <1>3, <1>4

\* A text that holds a quote or = gives no address, and an address that a text gives it holds.
LEMMA NodeHolds ==
  ASSUME NEW text \in Seq(Char)
  PROVE  /\ (\E i \in 1 .. Len(text) : text[i] \in {Quote, Equals}) => Node(text) = Opaque
         /\ Node(text) # Opaque =>
              \E ip \in IpAddr : /\ Node(text) = Ip(ip)
                                 /\ \E i \in 1 .. Len(text) : text[i] = Address(ip)
<1> DEFINE node == Trimmed(text)
           chosen == CHOOSE ip \in IpAddr : Gives(node, ip)
<1>1. /\ node \in Seq(Char)
      /\ \A i \in 1 .. Len(node) : \E j \in 1 .. Len(text) : node[i] = text[j]
      /\ \A j \in 1 .. Len(text) : text[j] # Space => \E i \in 1 .. Len(node) : node[i] = text[j]
  BY TrimmedIs
<1>2. Node(text) = IF \E ip \in IpAddr : Gives(node, ip) THEN Ip(chosen) ELSE Opaque
  BY DEF Node
<1> HIDE DEF node
<1>3. CASE \E ip \in IpAddr : Gives(node, ip)
  <2>1. chosen \in IpAddr /\ Gives(node, chosen)
    BY <1>3
  <2> HIDE DEF chosen
  <2>2. /\ \E i \in 1 .. Len(node) : node[i] = Address(chosen)
        /\ \A i \in 1 .. Len(node) : node[i] \notin {Quote, Equals}
    BY <1>1, <2>1, GivesForm, FormHolds
  <2>3. Space \notin {Quote, Equals}
    BY DEF Quote, Equals, Space, Mark
  <2>4. ~\E i \in 1 .. Len(text) : text[i] \in {Quote, Equals}
    BY <1>1, <2>2, <2>3
  <2>5. \E i \in 1 .. Len(text) : text[i] = Address(chosen)
    BY <1>1, <2>2
  <2> QED
    BY <1>2, <1>3, <2>1, <2>4, <2>5
<1>4. CASE ~\E ip \in IpAddr : Gives(node, ip)
  BY <1>2, <1>4
<1> QED
  BY <1>3, <1>4

\* The entry that forwarded_element_entry makes of a value is one that the value may
\* be read as.
LEMMA EntryOfValue ==
  ASSUME NEW value \in Seq(Char)
  PROVE  EntryOf(Unquoted(value)) \in Value(value)
<1>1. Len(value) \in Nat /\ DOMAIN value = 1 .. Len(value)
  BY LenProperties
<1>2. Unquoted(value) \in Seq(Char)
  <2>1. ~(Len(value) < 2) => Len(value) >= 2
    BY <1>1
  <2> QED
    BY <2>1, UnquotedIs
<1>3. EntryOf(Unquoted(value)) = Node(Unquoted(value))
  BY <1>2, EntryOfIsNode
<1>4. CASE value = <<>> \/ value[1] # Quote
  <2>1. Unquoted(value) = value
    <3>1. value = <<>> => Len(value) < 2
      BY EmptySeq
    <3> QED
      BY <1>4, <3>1, UnquotedIs
  <2> QED
    BY <1>3, <1>4, <2>1 DEF Value, IsUnclosed
<1>5. CASE ~(value = <<>> \/ value[1] # Quote)
  <2>1. 1 <= Len(value) /\ 1 \in Quotes(value) /\ value[1] = Quote
    <3>1. 1 <= Len(value)
      BY <1>1, <1>5, EmptySeq
    <3> QED
      BY <1>1, <1>5, <3>1 DEF Quotes
  <2>2. CASE IsUnclosed(value)
    <3>1. Value(value) = {Opaque} \cup {Ip(ip) : ip \in {a \in IpAddr :
             \E i \in DOMAIN value : value[i] = [char |-> "address", ip |-> a]}}
      BY <1>5, <2>2 DEF Value
    <3>2. \A k \in 1 .. Len(Unquoted(value)) :
            \E i \in 1 .. Len(value) : Unquoted(value)[k] = value[i]
      <4>1. CASE Unquoted(value) = value
        BY <4>1
      <4>2. CASE Len(value) >= 2 /\ Unquoted(value) = Contents(value)
        BY <4>2, UnquotedIs
      <4>3. ~(Len(value) < 2) => Len(value) >= 2
        BY <1>1
      <4> QED
        BY <4>1, <4>2, <4>3, UnquotedIs
    <3>3. ASSUME Node(Unquoted(value)) # Opaque PROVE Node(Unquoted(value)) \in Value(value)
      <4>1. PICK ip \in IpAddr : /\ Node(Unquoted(value)) = Ip(ip)
                                 /\ \E i \in 1 .. Len(Unquoted(value)) :
                                      Unquoted(value)[i] = Address(ip)
        BY <1>2, <3>3, NodeHolds
      <4>2. \E i \in DOMAIN value : value[i] = [char |-> "address", ip |-> ip]
        BY <1>1, <3>2, <4>1 DEF Address
      <4> QED
        BY <3>1, <4>1, <4>2
    <3> QED
      BY <1>3, <3>1, <3>3
  <2>3. CASE ~IsUnclosed(value)
    <3> DEFINE s == String(value, 1)
    <3>1. s.first = 1 /\ s.last \in 1 + 1 .. Len(value) + 1 /\ s = Slice(1, s.last)
      <4>1. s.first = 1 /\ s.last \in 1 + 1 .. Len(value) + 1
        BY <2>1, StringBounds
      <4>2. s = Slice(1, s.last)
        BY SliceIs DEF String
      <4> QED
        BY <4>1, <4>2
    <3>2. s.last \in Closes(value, 1)
      <4>1. PICK c \in Closes(value, 1) : TRUE
        BY <1>5, <2>3 DEF IsUnclosed
      <4>2. c \in 1 + 1 .. Len(value)
        BY <4>1 DEF Closes
      <4>3. s.last <= c
        BY <2>1, StringBounds
      <4>4. s.last <= Len(value)
        BY <1>1, <3>1, <4>2, <4>3
      <4> QED
        BY <2>1, <4>4, StringBounds
    <3>3. Value(value) = IF s = Whole(value) THEN {Node(Contents(value))} ELSE {Opaque}
      BY <1>5, <2>3 DEF Value
    <3> HIDE DEF s
    <3>4. /\ s.last \in 2 .. Len(value) /\ value[s.last] = Quote
          /\ Run(value, 1, s.last) % 2 = 0 /\ Len(value) >= 2
      <4>1. s.last \in 1 + 1 .. Len(value) /\ value[s.last] = Quote /\ Run(value, 1, s.last) % 2 = 0
        BY <3>2 DEF Closes
      <4> QED
        BY <1>1, <4>1
    <3>5. s = Whole(value) <=> s.last = Len(value)
      BY <3>1, SliceIs DEF Whole
    <3>6. CASE s.last = Len(value)
      <4>1. Unquoted(value) = Contents(value)
        BY <1>1, <2>1, <3>4, <3>6, UnquotedIs
      <4> QED
        BY <1>3, <3>3, <3>5, <3>6, <4>1
    <3>7. CASE s.last # Len(value)
      <4>1. \E i \in 1 .. Len(Unquoted(value)) : Unquoted(value)[i] = Quote
        <5>1. CASE Unquoted(value) = value
          BY <1>1, <2>1, <5>1
        <5>2. CASE Unquoted(value) = Contents(value)
          <6>1. s.last \in 2 .. Len(value) - 1
            BY <1>1, <3>4, <3>7
          <6>2. Quote # Backslash
            BY DEF Quote, Backslash, Mark
          <6>3. s.last \in Keep(value)
            BY <3>4, <6>1, <6>2 DEF Keep
          <6> QED
            BY <3>4, <5>2, <6>3, UnquotedIs
        <5> QED
          BY <5>1, <5>2, UnquotedIs
      <4>2. Node(Unquoted(value)) = Opaque
        BY <1>2, <4>1, NodeHolds
      <4> QED
        BY <1>3, <3>3, <3>5, <3>7, <4>2
    <3> QED
      BY <3>6, <3>7
  <2> QED
    BY <2>2, <2>3
<1> QED
  BY <1>4, <1>5

\* Whatever text a hop has, an entry is made of it.
LEMMA EntryOfIsEntry ==
  ASSUME NEW raw_hop \in Seq(Char)
  PROVE  EntryOf(raw_hop) \in ChainEntry
<1>1. Opaque \in ChainEntry
  BY DEF Opaque, ChainEntry
<1>2. Node(raw_hop) # Opaque => \E ip \in IpAddr : Node(raw_hop) = Ip(ip)
  BY NodeHolds
<1> QED
  BY <1>1, <1>2, EntryOfIsNode, IpIsEntry

LEMMA UnquotedIsText ==
  ASSUME NEW text \in Seq(Char)
  PROVE  Unquoted(text) \in Seq(Char)
<1>1. Len(text) < 2 \/ Len(text) >= 2
  BY LenProperties
<1> QED
  BY <1>1, UnquotedIs

-----------------------------------------------------------------------------
(* The invariant.  Each item starts outside of the strings of its line, and *)
(* so a scan that starts there with no quote open starts in the right state.*)

Outside(position) == position \notin Inside(raw)

ItemsStartOutside ==
  header.kind = "Forwarded" =>
    /\ \A l \in Level : start[l] # None => Outside(start[l])
    /\ pc = "item" => Outside(item.first)

ScanState ==
  pc = "scan" => header.kind = "Forwarded" /\ start[level] # None

ReaderInvariant ==
  /\ TypeOK
  /\ ItemsStartOutside
  /\ ScanState
  /\ ScansAgreeWithTheLine

LEMMA RawIsText ==
  ASSUME TypeOK
  PROVE  /\ raw \in Seq(Char) /\ Len(raw) \in Nat
         /\ \A l \in Level : /\ input[l] \in SlicesOf(raw)
                              /\ input[l].first \in 1 .. Len(raw) + 1
                              /\ input[l].last \in 0 .. Len(raw)
                              /\ start[l] \in 0 .. Len(raw) + 1
         /\ item.first \in 1 .. Len(raw) + 1 /\ item.last \in 0 .. Len(raw)
<1>1. header.lines \in Seq(Seq(Char)) /\ line \in DOMAIN header.lines
  BY DEF TypeOK, Header
<1>2. line \in 1 .. Len(header.lines)
  BY <1>1, LenProperties
<1>3. raw \in Seq(Char)
  BY <1>1, <1>2, ElementOfSeq DEF raw
<1>4. Len(raw) \in Nat
  BY <1>3, LenProperties
<1> QED
  BY <1>3, <1>4 DEF TypeOK, SlicesOf

LEMMA InitInvariant == Init => ReaderInvariant
<1> SUFFICES ASSUME Init PROVE ReaderInvariant
  OBVIOUS
<1>1. header \in Header /\ header.lines \in Seq(Seq(Char)) /\ header.lines # <<>>
  BY ReaderAssumption DEF Init, Header
<1>2. line = 1 /\ 1 \in 1 .. Len(header.lines) /\ DOMAIN header.lines = 1 .. Len(header.lines)
  BY <1>1, EmptySeq, LenProperties DEF Init
<1>3. raw \in Seq(Char)
  BY <1>1, <1>2, ElementOfSeq DEF raw
<1>4. Len(raw) \in Nat
  BY <1>3, LenProperties
<1>5. Whole(raw) \in SlicesOf(raw) /\ Slice(1, 0) \in SlicesOf(raw)
  BY <1>4 DEF Whole, Slice, SlicesOf
<1>6. input \in [Level -> SlicesOf(raw)] /\ start \in [Level -> 0 .. Len(raw) + 1]
  BY <1>4, <1>5 DEF Init, Level, None
<1>7. <<>> \in Seq(ChainEntry)
  BY EmptySeq
<1>8. TypeOK
  <2>1. line \in DOMAIN header.lines
    BY <1>2
  <2>2. at \in 1 .. Len(raw) + 1 /\ item \in SlicesOf(raw) /\ entries \in Seq(ChainEntry)
    BY <1>4, <1>5, <1>7 DEF Init
  <2>3. level \in Level /\ pc \in {"next", "scan", "item", "read"}
    BY DEF Init, Level
  <2>4. in_quotes \in BOOLEAN /\ escaped \in BOOLEAN
    BY DEF Init
  <2> QED
    BY <1>1, <1>6, <2>1, <2>2, <2>3, <2>4 DEF TypeOK
<1>9. Outside(1)
  BY <1>3, LineStartsOutside DEF Outside
<1>10. ItemsStartOutside
  BY <1>9 DEF Init, ItemsStartOutside, Level, None
<1> QED
  BY <1>8, <1>10 DEF Init, ReaderInvariant, ScanState, ScansAgreeWithTheLine

LEMMA NextItemKeeps ==
  ASSUME ReaderInvariant, NextItem PROVE ReaderInvariant'
<1>1. raw' = raw /\ raw \in Seq(Char) /\ Len(raw) \in Nat
  BY RawIsText DEF ReaderInvariant, NextItem, raw
<1>2. level \in Level /\ start[level] \in 1 .. Len(raw) + 1
  BY RawIsText DEF ReaderInvariant, TypeOK, NextItem, None
<1>3. TypeOK'
  BY <1>1, <1>2 DEF ReaderInvariant, TypeOK, NextItem, iterators
<1>4. Outside(start[level])
  BY <1>2 DEF ReaderInvariant, ItemsStartOutside, NextItem
<1>5. ItemsStartOutside'
  BY <1>1 DEF ReaderInvariant, ItemsStartOutside, NextItem, iterators, Outside
<1>6. ScanState'
  BY DEF ScanState, NextItem, iterators
<1>7. start[level] \notin Escaped(raw)
  BY <1>1, <1>2, <1>4, PositionsInside DEF Outside
<1>8. ScansAgreeWithTheLine'
  BY <1>1, <1>4, <1>7 DEF ScansAgreeWithTheLine, NextItem, Outside
<1> QED
  BY <1>3, <1>5, <1>6, <1>8 DEF ReaderInvariant

\* A step of the scan moves its state as the strings of the line do.
LEMMA ScanStepKeeps ==
  ASSUME ReaderInvariant, PassEscaped \/ Escape \/ OpenOrCloseQuotes \/ Pass
  PROVE  ReaderInvariant'
<1>1. /\ UNCHANGED <<header, line, pc, level, input, start, item, entries>>
      /\ at' = at + 1 /\ pc = "scan" /\ at <= input[level].last
  BY DEF PassEscaped, Escape, OpenOrCloseQuotes, Pass, Go, Scanning, iterators
<1>2. raw' = raw /\ raw \in Seq(Char) /\ Len(raw) \in Nat
  BY <1>1, RawIsText DEF ReaderInvariant, raw
<1>3. at \in 1 .. Len(raw) /\ at + 1 \in 1 .. Len(raw) + 1
  BY <1>1, <1>2, RawIsText DEF ReaderInvariant, TypeOK
<1>4. in_quotes \in BOOLEAN /\ escaped \in BOOLEAN /\ in_quotes' \in BOOLEAN /\ escaped' \in BOOLEAN
  BY DEF ReaderInvariant, TypeOK, PassEscaped, Escape, OpenOrCloseQuotes, Pass
<1>5. TypeOK'
  BY <1>1, <1>2, <1>3, <1>4 DEF ReaderInvariant, TypeOK
<1>6. ItemsStartOutside' /\ ScanState'
  BY <1>1, <1>2 DEF ReaderInvariant, ItemsStartOutside, ScanState, Outside
<1>7. (in_quotes <=> at \in Inside(raw)) /\ (escaped <=> at \in Escaped(raw))
  BY <1>1 DEF ReaderInvariant, ScansAgreeWithTheLine
<1>8. Quote # Backslash
  BY DEF Quote, Backslash, Mark
<1>9. /\ in_quotes' <=> at + 1 \in Inside(raw)
      /\ escaped' <=> at + 1 \in Escaped(raw)
  <2>1. CASE at \notin Inside(raw)
    <3>1. /\ ~in_quotes /\ ~escaped
          /\ at + 1 \notin Escaped(raw)
          /\ at + 1 \in Inside(raw) <=> Ch = Quote
      BY <1>2, <1>3, <1>7, <2>1, FromOutside DEF Ch
    <3>2. ~escaped' /\ (in_quotes' <=> Ch = Quote)
      BY <1>4, <1>8, <3>1 DEF PassEscaped, Escape, OpenOrCloseQuotes, Pass
    <3> QED
      BY <3>1, <3>2
  <2>2. CASE at \in Inside(raw)
    <3>1. /\ in_quotes
          /\ at + 1 \in Inside(raw) <=> escaped \/ Ch # Quote
          /\ at + 1 \in Escaped(raw) <=> ~escaped /\ Ch = Backslash
      BY <1>2, <1>3, <1>7, <2>2, FromInside DEF Ch
    <3>2. /\ in_quotes' <=> escaped \/ Ch # Quote
          /\ escaped' <=> ~escaped /\ Ch = Backslash
      BY <1>4, <1>8, <3>1 DEF PassEscaped, Escape, OpenOrCloseQuotes, Pass
    <3> QED
      BY <3>1, <3>2
  <2> QED
    BY <2>1, <2>2
<1>10. ScansAgreeWithTheLine'
  BY <1>1, <1>2, <1>9 DEF ScansAgreeWithTheLine
<1> QED
  BY <1>5, <1>6, <1>10 DEF ReaderInvariant

\* An item begins where its iterator stood, or behind the blanks that follow.
LEMMA YieldKeeps ==
  ASSUME ReaderInvariant, NEW last \in 0 .. Len(raw), NEW next \in 0 .. Len(raw) + 1,
         Yield(last, next), start[level] # None,
         header.kind = "Forwarded" => next = None \/ Outside(next)
  PROVE  ReaderInvariant'
<1>1. raw' = raw /\ raw \in Seq(Char) /\ Len(raw) \in Nat
  BY RawIsText DEF ReaderInvariant, Yield, raw
<1>2. level \in Level /\ start[level] \in 1 .. Len(raw) + 1
  BY RawIsText DEF ReaderInvariant, TypeOK, None
<1>3. Slice(start[level], last) \in SlicesOf(raw) /\ Slice(start[level], last).first = start[level]
  BY <1>1, <1>2 DEF Slice, SlicesOf
<1>4. /\ item' \in SlicesOf(raw)
      /\ start[level] <= item'.first
      /\ \A i \in start[level] .. item'.first - 1 : raw[i] = Space
  BY <1>1, <1>3, TrimBounds DEF Yield
<1>5. item'.first \in Nat /\ start[level] \in Nat
  BY <1>1, <1>2, <1>4 DEF SlicesOf
<1>6. start \in [Level -> 0 .. Len(raw) + 1] /\ start' = [start EXCEPT ![level] = next]
  BY DEF ReaderInvariant, TypeOK, Yield
<1>7. start' \in [Level -> 0 .. Len(raw) + 1]
  BY <1>1, <1>6
<1>8. TypeOK'
  BY <1>1, <1>4, <1>7 DEF ReaderInvariant, TypeOK, Yield, scan
<1>9. ASSUME header.kind = "Forwarded"
      PROVE  Outside(item'.first) /\ \A l \in Level : start'[l] # None => Outside(start'[l])
  <2>1. Outside(start[level])
    BY <1>2, <1>9 DEF ReaderInvariant, ItemsStartOutside, None
  <2>2. Outside(item'.first)
    BY <1>1, <1>4, <1>5, <2>1, OutsideBehindBlanks DEF Outside
  <2>3. \A l \in Level : start[l] # None => Outside(start[l])
    BY <1>9 DEF ReaderInvariant, ItemsStartOutside
  <2> QED
    BY <1>2, <1>6, <1>9, <2>2, <2>3
<1>10. ItemsStartOutside'
  BY <1>1, <1>9 DEF ItemsStartOutside, Outside, Yield
<1>11. ScanState' /\ ScansAgreeWithTheLine'
  BY DEF ScanState, ScansAgreeWithTheLine, Yield
<1> QED
  BY <1>8, <1>10, <1>11 DEF ReaderInvariant

LEMMA CutKeeps ==
  ASSUME ReaderInvariant, CutAtDelimiter PROVE ReaderInvariant'
<1>1. raw \in Seq(Char) /\ Len(raw) \in Nat /\ at \in 1 .. Len(raw)
  BY RawIsText DEF ReaderInvariant, TypeOK, CutAtDelimiter, Scanning
<1>2. at - 1 \in 0 .. Len(raw) /\ at + 1 \in 0 .. Len(raw) + 1
  BY <1>1
<1>3. header.kind = "Forwarded" /\ start[level] # None /\ at \notin Inside(raw)
  BY DEF ReaderInvariant, ScanState, ScansAgreeWithTheLine, CutAtDelimiter, Scanning
<1>4. raw[at] # Quote
  BY DEF ReaderInvariant, TypeOK, CutAtDelimiter, Ch, Delimiter, Level, Quote, Comma, Semicolon, Mark
<1>5. Outside(at + 1)
  BY <1>1, <1>3, <1>4, FromOutside DEF Outside
<1> QED
  BY <1>2, <1>3, <1>5, YieldKeeps DEF CutAtDelimiter

LEMMA LastItemKeeps ==
  ASSUME ReaderInvariant, LastItem PROVE ReaderInvariant'
<1>1. input[level].last \in 0 .. Len(raw) /\ None \in 0 .. Len(raw) + 1
  BY RawIsText DEF ReaderInvariant, TypeOK, None
<1>2. start[level] # None
  BY DEF ReaderInvariant, ScanState, LastItem
<1> QED
  BY <1>1, <1>2, YieldKeeps DEF LastItem

LEMMA NextListedKeeps ==
  ASSUME ReaderInvariant, NextListed PROVE ReaderInvariant'
<1> DEFINE rest  == Slice(start[level], input[level].last)
           comma == Find(raw, rest, Comma)
<1>1. /\ Len(raw) \in Nat /\ level \in Level
      /\ start[level] \in 1 .. Len(raw) + 1 /\ input[level].last \in 0 .. Len(raw)
  BY RawIsText DEF ReaderInvariant, TypeOK, NextListed, None
<1>2. rest.first = start[level] /\ rest.last = input[level].last
  BY DEF Slice
<1>3. comma = 0 \/ comma \in start[level] .. input[level].last
  BY <1>1, <1>2, FindBounds
<1>4. IF comma = None THEN Yield(rest.last, None) ELSE Yield(comma - 1, comma + 1)
  BY DEF NextListed
<1>5. header.kind # "Forwarded" /\ start[level] # None
  BY DEF NextListed
<1>6. CASE comma = 0
  BY <1>1, <1>2, <1>4, <1>5, <1>6, YieldKeeps DEF None
<1>7. CASE comma \in start[level] .. input[level].last
  <2> HIDE DEF comma
  <2>1. comma # None /\ comma - 1 \in 0 .. Len(raw) /\ comma + 1 \in 0 .. Len(raw) + 1
    BY <1>1, <1>7 DEF None
  <2> QED
    BY <1>4, <1>5, <2>1, YieldKeeps
<1> QED
  BY <1>3, <1>6, <1>7

\* The loop over the items leaves the iterators alone, and pushes entries.
LEMMA LoopKeeps ==
  ASSUME ReaderInvariant, level' \in Level, pc' \in {"next", "read"},
         UNCHANGED <<header, line, iterators, scan, item>>, entries' \in Seq(ChainEntry)
  PROVE  ReaderInvariant'
<1>1. raw' = raw
  BY DEF raw
<1>2. TypeOK'
  BY <1>1 DEF ReaderInvariant, TypeOK, iterators, scan
<1>3. ItemsStartOutside'
  BY <1>1 DEF ReaderInvariant, ItemsStartOutside, Outside, iterators
<1>4. ScanState' /\ ScansAgreeWithTheLine'
  BY DEF ScanState, ScansAgreeWithTheLine
<1> QED
  BY <1>2, <1>3, <1>4 DEF ReaderInvariant

LEMMA PushKeepsType ==
  ASSUME ReaderInvariant, NEW entry \in ChainEntry, Push(entry)
  PROVE  entries' \in Seq(ChainEntry)
BY AppendProperties DEF ReaderInvariant, TypeOK, Push

LEMMA HopKeeps ==
  ASSUME ReaderInvariant,
         SkipEmpty \/ ListedHop \/ SkipPair \/ ForPair \/ NoForPair \/ NoLineLeft
  PROVE  ReaderInvariant'
<1>1. TypeOK /\ level \in Level /\ "element" \in Level /\ entries \in Seq(ChainEntry)
  BY DEF ReaderInvariant, TypeOK, Level
<1>2. CASE SkipEmpty \/ SkipPair \/ NoLineLeft
  BY <1>1, <1>2, LoopKeeps DEF SkipEmpty, SkipPair, NoLineLeft
<1>3. CASE ListedHop
  <2>1. Text(raw, item) \in Seq(Char)
    BY <1>1, RawIsText, PieceOfText DEF Text
  <2>2. EntryOf(Text(raw, item)) \in ChainEntry
    BY <2>1, EntryOfIsEntry
  <2> QED
    BY <1>1, <1>3, <2>2, PushKeepsType, LoopKeeps DEF ListedHop
<1>4. CASE ForPair
  <2>1. /\ raw \in Seq(Char) /\ Len(raw) \in Nat
        /\ item.first \in 1 .. Len(raw) + 1 /\ item.last \in 0 .. Len(raw)
    BY <1>1, RawIsText
  <2>2. Equal \in item.first .. item.last
    BY <1>4, <2>1, FindBounds DEF ForPair, IsFor, Equal, None
  <2>3. Slice(Equal + 1, item.last) \in SlicesOf(raw)
    BY <2>1, <2>2 DEF Slice, SlicesOf
  <2>4. Trim(raw, Slice(Equal + 1, item.last)) \in SlicesOf(raw)
    BY <2>1, <2>3, TrimBounds
  <2>5. ForValue \in Seq(Char)
    BY <2>1, <2>4, PieceOfText DEF ForValue, Text, SlicesOf
  <2>6. EntryOf(Unquoted(ForValue)) \in ChainEntry
    BY <2>5, UnquotedIsText, EntryOfIsEntry
  <2> QED
    BY <1>1, <1>4, <2>6, PushKeepsType, LoopKeeps DEF ForPair, CloseElement
<1>5. CASE NoForPair
  <2>1. Opaque \in ChainEntry
    BY DEF Opaque, ChainEntry
  <2> QED
    BY <1>1, <1>5, <2>1, PushKeepsType, LoopKeeps DEF NoForPair, CloseElement
<1> QED
  BY <1>2, <1>3, <1>4, <1>5

\* The pairs of an element start where the element does.
LEMMA OpenElementKeeps ==
  ASSUME ReaderInvariant, OpenElement PROVE ReaderInvariant'
<1>1. raw' = raw /\ Len(raw) \in Nat /\ item.first \in 1 .. Len(raw) + 1
  BY RawIsText DEF ReaderInvariant, OpenElement, raw
<1>2. /\ start \in [Level -> 0 .. Len(raw) + 1] /\ input \in [Level -> SlicesOf(raw)]
      /\ item \in SlicesOf(raw) /\ "pair" \in Level
  BY DEF ReaderInvariant, TypeOK, Level
<1>3. start' = [start EXCEPT !["pair"] = item.first] /\ input' = [input EXCEPT !["pair"] = item]
  BY DEF OpenElement
<1>4. start' \in [Level -> 0 .. Len(raw) + 1] /\ input' \in [Level -> SlicesOf(raw)]
  BY <1>1, <1>2, <1>3
<1>5. TypeOK'
  BY <1>1, <1>2, <1>4 DEF ReaderInvariant, TypeOK, OpenElement, scan
<1>6. Outside(item.first) /\ \A l \in Level : start[l] # None => Outside(start[l])
  BY DEF ReaderInvariant, ItemsStartOutside, OpenElement
<1>7. \A l \in Level : start'[l] # None => Outside(start'[l])
  BY <1>2, <1>3, <1>6
<1>8. ItemsStartOutside'
  BY <1>1, <1>7 DEF ItemsStartOutside, Outside, OpenElement
<1>9. ScanState' /\ ScansAgreeWithTheLine'
  BY DEF ScanState, ScansAgreeWithTheLine, OpenElement
<1> QED
  BY <1>5, <1>8, <1>9 DEF ReaderInvariant

LEMMA NextLineKeeps ==
  ASSUME ReaderInvariant, NextLine PROVE ReaderInvariant'
<1>1. header' = header /\ header \in Header /\ header.lines \in Seq(Seq(Char)) /\ line' = line + 1
  BY DEF ReaderInvariant, TypeOK, NextLine, Header
<1>2. line \in 1 .. Len(header.lines) /\ Len(header.lines) \in Nat
  BY <1>1, LenProperties DEF ReaderInvariant, TypeOK
<1>3. line + 1 \in 1 .. Len(header.lines)
  BY <1>2 DEF NextLine
<1>4. raw' = header.lines[line + 1]
  BY <1>1 DEF raw
<1>5. raw' \in Seq(Char)
  BY <1>1, <1>3, <1>4, ElementOfSeq
<1>6. Len(raw') \in Nat
  BY <1>5, LenProperties
<1>7. Whole(raw') \in SlicesOf(raw') /\ Slice(1, 0) \in SlicesOf(raw')
  BY <1>6 DEF Whole, Slice, SlicesOf
<1>8. input' \in [Level -> SlicesOf(raw')] /\ start' \in [Level -> 0 .. Len(raw') + 1]
  BY <1>6, <1>7 DEF NextLine, Level, None
<1>9. line' \in DOMAIN header.lines
  BY <1>1, <1>3, LenProperties
<1>10. at' \in 1 .. Len(raw') + 1 /\ item' \in SlicesOf(raw')
  BY <1>6, <1>7 DEF NextLine
<1>11. TypeOK'
  BY <1>1, <1>8, <1>9, <1>10 DEF ReaderInvariant, TypeOK, NextLine
<1>12. 1 \notin Inside(raw')
  BY <1>5, LineStartsOutside
<1>13. ItemsStartOutside'
  BY <1>12 DEF ItemsStartOutside, Outside, NextLine, Level, None
<1>14. ScanState' /\ ScansAgreeWithTheLine'
  BY DEF ScanState, ScansAgreeWithTheLine, NextLine
<1> QED
  BY <1>11, <1>13, <1>14 DEF ReaderInvariant

LEMMA NextInvariant == ReaderInvariant /\ [Next]_vars => ReaderInvariant'
<1> SUFFICES ASSUME ReaderInvariant, [Next]_vars PROVE ReaderInvariant'
  OBVIOUS
<1>1. CASE UNCHANGED vars
  <2>1. UNCHANGED <<header, line, pc, level, input, start, at, in_quotes, escaped, item, entries>>
    BY <1>1 DEF vars, iterators, scan
  <2> QED
    BY <2>1 DEF ReaderInvariant, TypeOK, ItemsStartOutside, Outside, ScanState,
                ScansAgreeWithTheLine, raw
<1>2. CASE HandedOver
  BY <1>1, <1>2 DEF HandedOver
<1>3. CASE NextItem
  BY <1>3, NextItemKeeps
<1>4. CASE PassEscaped \/ Escape \/ OpenOrCloseQuotes \/ Pass
  BY <1>4, ScanStepKeeps
<1>5. CASE CutAtDelimiter
  BY <1>5, CutKeeps
<1>6. CASE LastItem
  BY <1>6, LastItemKeeps
<1>7. CASE NextListed
  BY <1>7, NextListedKeeps
<1>8. CASE SkipEmpty \/ ListedHop \/ SkipPair \/ ForPair \/ NoForPair \/ NoLineLeft
  BY <1>8, HopKeeps
<1>9. CASE OpenElement
  BY <1>9, OpenElementKeeps
<1>10. CASE NextLine
  BY <1>10, NextLineKeeps
<1> QED
  BY <1>1, <1>2, <1>3, <1>4, <1>5, <1>6, <1>7, <1>8, <1>9, <1>10 DEF Next, Step

(***************************************************************************)
(* Whatever quotes and escapes a line leaves open, each item is looked for *)
(* from a position that is in no string of the line (SplitQuoted).         *)
(***************************************************************************)
THEOREM ReaderInvariantHolds == Spec => []ReaderInvariant
BY InitInvariant, NextInvariant, PTL DEF Spec

(***************************************************************************)
(* Every slice the reader cuts out lies in its line, and every hop it      *)
(* finds becomes an entry (forwarded_entries, list_header_entries).        *)
(***************************************************************************)
THEOREM TypesHold == Spec => []TypeOK
<1>1. ReaderInvariant => TypeOK
  BY DEF ReaderInvariant
<1> QED
  BY <1>1, ReaderInvariantHolds, PTL

(***************************************************************************)
(* "a quote mark only tells you whether it opens or closes a string once   *)
(* you know what came before it" (forwarded_entries): although each item   *)
(* is scanned with no quote open at first, the scan is at every character  *)
(* where one scan of the whole line would be, for lines of any length.     *)
(***************************************************************************)
THEOREM QuotesAreKnown == Spec => []ScansAgreeWithTheLine
<1>1. ReaderInvariant => ScansAgreeWithTheLine
  BY DEF ReaderInvariant
<1> QED
  BY <1>1, ReaderInvariantHolds, PTL

-----------------------------------------------------------------------------
(* How far the reader is.  Each iterator has gone through the items up to   *)
(* an end of one of them, and the entries are those of the hops up to there.*)

CutsOf(l) ==
  IF l = "element" THEN ListCuts(header.kind, raw) ELSE Cuts(raw, Semicolon) \ Inside(raw)

\* The end of the item that an iterator has yielded last.
Reached(l) == IF start[l] = None THEN input[l].last + 1 ELSE start[l] - 1

\* The same, without the item that is in hand.
DoneWith(l) ==
  IF (pc = "item" /\ level = l) \/ (level = "pair" /\ l = "element")
    THEN Reached(l) - 1 ELSE Reached(l)

IteratorsStand ==
  /\ input["element"] = Whole(raw)
  /\ \A l \in Level :
       /\ SliceOf(raw, input[l])
       /\ start[l] # None =>
            /\ start[l] \in input[l].first .. input[l].last + 1
            /\ start[l] = input[l].first \/ start[l] - 1 \in CutsOf(l)

ScanStands ==
  pc = "scan" =>
    /\ at \in start[level] .. input[level].last + 1
    /\ \A i \in start[level] .. at - 1 : i \notin CutsOf(level)

ItemStands ==
  pc = "item" =>
    /\ item = Item(raw, input[level], CutsOf(level), Reached(level))
    /\ Reached(level) \in Ends(input[level], CutsOf(level))

NoForUpTo(last) ==
  \A end \in Ends(input["pair"], CutsOf("pair")) :
    end <= last => ~NameIsFor(raw, Item(raw, input["pair"], CutsOf("pair"), end))

ElementStands ==
  level = "pair" =>
    /\ header.kind = "Forwarded"
    /\ Reached("element") \in HopEnds(header.kind, raw)
    /\ input["pair"] = ListItem(header.kind, raw, Reached("element"))
    /\ NoForUpTo(DoneWith("pair"))

\* One entry for each hop, one that may be read for it.
Reads(read, hops) == Len(read) = Len(hops) /\ \A k \in 1 .. Len(hops) : read[k] \in hops[k]

HopsTo(kind, text, last) ==
  LET ends == InOrder(HopEnds(kind, text), last)
  IN  [k \in DOMAIN ends |-> Hop(kind, text, ends[k])]

HopsBefore(n) == HopsUpTo(header.kind, header.lines)[n - 1]

EntriesStand ==
  Reads(entries, HopsBefore(line) \o HopsTo(header.kind, raw, DoneWith("element")))

EndStands ==
  pc = "read" =>
    /\ line = Len(header.lines)
    /\ level = "element" /\ start["element"] = None

ReadingStands ==
  /\ IteratorsStand
  /\ ScanStands
  /\ ItemStands
  /\ ElementStands
  /\ EntriesStand
  /\ EndStands

-----------------------------------------------------------------------------
(* Entries that are read for hops.                                          *)

LEMMA HopsToAre ==
  ASSUME NEW kind, NEW text \in Seq(Char)
  PROVE  /\ HopsTo(kind, text, 0) = <<>>
         /\ HopsTo(kind, text, Len(text) + 1) = LineHops(kind, text)
         /\ \A n \in Nat : HopsTo(kind, text, n) \in Seq(SUBSET ChainEntry)
<1>1. HopsTo(kind, text, 0) = <<>>
  <2>1. InOrder(HopEnds(kind, text), 0) = <<>>
    BY InOrderStep
  <2> QED
    BY <2>1 DEF HopsTo
<1>2. HopsTo(kind, text, Len(text) + 1) = LineHops(kind, text)
  BY DEF HopsTo, LineHops
<1>3. ASSUME NEW n \in Nat PROVE HopsTo(kind, text, n) \in Seq(SUBSET ChainEntry)
  <2> DEFINE ends == InOrder(HopEnds(kind, text), n)
  <2>1. ends \in Seq(Nat)
    BY InOrderLists
  <2>2. HopsTo(kind, text, n) = [k \in DOMAIN ends |-> Hop(kind, text, ends[k])]
    BY DEF HopsTo
  <2> HIDE DEF ends
  <2>3. Len(ends) \in Nat /\ DOMAIN ends = 1 .. Len(ends)
    BY <2>1, LenProperties
  <2>4. \A k \in 1 .. Len(ends) : Hop(kind, text, ends[k]) \in SUBSET ChainEntry
    BY HopIsEntries
  <2>5. HopsTo(kind, text, n) \in [1 .. Len(ends) -> SUBSET ChainEntry]
    BY <2>2, <2>3, <2>4
  <2> QED
    BY <2>3, <2>5, IsASeq
<1> QED
  BY <1>1, <1>2, <1>3

LEMMA HopsToSkips ==
  ASSUME NEW kind, NEW text, NEW m \in Nat, NEW n \in Nat, m <= n,
         \A i \in m + 1 .. n : i \notin HopEnds(kind, text)
  PROVE  HopsTo(kind, text, n) = HopsTo(kind, text, m)
<1>1. InOrder(HopEnds(kind, text), n) = InOrder(HopEnds(kind, text), m)
  BY InOrderSkips
<1> QED
  BY <1>1 DEF HopsTo

LEMMA HopsToGrow ==
  ASSUME NEW kind, NEW text \in Seq(Char), NEW n \in Nat, n + 1 \in HopEnds(kind, text)
  PROVE  HopsTo(kind, text, n + 1) = Append(HopsTo(kind, text, n), Hop(kind, text, n + 1))
<1> DEFINE a == InOrder(HopEnds(kind, text), n)
           b == InOrder(HopEnds(kind, text), n + 1)
           s == HopsTo(kind, text, n)
           t == HopsTo(kind, text, n + 1)
           u == Append(s, Hop(kind, text, n + 1))
<1>1. a \in Seq(Nat) /\ b = Append(a, n + 1)
  BY InOrderStep
<1>2. s = [k \in DOMAIN a |-> Hop(kind, text, a[k])] /\ t = [k \in DOMAIN b |-> Hop(kind, text, b[k])]
  BY DEF HopsTo
<1>3. s \in Seq(SUBSET ChainEntry) /\ t \in Seq(SUBSET ChainEntry)
  <2>1. n + 1 \in Nat
    OBVIOUS
  <2> QED
    BY <2>1, HopsToAre
<1>4. Hop(kind, text, n + 1) \in SUBSET ChainEntry
  BY HopIsEntries
<1> HIDE DEF a, b, s, t
<1>5. /\ Len(a) \in Nat /\ DOMAIN a = 1 .. Len(a)
      /\ Len(b) = Len(a) + 1 /\ DOMAIN b = 1 .. Len(b) /\ b[Len(a) + 1] = n + 1
      /\ \A k \in 1 .. Len(a) : b[k] = a[k]
  <2>1. b \in Seq(Nat)
    BY <1>1, AppendProperties
  <2> QED
    BY <1>1, <2>1, AppendProperties, LenProperties
<1>6. DOMAIN s = DOMAIN a /\ DOMAIN t = DOMAIN b
  BY <1>2
<1>7. /\ Len(s) \in Nat /\ DOMAIN s = 1 .. Len(s) /\ Len(t) \in Nat /\ DOMAIN t = 1 .. Len(t)
  BY <1>3, LenProperties
<1>8. Len(s) = Len(a) /\ Len(t) = Len(a) + 1
  BY <1>5, <1>6, <1>7
<1>9. /\ u \in Seq(SUBSET ChainEntry) /\ Len(u) = Len(s) + 1 /\ u[Len(s) + 1] = Hop(kind, text, n + 1)
      /\ \A k \in 1 .. Len(s) : u[k] = s[k]
  BY <1>3, <1>4, AppendProperties
<1> HIDE DEF u
<1>10. \A k \in 1 .. Len(a) : t[k] = u[k]
  <2>1. \A k \in 1 .. Len(a) : k \in DOMAIN b
    BY <1>5
  <2> QED
    BY <1>2, <1>5, <1>8, <1>9, <2>1
<1>11. t[Len(a) + 1] = u[Len(a) + 1]
  <2>1. Len(a) + 1 \in DOMAIN b
    BY <1>5
  <2> QED
    BY <1>2, <1>5, <1>8, <1>9, <2>1
<1>12. \A k \in 1 .. Len(t) : k \in 1 .. Len(a) \/ k = Len(a) + 1
  BY <1>5, <1>8
<1>13. Len(t) = Len(u) /\ \A k \in 1 .. Len(t) : t[k] = u[k]
  BY <1>8, <1>9, <1>10, <1>11, <1>12
<1>14. t = u
  BY <1>3, <1>9, <1>13, SeqEqual
<1> QED
  BY <1>14 DEF s, t, u

\* One hop more, and an entry for it.
LEMMA ReadsMore ==
  ASSUME NEW read \in Seq(ChainEntry), NEW before \in Seq(SUBSET ChainEntry),
         NEW kind, NEW text \in Seq(Char), NEW n \in Nat, n + 1 \in HopEnds(kind, text),
         Reads(read, before \o HopsTo(kind, text, n)),
         NEW entry \in ChainEntry, entry \in Hop(kind, text, n + 1)
  PROVE  Reads(Append(read, entry), before \o HopsTo(kind, text, n + 1))
<1> DEFINE hops == before \o HopsTo(kind, text, n)
           hop  == Hop(kind, text, n + 1)
           more == Append(hops, hop)
           now  == Append(read, entry)
<1>1. HopsTo(kind, text, n) \in Seq(SUBSET ChainEntry) /\ hop \in SUBSET ChainEntry
  BY HopsToAre, HopIsEntries
<1>2. before \o HopsTo(kind, text, n + 1) = more
  <2>1. HopsTo(kind, text, n + 1) = Append(HopsTo(kind, text, n), hop)
    BY HopsToGrow
  <2> DEFINE last == HopsTo(kind, text, n)
  <2>2. last \in Seq(SUBSET ChainEntry)
    BY <1>1
  <2> HIDE DEF hop, last
  <2>3. Append(last, hop) = last \o <<hop>> /\ <<hop>> \in Seq(SUBSET ChainEntry)
    BY <1>1, <2>2, AppendIsConcat
  <2>4. before \o last \in Seq(SUBSET ChainEntry)
    BY <2>2, ConcatProperties
  <2>5. Append(before \o last, hop) = (before \o last) \o <<hop>>
    BY <1>1, <2>4, AppendIsConcat
  <2>6. (before \o last) \o <<hop>> = before \o (last \o <<hop>>)
    BY <2>2, <2>3, ConcatAssociative
  <2> QED
    BY <2>1, <2>3, <2>5, <2>6 DEF last
<1>3. hops \in Seq(SUBSET ChainEntry)
  BY <1>1, ConcatProperties
<1>4. Len(read) = Len(hops) /\ \A k \in 1 .. Len(hops) : read[k] \in hops[k]
  BY DEF Reads
<1> HIDE DEF hops, hop
<1>5. /\ Len(more) = Len(hops) + 1 /\ more[Len(hops) + 1] = hop /\ Len(hops) \in Nat
      /\ \A k \in 1 .. Len(hops) : more[k] = hops[k]
  BY <1>1, <1>3, AppendProperties, LenProperties
<1>6. /\ Len(now) = Len(read) + 1 /\ now[Len(read) + 1] = entry
      /\ \A k \in 1 .. Len(read) : now[k] = read[k]
  BY AppendProperties
<1>7. entry \in hop
  BY DEF hop
<1> HIDE DEF more, now
<1>8. \A k \in 1 .. Len(more) : k \in 1 .. Len(hops) \/ k = Len(hops) + 1
  BY <1>5
<1>9. Len(now) = Len(more) /\ \A k \in 1 .. Len(more) : now[k] \in more[k]
  BY <1>4, <1>5, <1>6, <1>7, <1>8
<1>10. Reads(now, more)
  BY <1>9 DEF Reads
<1> QED
  BY <1>2, <1>10 DEF now

-----------------------------------------------------------------------------
(* The steps of the reader.                                                 *)

HeaderRead == ReaderInvariant /\ ReadingStands

LEMMA Standing ==
  ASSUME HeaderRead
  PROVE  /\ raw \in Seq(Char) /\ Len(raw) \in Nat
         /\ level \in Level /\ "element" \in Level /\ "pair" \in Level
         /\ \A l \in Level :
              /\ SliceOf(raw, input[l])
              /\ input[l].first \in 1 .. Len(raw) + 1 /\ input[l].last \in 0 .. Len(raw)
              /\ input[l].first <= input[l].last + 1
              /\ start[l] \in 0 .. Len(raw) + 1
              /\ start[l] # None => start[l] \in input[l].first .. input[l].last + 1
              /\ CutsOf(l) \in SUBSET (1 .. Len(raw))
              /\ Reached(l) \in 0 .. Len(raw) + 1
         /\ input["element"].first = 1 /\ input["element"].last = Len(raw)
         /\ HopsBefore(line) \in Seq(SUBSET ChainEntry)
         /\ entries \in Seq(ChainEntry)
<1>1. /\ raw \in Seq(Char) /\ Len(raw) \in Nat
      /\ \A l \in Level : /\ input[l].first \in 1 .. Len(raw) + 1
                           /\ input[l].last \in 0 .. Len(raw)
                           /\ start[l] \in 0 .. Len(raw) + 1
  BY RawIsText DEF HeaderRead, ReaderInvariant
<1>2. level \in Level /\ "element" \in Level /\ "pair" \in Level /\ entries \in Seq(ChainEntry)
  BY DEF HeaderRead, ReaderInvariant, TypeOK, Level
<1>3. /\ input["element"] = Whole(raw)
      /\ \A l \in Level : /\ SliceOf(raw, input[l])
                           /\ start[l] # None => start[l] \in input[l].first .. input[l].last + 1
  BY DEF HeaderRead, ReadingStands, IteratorsStand
<1>4. input["element"].first = 1 /\ input["element"].last = Len(raw)
  BY <1>1, <1>3, WholeIs
<1>5. ASSUME NEW l \in Level
      PROVE  /\ input[l].first <= input[l].last + 1
             /\ CutsOf(l) \in SUBSET (1 .. Len(raw))
             /\ Reached(l) \in 0 .. Len(raw) + 1
  <2>0. SliceOf(raw, input[l])
    BY DEF HeaderRead, ReadingStands, IteratorsStand
  <2>1. input[l].first <= input[l].last + 1
    BY <2>0 DEF SliceOf
  <2>2. Reached(l) \in 0 .. Len(raw) + 1
    BY <1>1, <1>3 DEF Reached, None
  <2>3. ListCuts(header.kind, raw) \in SUBSET (1 .. Len(raw))
    BY <1>1, ListCutsAre
  <2>4. DOMAIN raw = 1 .. Len(raw)
    BY <1>1, LenProperties
  <2>5. CutsOf(l) \in SUBSET (1 .. Len(raw))
    BY <2>3, <2>4 DEF CutsOf, Cuts
  <2> QED
    BY <2>1, <2>2, <2>5
<1>6. HopsBefore(line) \in Seq(SUBSET ChainEntry)
  <2>1. header.lines \in Seq(Seq(Char)) /\ line \in DOMAIN header.lines
    BY DEF HeaderRead, ReaderInvariant, TypeOK, Header
  <2>2. line \in 1 .. Len(header.lines) /\ Len(header.lines) \in Nat
    BY <2>1, LenProperties
  <2>3. line - 1 \in 0 .. Len(header.lines)
    BY <2>2
  <2>4. HopsUpTo(header.kind, header.lines)[line - 1] \in Seq(SUBSET ChainEntry)
    BY <2>1, <2>3, HopsUpToRuns
  <2> QED
    BY <2>4 DEF HopsBefore
<1>7. \A l \in Level :
        /\ SliceOf(raw, input[l])
        /\ input[l].first \in 1 .. Len(raw) + 1 /\ input[l].last \in 0 .. Len(raw)
        /\ input[l].first <= input[l].last + 1
        /\ start[l] \in 0 .. Len(raw) + 1
        /\ start[l] # None => start[l] \in input[l].first .. input[l].last + 1
        /\ CutsOf(l) \in SUBSET (1 .. Len(raw))
        /\ Reached(l) \in 0 .. Len(raw) + 1
  <2>1. TAKE l \in Level
  <2>2. /\ SliceOf(raw, input[l])
        /\ start[l] # None => start[l] \in input[l].first .. input[l].last + 1
    BY DEF HeaderRead, ReadingStands, IteratorsStand
  <2> QED
    BY <1>1, <1>5, <2>2
<1> QED
  BY <1>1, <1>2, <1>4, <1>6, <1>7

\* The scan comes to a cut where it stops.
LEMMA CutHere ==
  ASSUME HeaderRead, Scanning
  PROVE  /\ at \in CutsOf(level) <=> ~in_quotes /\ Ch = Delimiter[level]
         /\ at \in 1 .. Len(raw) /\ at \in start[level] .. input[level].last
         /\ \A i \in start[level] .. at - 1 : i \notin CutsOf(level)
<1>1. /\ raw \in Seq(Char) /\ Len(raw) \in Nat /\ level \in Level
      /\ start[level] \in Int /\ input[level].last \in 0 .. Len(raw)
  BY Standing
<1>2. pc = "scan" /\ at <= input[level].last
  BY DEF Scanning
<1>3. /\ at \in start[level] .. input[level].last + 1
      /\ \A i \in start[level] .. at - 1 : i \notin CutsOf(level)
  BY <1>2 DEF HeaderRead, ReadingStands, ScanStands
<1>4. at \in 1 .. Len(raw) + 1 /\ (in_quotes <=> at \in Inside(raw)) /\ header.kind = "Forwarded"
  BY <1>2 DEF HeaderRead, ReaderInvariant, TypeOK, ScansAgreeWithTheLine, ScanState
<1>5. at \in 1 .. Len(raw) /\ at \in start[level] .. input[level].last /\ at \in DOMAIN raw
  BY <1>1, <1>2, <1>3, <1>4, LenProperties
<1>6. at \in CutsOf(level) <=> ~in_quotes /\ Ch = Delimiter[level]
  <2>1. CASE level = "element"
    <3>1. CutsOf(level) = Cuts(raw, Comma) \ Inside(raw) /\ Delimiter[level] = Comma
      BY <1>4, <2>1 DEF CutsOf, ListCuts, Delimiter
    <3> QED
      BY <1>4, <1>5, <3>1 DEF Cuts, Ch
  <2>2. CASE level = "pair"
    <3>1. CutsOf(level) = Cuts(raw, Semicolon) \ Inside(raw) /\ Delimiter[level] = Semicolon
      BY <2>2 DEF CutsOf, Delimiter
    <3> QED
      BY <1>4, <1>5, <3>1 DEF Cuts, Ch
  <2> QED
    BY <1>1, <2>1, <2>2 DEF Level
<1> QED
  BY <1>3, <1>5, <1>6

LEMMA StandsStill ==
  ASSUME HeaderRead, UNCHANGED <<header, line, level, input, start, entries>>,
         pc = "item" <=> pc' = "item"
  PROVE  /\ raw' = raw /\ \A l \in Level : CutsOf(l)' = CutsOf(l)
         /\ IteratorsStand' /\ ElementStands' /\ EntriesStand'
<1>1. raw' = raw
  BY DEF raw
<1>2. \A l \in Level : CutsOf(l)' = CutsOf(l)
  BY <1>1 DEF CutsOf
<1>3. IteratorsStand'
  BY <1>1, <1>2 DEF HeaderRead, ReadingStands, IteratorsStand
<1>4. ElementStands'
  BY <1>1 DEF HeaderRead, ReadingStands, ElementStands, NoForUpTo, DoneWith, Reached, CutsOf
<1>5. EntriesStand'
  BY <1>1 DEF HeaderRead, ReadingStands, EntriesStand, HopsBefore, DoneWith, Reached
<1> QED
  BY <1>1, <1>2, <1>3, <1>4, <1>5

LEMMA NextItemStands ==
  ASSUME HeaderRead, NextItem PROVE ReadingStands'
<1>1. /\ raw' = raw /\ \A l \in Level : CutsOf(l)' = CutsOf(l)
      /\ IteratorsStand' /\ ElementStands' /\ EntriesStand'
  BY StandsStill DEF NextItem, iterators
<1>2. at' = start[level] /\ pc' = "scan" /\ UNCHANGED <<level, start, input>>
  BY DEF NextItem, iterators
<1>3. /\ level \in Level /\ start[level] \in input[level].first .. input[level].last + 1
      /\ input[level].first \in Int /\ input[level].last \in Int
  BY Standing DEF NextItem
<1>4. ScanStands'
  <2>1. at' \in start[level] .. input[level].last + 1
    BY <1>2, <1>3
  <2>2. \A i \in start[level] .. at' - 1 : FALSE
    BY <1>2, <1>3
  <2> QED
    BY <1>2, <2>1, <2>2 DEF ScanStands
<1> QED
  BY <1>1, <1>2, <1>4 DEF ReadingStands, ItemStands, EndStands

LEMMA ScanStepStands ==
  ASSUME HeaderRead, PassEscaped \/ Escape \/ OpenOrCloseQuotes \/ Pass
  PROVE  ReadingStands'
<1>1. /\ UNCHANGED <<header, line, pc, level, input, start, item, entries>>
      /\ at' = at + 1 /\ pc = "scan" /\ Scanning
  BY DEF PassEscaped, Escape, OpenOrCloseQuotes, Pass, Go, Scanning, iterators
<1>2. /\ raw' = raw /\ \A l \in Level : CutsOf(l)' = CutsOf(l)
      /\ IteratorsStand' /\ ElementStands' /\ EntriesStand'
  BY <1>1, StandsStill
<1>3. /\ at \in CutsOf(level) <=> ~in_quotes /\ Ch = Delimiter[level]
      /\ at \in 1 .. Len(raw) /\ at \in start[level] .. input[level].last
      /\ \A i \in start[level] .. at - 1 : i \notin CutsOf(level)
  BY <1>1, CutHere
<1>4. /\ raw \in Seq(Char) /\ Len(raw) \in Nat /\ level \in Level
      /\ start[level] \in Int /\ input[level].last \in Int
  BY Standing
<1>5. (in_quotes <=> at \in Inside(raw)) /\ (escaped <=> at \in Escaped(raw))
  BY <1>1 DEF HeaderRead, ReaderInvariant, ScansAgreeWithTheLine
<1>6. escaped => in_quotes
  BY <1>3, <1>4, <1>5, PositionsInside
<1>7. Quote # Comma /\ Quote # Semicolon /\ Delimiter[level] \in {Comma, Semicolon}
  BY <1>4 DEF Quote, Comma, Semicolon, Mark, Delimiter, Level
<1>8. at \notin CutsOf(level)
  BY <1>3, <1>6, <1>7 DEF PassEscaped, Escape, OpenOrCloseQuotes, Pass
<1>9. \A i \in start[level] .. (at + 1) - 1 : i \notin CutsOf(level)
  <2>1. \A i \in start[level] .. (at + 1) - 1 : i \in start[level] .. at - 1 \/ i = at
    BY <1>3, <1>4
  <2> QED
    BY <1>3, <1>8, <2>1
<1>10. at + 1 \in start[level] .. input[level].last + 1
  BY <1>3, <1>4
<1>11. ScanStands'
  BY <1>1, <1>2, <1>4, <1>9, <1>10 DEF ScanStands
<1> QED
  BY <1>1, <1>2, <1>11 DEF ReadingStands, ItemStands, EndStands

\* An item is cut out between two cuts.
LEMMA YieldStands ==
  ASSUME HeaderRead, NEW last \in Nat, NEW next \in Nat, Yield(last, next),
         pc # "item", start[level] # None,
         start[level] <= last + 1, last <= input[level].last,
         \A i \in start[level] .. last : i \notin CutsOf(level),
         \/ next = last + 2 /\ last + 1 \in CutsOf(level) /\ last + 1 <= input[level].last
         \/ next = None /\ last = input[level].last
  PROVE  ReadingStands'
<1> DEFINE end == last + 1
<1>1. /\ item' = Trim(raw, Slice(start[level], last))
      /\ start' = [start EXCEPT ![level] = next]
      /\ pc' = "item"
      /\ UNCHANGED <<header, line, level, input, scan, entries>>
  BY DEF Yield
<1>2. /\ raw \in Seq(Char) /\ Len(raw) \in Nat /\ level \in Level
      /\ input[level].first \in 1 .. Len(raw) + 1 /\ input[level].last \in 0 .. Len(raw)
      /\ start[level] \in input[level].first .. input[level].last + 1
      /\ start \in [Level -> 0 .. Len(raw) + 1]
      /\ CutsOf(level) \in SUBSET (1 .. Len(raw))
  BY Standing DEF HeaderRead, ReaderInvariant, TypeOK
<1>3. raw' = raw /\ \A l \in Level : CutsOf(l)' = CutsOf(l)
  <2>1. raw' = raw
    BY <1>1 DEF raw
  <2> QED
    BY <1>1, <2>1 DEF CutsOf
<1>4. start'[level] = next /\ \A l \in Level : l # level => start'[l] = start[l]
  BY <1>1, <1>2
<1>5. Reached(level)' = end /\ \A l \in Level : l # level => Reached(l)' = Reached(l)
  <2>1. Reached(level)' = end
    <3>1. Reached(level)' = IF start'[level] = None THEN input[level].last + 1 ELSE start'[level] - 1
      BY <1>1 DEF Reached
    <3> QED
      BY <1>2, <1>4, <3>1 DEF None
  <2>2. \A l \in Level : l # level => Reached(l)' = Reached(l)
    BY <1>1, <1>4 DEF Reached
  <2> QED
    BY <2>1, <2>2
<1>6. end \in Ends(input[level], CutsOf(level)) /\ end \in input[level].first .. input[level].last + 1
  BY <1>2 DEF Ends
<1>7. IteratorsStand'
  <2>1. ASSUME NEW l \in Level
        PROVE  /\ SliceOf(raw, input[l])
               /\ start'[l] # None =>
                    /\ start'[l] \in input[l].first .. input[l].last + 1
                    /\ start'[l] = input[l].first \/ start'[l] - 1 \in CutsOf(l)
    <3>1. /\ SliceOf(raw, input[l])
          /\ start[l] # None =>
               /\ start[l] \in input[l].first .. input[l].last + 1
               /\ start[l] = input[l].first \/ start[l] - 1 \in CutsOf(l)
      BY DEF HeaderRead, ReadingStands, IteratorsStand
    <3>2. CASE l # level
      BY <1>4, <3>1, <3>2
    <3>3. CASE l = level
      <4>1. CASE next = last + 2 /\ last + 1 \in CutsOf(level) /\ last + 1 <= input[level].last
        <5>1. next \in input[level].first .. input[level].last + 1 /\ next - 1 = last + 1
          BY <1>2, <4>1
        <5> QED
          BY <1>4, <3>1, <3>3, <4>1, <5>1
      <4>2. CASE next = None
        BY <1>4, <3>1, <3>3, <4>2
      <4> QED
        BY <4>1, <4>2
    <3> QED
      BY <3>2, <3>3
  <2>2. input["element"] = Whole(raw)
    BY DEF HeaderRead, ReadingStands, IteratorsStand
  <2> QED
    BY <1>1, <1>3, <2>1, <2>2 DEF IteratorsStand
<1>8. ItemStands'
  <2>1. Starts(input[level], CutsOf(level), end, start[level])
    <3>1. start[level] = input[level].first \/ start[level] - 1 \in CutsOf(level)
      BY <1>2 DEF HeaderRead, ReadingStands, IteratorsStand
    <3>2. end - 1 = last /\ start[level] \in input[level].first .. end
      BY <1>2
    <3> QED
      BY <3>1, <3>2 DEF Starts
  <2>2. Item(raw, input[level], CutsOf(level), end) = Trim(raw, Slice(start[level], end - 1))
    <3>1. input[level].first \in Int /\ end \in Int
      BY <1>2
    <3> QED
      BY <2>1, <3>1, ItemStarts
  <2>3. end - 1 = last
    OBVIOUS
  <2> HIDE DEF end
  <2> QED
    BY <1>1, <1>2, <1>3, <1>5, <1>6, <2>2, <2>3 DEF ItemStands
<1>9. ElementStands'
  <2> SUFFICES ASSUME level = "pair" PROVE ElementStands'
    BY <1>1 DEF ElementStands
  <2>1. "element" \in Level /\ "pair" \in Level
    BY DEF Level
  <2>2. /\ header.kind = "Forwarded" /\ Reached("element") \in HopEnds(header.kind, raw)
        /\ input["pair"] = ListItem(header.kind, raw, Reached("element"))
        /\ NoForUpTo(start["pair"] - 1)
    BY DEF HeaderRead, ReadingStands, ElementStands, DoneWith, Reached
  <2>3. Reached("element")' = Reached("element") /\ CutsOf("pair")' = CutsOf("pair")
    BY <1>3, <1>5, <2>1
  <2>4. DoneWith("pair")' = last
    BY <1>1, <1>5 DEF DoneWith
  <2>5. NoForUpTo(last)
    <3>1. ASSUME NEW e \in Ends(input["pair"], CutsOf("pair")), e <= last
          PROVE  ~NameIsFor(raw, Item(raw, input["pair"], CutsOf("pair"), e))
      <4>1. e <= input["pair"].last /\ e \in CutsOf("pair") /\ e \in Int
        BY <1>2, <3>1 DEF Ends
      <4>2. e <= start["pair"] - 1
        BY <1>2, <3>1, <4>1
      <4> QED
        BY <2>2, <3>1, <4>2 DEF NoForUpTo
    <3> QED
      BY <3>1 DEF NoForUpTo
  <2>6. NoForUpTo(last)'
    BY <1>1, <1>3, <2>3, <2>5 DEF NoForUpTo
  <2>7. NoForUpTo(DoneWith("pair"))'
    BY <1>1, <1>3, <2>3, <2>4, <2>5 DEF NoForUpTo
  <2> QED
    BY <1>1, <1>3, <2>2, <2>3, <2>7 DEF ElementStands
<1>10. EntriesStand'
  <2>1. "element" \in Level /\ Len(raw) = input["element"].last
    BY Standing
  <2>2. HopsBefore(line)' = HopsBefore(line)
    BY <1>1 DEF HopsBefore
  <2>3. Reads(entries, HopsBefore(line) \o HopsTo(header.kind, raw, DoneWith("element")))
    BY DEF HeaderRead, ReadingStands, EntriesStand
  <2>4. HopsTo(header.kind, raw, DoneWith("element")') = HopsTo(header.kind, raw, DoneWith("element"))
    <3>1. CASE level = "pair"
      BY <1>1, <1>5, <2>1, <3>1 DEF DoneWith
    <3>2. CASE level = "element"
      <4>1. DoneWith("element")' = last /\ DoneWith("element") = start[level] - 1
        BY <1>1, <1>5, <3>2 DEF DoneWith, Reached
      <4>2. \A i \in (start[level] - 1) + 1 .. last : i \notin HopEnds(header.kind, raw)
        <5>1. ASSUME NEW i \in (start[level] - 1) + 1 .. last PROVE i \notin HopEnds(header.kind, raw)
          <6>1. i \in start[level] .. last /\ i # Len(raw) + 1
            BY <1>2, <2>1, <3>2
          <6>2. i \notin CutsOf(level)
            BY <6>1
          <6>3. i \notin ListCuts(header.kind, raw)
            BY <3>2, <6>2 DEF CutsOf
          <6>4. Whole(raw).last = Len(raw)
            BY <1>2, WholeIs
          <6> QED
            BY <6>1, <6>3, <6>4 DEF HopEnds, Ends
        <5> QED
          BY <5>1
      <4>3. start[level] - 1 \in Nat /\ start[level] - 1 <= last
        BY <1>2
      <4>4. HopsTo(header.kind, raw, last) = HopsTo(header.kind, raw, start[level] - 1)
        BY <4>2, <4>3, HopsToSkips
      <4> QED
        BY <4>1, <4>4
    <3> QED
      BY <1>2, <3>1, <3>2 DEF Level
  <2> QED
    BY <1>1, <1>3, <2>2, <2>3, <2>4 DEF EntriesStand
<1> QED
  BY <1>1, <1>7, <1>8, <1>9, <1>10 DEF ReadingStands, ScanStands, EndStands

LEMMA CutStands ==
  ASSUME HeaderRead, CutAtDelimiter PROVE ReadingStands'
<1>1. Scanning /\ ~in_quotes /\ Ch = Delimiter[level] /\ pc # "item"
  BY DEF CutAtDelimiter, Scanning
<1>2. /\ at \in CutsOf(level)
      /\ at \in 1 .. Len(raw) /\ at \in start[level] .. input[level].last
      /\ \A i \in start[level] .. at - 1 : i \notin CutsOf(level)
  BY <1>1, CutHere
<1>3. start[level] # None /\ start[level] \in Int /\ input[level].last \in Int /\ Len(raw) \in Nat
  BY <1>1, Standing DEF HeaderRead, ReaderInvariant, ScanState, Scanning
<1> DEFINE last == at - 1
           next == at + 1
<1>4. Yield(last, next)
  BY DEF CutAtDelimiter
<1>5. last \in Nat /\ next \in Nat /\ next = last + 2 /\ last + 1 = at
  BY <1>2, <1>3
<1>6. start[level] <= last + 1 /\ last <= input[level].last /\ last + 1 <= input[level].last
  BY <1>2, <1>3
<1>7. \A i \in start[level] .. last : i \notin CutsOf(level)
  BY <1>2
<1>8. last + 1 \in CutsOf(level)
  BY <1>2, <1>5
<1> HIDE DEF last, next
<1> QED
  BY <1>1, <1>3, <1>4, <1>5, <1>6, <1>7, <1>8, YieldStands

LEMMA LastItemStands ==
  ASSUME HeaderRead, LastItem PROVE ReadingStands'
<1>1. pc = "scan" /\ at > input[level].last /\ Yield(input[level].last, None)
  BY DEF LastItem
<1>2. start[level] # None /\ input[level].last \in Nat /\ start[level] \in Int
  BY <1>1, Standing DEF HeaderRead, ReaderInvariant, ScanState
<1>3. /\ at \in start[level] .. input[level].last + 1
      /\ \A i \in start[level] .. at - 1 : i \notin CutsOf(level)
  BY <1>1 DEF HeaderRead, ReadingStands, ScanStands
<1>4. at = input[level].last + 1 /\ at - 1 = input[level].last
  BY <1>1, <1>2, <1>3
<1>5. start[level] <= input[level].last + 1
  BY <1>2, <1>3, <1>4
<1>6. None \in Nat
  BY DEF None
<1> QED
  BY <1>1, <1>2, <1>3, <1>4, <1>5, <1>6, YieldStands

LEMMA NextListedStands ==
  ASSUME HeaderRead, NextListed PROVE ReadingStands'
<1> DEFINE rest  == Slice(start[level], input[level].last)
           comma == Find(raw, rest, Comma)
<1>1. /\ pc = "next" /\ header.kind = "XForwardedFor" /\ start[level] # None
      /\ IF comma = None THEN Yield(rest.last, None) ELSE Yield(comma - 1, comma + 1)
  BY DEF NextListed
<1>2. level = "element" /\ level \in Level
  BY <1>1 DEF HeaderRead, ReadingStands, ElementStands, ReaderInvariant, TypeOK, Level
<1>3. /\ raw \in Seq(Char) /\ Len(raw) \in Nat /\ input[level].last = Len(raw)
      /\ input[level].first = 1 /\ start[level] \in 1 .. Len(raw) + 1
  BY <1>1, <1>2, Standing DEF None
<1>4. rest.first = start[level] /\ rest.last = input[level].last
  BY DEF Slice
<1>5. \/ comma = 0 /\ \A i \in start[level] .. Len(raw) : raw[i] # Comma
      \/ /\ comma \in start[level] .. Len(raw) /\ raw[comma] = Comma
         /\ \A i \in start[level] .. comma - 1 : raw[i] # Comma
  BY <1>3, <1>4, FindFirst
<1>6. CutsOf(level) = Cuts(raw, Comma) /\ DOMAIN raw = 1 .. Len(raw)
  BY <1>1, <1>2, <1>3, LenProperties DEF CutsOf, ListCuts
<1>7. \A i \in 1 .. Len(raw) : i \in CutsOf(level) <=> raw[i] = Comma
  BY <1>6 DEF Cuts
<1>8. CutsOf(level) \in SUBSET (1 .. Len(raw))
  BY <1>6 DEF Cuts
<1> HIDE DEF rest, comma
<1>9. CASE comma = 0 /\ \A i \in start[level] .. Len(raw) : raw[i] # Comma
  <2>1. \A i \in start[level] .. Len(raw) : i \notin CutsOf(level)
    BY <1>6, <1>9 DEF Cuts
  <2>2. Yield(Len(raw), None) /\ None \in Nat /\ start[level] <= Len(raw) + 1
    BY <1>1, <1>3, <1>4, <1>9 DEF None
  <2> QED
    BY <1>1, <1>3, <2>1, <2>2, YieldStands
<1>10. CASE /\ comma \in start[level] .. Len(raw) /\ raw[comma] = Comma
            /\ \A i \in start[level] .. comma - 1 : raw[i] # Comma
  <2> DEFINE last == comma - 1
             next == comma + 1
  <2>1. last \in Nat /\ next \in Nat /\ next = last + 2 /\ last + 1 = comma /\ comma # None
    BY <1>3, <1>10 DEF None
  <2>2. start[level] <= last + 1 /\ last <= Len(raw) /\ last + 1 <= Len(raw)
    BY <1>3, <1>10
  <2>3. \A i \in start[level] .. last : i \notin CutsOf(level)
    BY <1>6, <1>10 DEF Cuts
  <2>4. last + 1 \in CutsOf(level)
    BY <1>3, <1>7, <1>10, <2>1
  <2>5. Yield(last, next)
    BY <1>1, <2>1
  <2> HIDE DEF last, next
  <2> QED
    BY <1>1, <1>3, <2>1, <2>2, <2>3, <2>4, <2>5, YieldStands
<1> QED
  BY <1>5, <1>9, <1>10

\* The item in hand is done with: the loop goes on, and has read one hop more if it
\* was one.
LEMMA GoesOn ==
  ASSUME HeaderRead, pc # "read", pc' = "next", level' = "element",
         UNCHANGED <<header, line, input, start>>,
         DoneWith("element") = Reached("element") - 1,
         \/ Reached("element") \notin HopEnds(header.kind, raw) /\ entries' = entries
         \/ /\ Reached("element") \in HopEnds(header.kind, raw)
            /\ \E entry \in ChainEntry \cap Hop(header.kind, raw, Reached("element")) :
                 Push(entry)
  PROVE  ReadingStands'
<1> DEFINE end == Reached("element")
<1>1. raw' = raw /\ \A l \in Level : CutsOf(l)' = CutsOf(l)
  <2>1. raw' = raw
    BY DEF raw
  <2> QED
    BY <2>1 DEF CutsOf
<1>2. /\ raw \in Seq(Char) /\ Len(raw) \in Nat /\ end \in 0 .. Len(raw) + 1
      /\ HopsBefore(line) \in Seq(SUBSET ChainEntry) /\ entries \in Seq(ChainEntry)
  BY Standing
<1>3. IteratorsStand'
  BY <1>1 DEF HeaderRead, ReadingStands, IteratorsStand
<1>4. end >= 1
  <2>1. CASE start["element"] = None
    BY <1>2, <2>1, Standing DEF Reached
  <2>2. CASE start["element"] # None
    <3>1. pc = "item" \/ level = "pair"
      BY <1>2 DEF DoneWith
    <3>2. CASE pc = "item" /\ level = "element"
      <4>1. end \in Ends(input["element"], CutsOf("element"))
        BY <3>2 DEF HeaderRead, ReadingStands, ItemStands
      <4> QED
        BY <4>1, Standing DEF Ends
    <3>3. CASE level = "pair"
      <4>1. end \in HopEnds(header.kind, raw)
        BY <3>3 DEF HeaderRead, ReadingStands, ElementStands
      <4>2. HopEnds(header.kind, raw) \in SUBSET (1 .. Len(raw) + 1)
        BY <1>2, ListCutsAre
      <4> QED
        BY <1>2, <4>1, <4>2
    <3> QED
      BY <3>1, <3>2, <3>3, Standing DEF Level
  <2> QED
    BY <2>1, <2>2
<1>5. Reads(entries, HopsBefore(line) \o HopsTo(header.kind, raw, end - 1))
  BY DEF HeaderRead, ReadingStands, EntriesStand
<1>6. Reads(entries', HopsBefore(line) \o HopsTo(header.kind, raw, end))
  <2> DEFINE n == end - 1
  <2>1. n \in Nat /\ n + 1 = end /\ end \in Nat /\ n <= end
    BY <1>2, <1>4
  <2>2. CASE end \notin HopEnds(header.kind, raw) /\ entries' = entries
    <3>1. \A i \in n + 1 .. end : i \notin HopEnds(header.kind, raw)
      BY <2>1, <2>2
    <3> HIDE DEF n, end
    <3>2. HopsTo(header.kind, raw, end) = HopsTo(header.kind, raw, n)
      BY <2>1, <3>1, HopsToSkips
    <3> QED
      BY <1>5, <2>2, <3>2 DEF n
  <2>3. CASE /\ end \in HopEnds(header.kind, raw)
             /\ \E entry \in ChainEntry \cap Hop(header.kind, raw, end) : Push(entry)
    <3>1. PICK entry \in ChainEntry \cap Hop(header.kind, raw, end) : Push(entry)
      BY <2>3
    <3>2. Reads(entries, HopsBefore(line) \o HopsTo(header.kind, raw, n))
      BY <1>5
    <3>3. n + 1 \in HopEnds(header.kind, raw) /\ entry \in Hop(header.kind, raw, n + 1)
      BY <2>1, <2>3
    <3> HIDE DEF n
    <3>4. Reads(Append(entries, entry), HopsBefore(line) \o HopsTo(header.kind, raw, n + 1))
      BY <1>2, <2>1, <3>2, <3>3, ReadsMore
    <3> QED
      BY <2>1, <3>1, <3>4 DEF Push
  <2> QED
    BY <2>2, <2>3
<1>7. EntriesStand'
  <2>1. DoneWith("element")' = end
    BY DEF DoneWith, Reached
  <2>2. HopsBefore(line)' = HopsBefore(line)
    BY DEF HopsBefore
  <2> HIDE DEF end
  <2> QED
    BY <1>1, <1>6, <2>1, <2>2 DEF EntriesStand
<1> QED
  BY <1>3, <1>7 DEF ReadingStands, ScanStands, ItemStands, ElementStands, EndStands

\* The item that list_header_entries or forwarded_entries has in hand.
LEMMA ListItemInHand ==
  ASSUME HeaderRead, pc = "item", level = "element"
  PROVE  /\ item = ListItem(header.kind, raw, Reached("element"))
         /\ Reached("element") \in HopEnds(header.kind, raw) <=> ~IsEmpty(item)
         /\ DoneWith("element") = Reached("element") - 1
         /\ SliceOf(raw, item)
<1>1. /\ item = Item(raw, input["element"], CutsOf("element"), Reached("element"))
      /\ Reached("element") \in Ends(input["element"], CutsOf("element"))
      /\ input["element"] = Whole(raw)
  BY DEF HeaderRead, ReadingStands, ItemStands, IteratorsStand
<1>2. CutsOf("element") = ListCuts(header.kind, raw)
  BY DEF CutsOf
<1>3. item = ListItem(header.kind, raw, Reached("element"))
  BY <1>1, <1>2 DEF ListItem
<1>4. Reached("element") \in HopEnds(header.kind, raw) <=> ~IsEmpty(item)
  BY <1>1, <1>2, <1>3 DEF HopEnds
<1>5. SliceOf(raw, item)
  <2>1. /\ Len(raw) \in Nat /\ SliceOf(raw, input["element"])
        /\ input["element"].first = 1 /\ input["element"].last = Len(raw)
    BY Standing
  <2>2. Reached("element") \in input["element"].first .. input["element"].last + 1
    BY <1>1, <2>1 DEF Ends
  <2> QED
    BY <1>1, <2>1, <2>2, ItemWithin
<1> QED
  BY <1>3, <1>4, <1>5 DEF DoneWith

LEMMA SkipEmptyStands ==
  ASSUME HeaderRead, SkipEmpty PROVE ReadingStands'
<1>1. pc = "item" /\ level = "element" /\ IsEmpty(item)
  BY DEF SkipEmpty
<1>2. Reached("element") \notin HopEnds(header.kind, raw) /\ DoneWith("element") = Reached("element") - 1
  BY <1>1, ListItemInHand
<1>3. pc' = "next" /\ level' = "element" /\ UNCHANGED <<header, line, input, start, entries>> /\ pc # "read"
  BY <1>1 DEF SkipEmpty, iterators
<1> QED
  BY <1>2, <1>3, GoesOn

LEMMA ListedHopStands ==
  ASSUME HeaderRead, ListedHop PROVE ReadingStands'
<1>1. pc = "item" /\ ~IsEmpty(item) /\ header.kind = "XForwardedFor" /\ Push(EntryOf(Text(raw, item)))
  BY DEF ListedHop
<1>2. level = "element"
  BY <1>1, Standing DEF HeaderRead, ReadingStands, ElementStands, Level
<1>3. /\ Reached("element") \in HopEnds(header.kind, raw) /\ SliceOf(raw, item)
      /\ DoneWith("element") = Reached("element") - 1
      /\ item = ListItem(header.kind, raw, Reached("element"))
  BY <1>1, <1>2, ListItemInHand
<1>4. Text(raw, item) \in Seq(Char)
  <2>1. raw \in Seq(Char) /\ item.first \in Nat \ {0} /\ item.last \in Int /\ item.last <= Len(raw)
    BY <1>3, Standing DEF SliceOf
  <2> QED
    BY <2>1, PieceOfText DEF Text
<1>5. EntryOf(Text(raw, item)) \in ChainEntry
  BY <1>4, EntryOfIsEntry
<1>6. EntryOf(Text(raw, item)) \in Hop(header.kind, raw, Reached("element"))
  <2>1. Hop(header.kind, raw, Reached("element")) = {Node(Text(raw, item))}
    BY <1>1, <1>3 DEF Hop
  <2> QED
    BY <1>4, <2>1, EntryOfIsNode
<1>7. pc' = "next" /\ level' = "element" /\ UNCHANGED <<header, line, input, start>> /\ pc # "read"
  BY <1>1, <1>2 DEF ListedHop, iterators
<1> QED
  BY <1>1, <1>3, <1>5, <1>6, <1>7, GoesOn

LEMMA OpenElementStands ==
  ASSUME HeaderRead, OpenElement PROVE ReadingStands'
<1>1. /\ pc = "item" /\ level = "element" /\ ~IsEmpty(item) /\ header.kind = "Forwarded"
      /\ level' = "pair" /\ pc' = "next" /\ UNCHANGED <<header, line, entries>>
      /\ input' = [input EXCEPT !["pair"] = item] /\ start' = [start EXCEPT !["pair"] = item.first]
  BY DEF OpenElement
<1>2. /\ Reached("element") \in HopEnds(header.kind, raw) /\ SliceOf(raw, item)
      /\ DoneWith("element") = Reached("element") - 1
      /\ item = ListItem(header.kind, raw, Reached("element"))
  BY <1>1, ListItemInHand
<1>3. /\ input \in [Level -> SlicesOf(raw)] /\ start \in [Level -> 0 .. Len(raw) + 1]
      /\ "element" \in Level /\ "pair" \in Level /\ Level = {"element", "pair"}
  BY DEF HeaderRead, ReaderInvariant, TypeOK, Level
<1>4. /\ input'["pair"] = item /\ input'["element"] = input["element"]
      /\ start'["pair"] = item.first /\ start'["element"] = start["element"]
  BY <1>1, <1>3
<1>5. raw' = raw /\ \A l \in Level : CutsOf(l)' = CutsOf(l)
  <2>1. raw' = raw
    BY <1>1 DEF raw
  <2> QED
    BY <1>1, <2>1 DEF CutsOf
<1>6. /\ Len(raw) \in Nat /\ item.first \in 1 .. Len(raw) + 1 /\ item.last \in 0 .. Len(raw)
      /\ item.first <= item.last
  BY <1>1, <1>2, Standing DEF SliceOf, IsEmpty
<1>7. /\ input["element"] = Whole(raw)
      /\ SliceOf(raw, input["element"])
      /\ start["element"] # None =>
           /\ start["element"] \in input["element"].first .. input["element"].last + 1
           /\ start["element"] = input["element"].first \/ start["element"] - 1 \in CutsOf("element")
  BY <1>3 DEF HeaderRead, ReadingStands, IteratorsStand
<1>8. IteratorsStand'
  <2>1. ASSUME NEW l \in Level
        PROVE  /\ SliceOf(raw, input'[l])
               /\ start'[l] # None =>
                    /\ start'[l] \in input'[l].first .. input'[l].last + 1
                    /\ start'[l] = input'[l].first \/ start'[l] - 1 \in CutsOf(l)
    <3>1. CASE l = "element"
      BY <1>4, <1>7, <3>1
    <3>2. CASE l = "pair"
      <4>1. item.first \in item.first .. item.last + 1
        BY <1>6
      <4> QED
        BY <1>2, <1>4, <3>2, <4>1
    <3> QED
      BY <1>3, <3>1, <3>2
  <2> QED
    BY <1>4, <1>5, <1>7, <2>1 DEF IteratorsStand
<1>9. Reached("element")' = Reached("element") /\ DoneWith("element")' = DoneWith("element")
  <2>1. Reached("element")' = Reached("element")
    BY <1>4 DEF Reached
  <2> QED
    BY <1>1, <1>2, <2>1 DEF DoneWith
<1>10. EntriesStand'
  <2>1. HopsBefore(line)' = HopsBefore(line)
    BY <1>1 DEF HopsBefore
  <2>2. Reads(entries, HopsBefore(line) \o HopsTo(header.kind, raw, DoneWith("element")))
    BY DEF HeaderRead, ReadingStands, EntriesStand
  <2> QED
    BY <1>1, <1>5, <1>9, <2>1, <2>2 DEF EntriesStand
<1>11. ElementStands'
  <2>1. DoneWith("pair")' = item.first - 1
    <3>1. Reached("pair")' = item.first - 1
      BY <1>4, <1>6 DEF Reached, None
    <3> QED
      BY <1>1, <3>1 DEF DoneWith
  <2>2. \A e \in Ends(item, CutsOf("pair")) : ~(e <= item.first - 1)
    BY <1>6 DEF Ends
  <2>3. NoForUpTo(DoneWith("pair"))'
    BY <1>3, <1>4, <1>5, <2>1, <2>2 DEF NoForUpTo
  <2> QED
    BY <1>1, <1>2, <1>4, <1>5, <1>9, <2>3 DEF ElementStands
<1> QED
  BY <1>1, <1>8, <1>10, <1>11 DEF ReadingStands, ScanStands, ItemStands, EndStands

\* The pair that forwarded_element_entry has in hand.
LEMMA PairInHand ==
  ASSUME HeaderRead, pc = "item", level = "pair"
  PROVE  /\ item = Item(raw, input["pair"], CutsOf("pair"), Reached("pair"))
         /\ Reached("pair") \in Ends(input["pair"], CutsOf("pair"))
         /\ NoForUpTo(Reached("pair") - 1)
         /\ IsFor <=> NameIsFor(raw, item)
<1>1. /\ item = Item(raw, input["pair"], CutsOf("pair"), Reached("pair"))
      /\ Reached("pair") \in Ends(input["pair"], CutsOf("pair"))
  BY DEF HeaderRead, ReadingStands, ItemStands
<1>2. NoForUpTo(Reached("pair") - 1)
  BY DEF HeaderRead, ReadingStands, ElementStands, DoneWith
<1>3. IsFor <=> NameIsFor(raw, item)
  BY DEF IsFor, NameIsFor, Equal, None
<1> QED
  BY <1>1, <1>2, <1>3

LEMMA SkipPairStands ==
  ASSUME HeaderRead, SkipPair PROVE ReadingStands'
<1>1. /\ pc = "item" /\ level = "pair" /\ ~IsFor /\ pc' = "next"
      /\ UNCHANGED <<header, line, level, input, start, entries>>
  BY DEF SkipPair, iterators
<1>2. /\ item = Item(raw, input["pair"], CutsOf("pair"), Reached("pair"))
      /\ NoForUpTo(Reached("pair") - 1) /\ ~NameIsFor(raw, item)
  BY <1>1, PairInHand
<1>3. raw' = raw /\ CutsOf("pair")' = CutsOf("pair")
  BY <1>1 DEF raw, CutsOf
<1>4. IteratorsStand'
  <2>1. \A l \in Level : CutsOf(l)' = CutsOf(l)
    BY <1>1, <1>3 DEF CutsOf
  <2> QED
    BY <1>1, <1>3, <2>1 DEF HeaderRead, ReadingStands, IteratorsStand
<1>5. \A l \in Level : Reached(l)' = Reached(l)
  BY <1>1 DEF Reached
<1>6. "element" \in Level /\ "pair" \in Level /\ Reached("pair") \in Int
      /\ Len(raw) \in Nat /\ CutsOf("pair") \in SUBSET (1 .. Len(raw))
      /\ input["pair"].last \in Int
  BY Standing
<1>7. NoForUpTo(Reached("pair"))
  <2>1. ASSUME NEW e \in Ends(input["pair"], CutsOf("pair")), e <= Reached("pair")
        PROVE  ~NameIsFor(raw, Item(raw, input["pair"], CutsOf("pair"), e))
    <3>1. e \in Int
      BY <1>6 DEF Ends
    <3>2. e = Reached("pair") \/ e <= Reached("pair") - 1
      BY <1>6, <2>1, <3>1
    <3> QED
      BY <1>2, <2>1, <3>2 DEF NoForUpTo
  <2> QED
    BY <2>1 DEF NoForUpTo
<1>8. ElementStands'
  <2>1. DoneWith("pair")' = Reached("pair")
    BY <1>1, <1>5, <1>6 DEF DoneWith
  <2>2. NoForUpTo(DoneWith("pair"))'
    BY <1>1, <1>3, <1>7, <2>1 DEF NoForUpTo
  <2>3. Reached("element")' = Reached("element")
    BY <1>5, <1>6
  <2> QED
    BY <1>1, <1>3, <2>2, <2>3 DEF HeaderRead, ReadingStands, ElementStands
<1>9. EntriesStand'
  <2>1. DoneWith("element")' = DoneWith("element")
    BY <1>1, <1>5, <1>6 DEF DoneWith
  <2> QED
    BY <1>1, <1>3, <2>1 DEF HeaderRead, ReadingStands, EntriesStand, HopsBefore
<1> QED
  BY <1>1, <1>4, <1>8, <1>9 DEF ReadingStands, ScanStands, ItemStands, EndStands

\* The element that is left with an entry of its hop.
LEMMA ClosedElementStands ==
  ASSUME HeaderRead, level = "pair", pc \in {"next", "item"},
         NEW entry \in ChainEntry, CloseElement(entry),
         entry \in ElementHop(raw, input["pair"])
  PROVE  ReadingStands'
<1>1. /\ header.kind = "Forwarded"
      /\ Reached("element") \in HopEnds(header.kind, raw)
      /\ input["pair"] = ListItem(header.kind, raw, Reached("element"))
  BY DEF HeaderRead, ReadingStands, ElementStands
<1>2. entry \in ChainEntry \cap Hop(header.kind, raw, Reached("element"))
  BY <1>1 DEF Hop
<1>3. /\ Push(entry) /\ level' = "element" /\ pc' = "next" /\ pc # "read"
      /\ UNCHANGED <<header, line, input, start>>
  BY DEF CloseElement, iterators
<1>4. DoneWith("element") = Reached("element") - 1
  BY DEF DoneWith
<1> QED
  BY <1>1, <1>2, <1>3, <1>4, GoesOn

LEMMA ForPairStands ==
  ASSUME HeaderRead, ForPair PROVE ReadingStands'
<1>1. pc = "item" /\ level = "pair" /\ IsFor /\ CloseElement(EntryOf(Unquoted(ForValue)))
  BY DEF ForPair
<1> DEFINE cuts == Cuts(raw, Semicolon) \ Inside(raw)
           element == input["pair"]
           end == Reached("pair")
           fors == {e \in Ends(element, cuts) : NameIsFor(raw, Item(raw, element, cuts, e))}
<1>2. /\ item = Item(raw, element, cuts, end) /\ end \in Ends(element, cuts)
      /\ NoForUpTo(end - 1) /\ NameIsFor(raw, item)
  BY <1>1, PairInHand DEF CutsOf
<1>3. /\ Len(raw) \in Nat /\ cuts \in SUBSET (1 .. Len(raw)) /\ raw \in Seq(Char)
      /\ SliceOf(raw, element) /\ element.first \in 1 .. Len(raw) + 1 /\ element.last \in 0 .. Len(raw)
  <2>1. "pair" \in Level /\ CutsOf("pair") = cuts
    BY DEF Level, CutsOf
  <2> QED
    BY <2>1, Standing
<1>4. fors \in SUBSET Int
  BY <1>3 DEF Ends
<1>5. end \in fors
  BY <1>2
<1>6. \A e \in fors : end <= e
  <2>1. ASSUME NEW e \in fors, e < end PROVE FALSE
    <3>1. CutsOf("pair") = cuts
      BY DEF CutsOf
    <3>2. e \in Ends(element, cuts) /\ NameIsFor(raw, Item(raw, element, cuts, e))
      BY <2>1
    <3> HIDE DEF fors, end, cuts, element
    <3>3. e \in Int /\ end \in Int
      BY <1>4, <1>5, <2>1
    <3>4. e <= end - 1
      BY <2>1, <3>3
    <3> QED
      BY <1>2, <3>1, <3>2, <3>4 DEF NoForUpTo, element
  <2> QED
    BY <1>4, <1>5, <2>1
<1>7. Least(fors) = end
  <2> HIDE DEF fors, end
  <2> QED
    BY <1>4, <1>5, <1>6, LeastIs
<1>8. ElementHop(raw, element) = Value(ForValue)
  <2>1. fors # {}
    BY <1>5
  <2>2. ElementHop(raw, element) =
          IF fors = {} THEN {Opaque}
          ELSE LET pair == Item(raw, element, cuts, Least(fors))
                   value == Slice(Find(raw, pair, Equals) + 1, pair.last)
               IN  Value(Text(raw, Trim(raw, value)))
    BY DEF ElementHop
  <2> HIDE DEF fors, end, cuts, element
  <2>3. ElementHop(raw, element) =
          Value(Text(raw, Trim(raw, Slice(Find(raw, item, Equals) + 1, item.last))))
    BY <1>2, <1>7, <2>1, <2>2
  <2> QED
    BY <2>3 DEF ForValue, Equal
<1>9. ForValue \in Seq(Char)
  <2>1. /\ item.first \in 1 .. Len(raw) + 1 /\ item.last \in 0 .. Len(raw)
    BY RawIsText DEF HeaderRead, ReaderInvariant
  <2>2. Equal \in item.first .. item.last
    BY <1>1, <2>1, FindBounds DEF IsFor, Equal, None
  <2>3. Slice(Equal + 1, item.last) \in SlicesOf(raw)
    BY <1>3, <2>1, <2>2 DEF Slice, SlicesOf
  <2>4. Trim(raw, Slice(Equal + 1, item.last)) \in SlicesOf(raw)
    BY <1>3, <2>3, TrimBounds
  <2> QED
    BY <1>3, <2>4, PieceOfText DEF ForValue, Text, SlicesOf
<1>10. EntryOf(Unquoted(ForValue)) \in ChainEntry /\ EntryOf(Unquoted(ForValue)) \in Value(ForValue)
  BY <1>9, UnquotedIsText, EntryOfIsEntry, EntryOfValue
<1> QED
  BY <1>1, <1>8, <1>10, ClosedElementStands

LEMMA NoForPairStands ==
  ASSUME HeaderRead, NoForPair PROVE ReadingStands'
<1>1. pc = "next" /\ level = "pair" /\ start["pair"] = None /\ CloseElement(Opaque)
  BY DEF NoForPair
<1> DEFINE cuts == Cuts(raw, Semicolon) \ Inside(raw)
           element == input["pair"]
           fors == {e \in Ends(element, cuts) : NameIsFor(raw, Item(raw, element, cuts, e))}
<1>2. NoForUpTo(element.last + 1)
  BY <1>1 DEF HeaderRead, ReadingStands, ElementStands, DoneWith, Reached
<1>3. CutsOf("pair") = cuts
  BY DEF CutsOf
<1>4. Len(raw) \in Nat /\ element.first \in Int /\ element.last \in Int
  BY Standing
<1>5. fors = {}
  <2>1. \A e \in Ends(element, cuts) : e <= element.last + 1
    BY <1>4 DEF Ends
  <2> QED
    BY <1>2, <1>3, <2>1 DEF NoForUpTo
<1>6. ElementHop(raw, element) = {Opaque}
  BY <1>5 DEF ElementHop
<1>7. Opaque \in ChainEntry
  BY DEF Opaque, ChainEntry
<1> QED
  BY <1>1, <1>6, <1>7, ClosedElementStands

\* The last item of the last element of a line has been read.
LEMMA LineIsRead ==
  ASSUME HeaderRead, pc # "item", level = "element", start["element"] = None
  PROVE  /\ Reads(entries, HopsUpTo(header.kind, header.lines)[line])
         /\ header.lines \in Seq(Seq(Char)) /\ Len(header.lines) \in Nat
         /\ line \in 1 .. Len(header.lines)
<1>1. header.lines \in Seq(Seq(Char)) /\ line \in DOMAIN header.lines
  BY DEF HeaderRead, ReaderInvariant, TypeOK, Header
<1>2. line \in 1 .. Len(header.lines) /\ Len(header.lines) \in Nat
  BY <1>1, LenProperties
<1>3. HopsUpTo(header.kind, header.lines)[line] = HopsBefore(line) \o LineHops(header.kind, raw)
  BY <1>1, <1>2, HopsUpToRuns DEF HopsBefore, raw
<1>4. DoneWith("element") = Len(raw) + 1
  BY Standing DEF DoneWith, Reached
<1>5. HopsTo(header.kind, raw, Len(raw) + 1) = LineHops(header.kind, raw)
  BY Standing, HopsToAre
<1>6. Reads(entries, HopsBefore(line) \o HopsTo(header.kind, raw, DoneWith("element")))
  BY DEF HeaderRead, ReadingStands, EntriesStand
<1> QED
  BY <1>1, <1>2, <1>3, <1>4, <1>5, <1>6

\* The first item of a line is still to come.
LEMMA LineStands ==
  ASSUME NEW text \in Seq(Char), NEW kind
  PROVE  /\ SliceOf(text, Whole(text)) /\ SliceOf(text, Slice(1, 0))
         /\ 1 \in Whole(text).first .. Whole(text).last + 1 /\ Whole(text).first = 1
         /\ HopsTo(kind, text, 0) = <<>>
<1>1. /\ Len(text) \in Nat /\ Whole(text).first = 1 /\ Whole(text).last = Len(text)
      /\ SliceOf(text, Whole(text))
  BY WholeIs
<1>2. SliceOf(text, Slice(1, 0))
  <2>1. Slice(1, 0).first = 1 /\ Slice(1, 0).last = 0 /\ Slice(1, 0) = Slice(Slice(1, 0).first, Slice(1, 0).last)
    BY SliceIs
  <2> QED
    BY <1>1, <2>1 DEF SliceOf
<1> QED
  BY <1>1, <1>2, HopsToAre

LEMMA NextLineStands ==
  ASSUME HeaderRead, NextLine PROVE ReadingStands'
<1>1. /\ pc = "next" /\ level = "element" /\ start["element"] = None /\ line < Len(header.lines)
      /\ UNCHANGED <<header, pc, level, entries>> /\ line' = line + 1
      /\ input' = [element |-> Whole(raw'), pair |-> Slice(1, 0)]
      /\ start' = [element |-> 1, pair |-> None]
  BY DEF NextLine
<1>2. /\ Reads(entries, HopsUpTo(header.kind, header.lines)[line])
      /\ header.lines \in Seq(Seq(Char)) /\ Len(header.lines) \in Nat
      /\ line \in 1 .. Len(header.lines)
  BY <1>1, LineIsRead
<1>3. raw' \in Seq(Char)
  <2>1. line + 1 \in 1 .. Len(header.lines) /\ raw' = header.lines[line + 1]
    BY <1>1, <1>2 DEF raw
  <2> QED
    BY <1>2, <2>1, ElementOfSeq
<1>4. /\ SliceOf(raw', Whole(raw')) /\ SliceOf(raw', Slice(1, 0))
      /\ 1 \in Whole(raw').first .. Whole(raw').last + 1 /\ Whole(raw').first = 1
      /\ HopsTo(header.kind, raw', 0) = <<>>
  BY <1>3, LineStands
<1>5. IteratorsStand'
  <2>1. \A l \in Level : l = "element" \/ l = "pair"
    BY DEF Level
  <2>2. /\ input'["element"] = Whole(raw') /\ start'["element"] = 1
        /\ input'["pair"] = Slice(1, 0) /\ start'["pair"] = None
    BY <1>1
  <2>3. ASSUME NEW l \in Level
        PROVE  /\ SliceOf(raw', input'[l])
               /\ start'[l] # None =>
                    /\ start'[l] \in input'[l].first .. input'[l].last + 1
                    /\ start'[l] = input'[l].first
    BY <1>4, <2>1, <2>2
  <2> QED
    BY <2>2, <2>3 DEF IteratorsStand
<1>6. EntriesStand'
  <2>1. DoneWith("element")' = 0
    <3>1. start'["element"] = 1 /\ pc' # "item" /\ level' # "pair"
      BY <1>1
    <3> QED
      BY <3>1 DEF DoneWith, Reached, None
  <2>2. HopsBefore(line)' = HopsUpTo(header.kind, header.lines)[line]
    <3>1. line' - 1 = line
      BY <1>1, <1>2
    <3> QED
      BY <1>1, <3>1 DEF HopsBefore
  <2> DEFINE hops == HopsUpTo(header.kind, header.lines)[line]
  <2>3. hops \o <<>> = hops
    <3>1. hops \in Seq(SUBSET ChainEntry)
      <4>1. line \in 0 .. Len(header.lines)
        BY <1>2
      <4> QED
        BY <1>2, <4>1, HopsUpToRuns
    <3> QED
      BY <3>1, ConcatEmptySeq
  <2> QED
    BY <1>1, <1>2, <1>4, <2>1, <2>2, <2>3 DEF EntriesStand
<1> QED
  BY <1>1, <1>5, <1>6 DEF ReadingStands, ScanStands, ItemStands, ElementStands, EndStands

LEMMA NoLineLeftStands ==
  ASSUME HeaderRead, NoLineLeft PROVE ReadingStands'
<1>1. /\ pc = "next" /\ level = "element" /\ start["element"] = None /\ line = Len(header.lines)
      /\ pc' = "read" /\ UNCHANGED <<header, line, level, input, start, entries>>
  BY DEF NoLineLeft, iterators
<1>2. IteratorsStand' /\ ElementStands' /\ EntriesStand'
  BY <1>1, StandsStill
<1> QED
  BY <1>1, <1>2 DEF ReadingStands, ScanStands, ItemStands, EndStands

LEMMA InitStands == Init => ReadingStands
<1> SUFFICES ASSUME Init PROVE ReadingStands
  OBVIOUS
<1>1. /\ header \in Header /\ line = 1 /\ pc = "next" /\ level = "element" /\ entries = <<>>
      /\ input = [element |-> Whole(raw), pair |-> Slice(1, 0)]
      /\ start = [element |-> 1, pair |-> None]
  BY ReaderAssumption DEF Init
<1>2. raw \in Seq(Char) /\ header.lines \in Seq(Seq(Char))
  <2>1. TypeOK
    BY InitInvariant DEF ReaderInvariant
  <2> QED
    BY <2>1, RawIsText DEF TypeOK, Header
<1>3. /\ SliceOf(raw, Whole(raw)) /\ SliceOf(raw, Slice(1, 0))
      /\ 1 \in Whole(raw).first .. Whole(raw).last + 1 /\ Whole(raw).first = 1
      /\ HopsTo(header.kind, raw, 0) = <<>>
  BY <1>2, LineStands
<1>4. IteratorsStand
  <2>1. \A l \in Level : l = "element" \/ l = "pair"
    BY DEF Level
  <2>2. /\ input["element"] = Whole(raw) /\ start["element"] = 1
        /\ input["pair"] = Slice(1, 0) /\ start["pair"] = None
    BY <1>1
  <2>3. ASSUME NEW l \in Level
        PROVE  /\ SliceOf(raw, input[l])
               /\ start[l] # None =>
                    /\ start[l] \in input[l].first .. input[l].last + 1
                    /\ start[l] = input[l].first
    BY <1>3, <2>1, <2>2
  <2> QED
    BY <2>2, <2>3 DEF IteratorsStand
<1>5. EntriesStand
  <2>1. DoneWith("element") = 0
    <3>1. start["element"] = 1 /\ pc # "item" /\ level # "pair"
      BY <1>1
    <3> QED
      BY <3>1 DEF DoneWith, Reached, None
  <2>2. HopsBefore(line) = <<>>
    <3>1. HopsUpTo(header.kind, header.lines)[0] = <<>>
      BY <1>2, HopsUpToRuns
    <3>2. line - 1 = 0
      BY <1>1
    <3> QED
      BY <3>1, <3>2 DEF HopsBefore
  <2>3. <<>> \o <<>> = <<>> /\ Reads(<<>>, <<>>)
    <3>1. <<>> \in Seq(ChainEntry) /\ Len(<<>>) = 0
      BY EmptySeq
    <3>2. <<>> \o <<>> = <<>>
      BY <3>1, ConcatEmptySeq
    <3> QED
      BY <3>1, <3>2 DEF Reads
  <2> QED
    BY <1>1, <1>3, <2>1, <2>2, <2>3 DEF EntriesStand
<1> QED
  BY <1>1, <1>4, <1>5 DEF ReadingStands, ScanStands, ItemStands, ElementStands, EndStands

LEMMA NextStands == HeaderRead /\ [Next]_vars => ReadingStands'
<1> SUFFICES ASSUME HeaderRead, [Next]_vars PROVE ReadingStands'
  OBVIOUS
<1>1. CASE UNCHANGED vars
  <2>1. UNCHANGED <<header, line, pc, level, input, start, at, item, entries>>
    BY <1>1 DEF vars, iterators, scan
  <2>2. /\ raw' = raw /\ \A l \in Level : CutsOf(l)' = CutsOf(l)
        /\ IteratorsStand' /\ ElementStands' /\ EntriesStand'
    BY <2>1, StandsStill
  <2>3. Reached(level)' = Reached(level) /\ CutsOf(level)' = CutsOf(level)
    BY <2>1, <2>2 DEF Reached, CutsOf
  <2>4. ScanStands' /\ ItemStands' /\ EndStands'
    BY <2>1, <2>2, <2>3 DEF HeaderRead, ReadingStands, ScanStands, ItemStands, EndStands
  <2> QED
    BY <2>2, <2>4 DEF ReadingStands
<1>2. CASE HandedOver
  BY <1>1, <1>2 DEF HandedOver
<1>3. CASE NextItem
  BY <1>3, NextItemStands
<1>4. CASE PassEscaped \/ Escape \/ OpenOrCloseQuotes \/ Pass
  BY <1>4, ScanStepStands
<1>5. CASE CutAtDelimiter
  BY <1>5, CutStands
<1>6. CASE LastItem
  BY <1>6, LastItemStands
<1>7. CASE NextListed
  BY <1>7, NextListedStands
<1>8. CASE SkipEmpty
  BY <1>8, SkipEmptyStands
<1>9. CASE ListedHop
  BY <1>9, ListedHopStands
<1>10. CASE OpenElement
  BY <1>10, OpenElementStands
<1>11. CASE SkipPair
  BY <1>11, SkipPairStands
<1>12. CASE ForPair
  BY <1>12, ForPairStands
<1>13. CASE NoForPair
  BY <1>13, NoForPairStands
<1>14. CASE NextLine
  BY <1>14, NextLineStands
<1>15. CASE NoLineLeft
  BY <1>15, NoLineLeftStands
<1> QED
  BY <1>1, <1>2, <1>3, <1>4, <1>5, <1>6, <1>7, <1>8, <1>9, <1>10, <1>11, <1>12, <1>13,
     <1>14, <1>15 DEF Next, Step

(***************************************************************************)
(* At every step of the reader, the entries made so far are those of the   *)
(* hops that the lines hold up to where it is, and its two iterators stand *)
(* at an item of their list (SplitQuoted, forwarded_element_entry).        *)
(***************************************************************************)
THEOREM HeaderIsRead == Spec => []HeaderRead
<1>1. Init => HeaderRead
  BY InitInvariant, InitStands DEF HeaderRead
<1>2. HeaderRead /\ [Next]_vars => HeaderRead'
  BY NextInvariant, NextStands DEF HeaderRead
<1> QED
  BY <1>1, <1>2, PTL DEF Spec

\* What is handed over, one entry for each hop of the header.
LEMMA AllHopsAreRead ==
  ASSUME HeaderRead, pc # "item", level = "element", start["element"] = None,
         line = Len(header.lines)
  PROVE  Reads(entries, Hops(header))
<1>1. header \in Header /\ header.lines \in Seq(Seq(Char))
  BY DEF HeaderRead, ReaderInvariant, TypeOK, Header
<1>2. HopsUpTo(header.kind, header.lines)[Len(header.lines)] = HopsOneByOne(header.kind, header.lines)
  BY <1>1, HopsUpToRuns
<1>3. Hops(header) = HopsOneByOne(header.kind, header.lines)
  BY <1>1, HopsAreLineByLine
<1> QED
  BY <1>2, <1>3, LineIsRead

(***************************************************************************)
(* Reading character by character, with an iterator inside an iterator,    *)
(* gives one entry for each hop that the header has when it is read as a   *)
(* whole, as one list (forwarded_entries, list_header_entries), for any    *)
(* number of lines of any length and any address space.                    *)
(***************************************************************************)
THEOREM HeaderGrammarIsImplemented == Spec => ImplementsHeaderGrammar
<1>1. Init => Reading!Init
  BY ReaderAssumption DEF Init, Reading!Init
<1>2. HeaderRead /\ [Next]_vars => [Reading!Next]_Reading!reading
  <2> SUFFICES ASSUME HeaderRead, [Next]_vars PROVE [Reading!Next]_Reading!reading
    OBVIOUS
  <2>1. CASE NoLineLeft
    <3>1. /\ pc = "next" /\ level = "element" /\ start["element"] = None
          /\ line = Len(header.lines) /\ pc' = "read" /\ UNCHANGED <<header, entries>>
      BY <2>1 DEF NoLineLeft
    <3>2. Reads(entries, Hops(header))
      BY <3>1, AllHopsAreRead
    <3>3. DOMAIN Hops(header) = 1 .. Len(Hops(header))
      <4>1. header \in Header /\ header.lines \in Seq(Seq(Char))
        BY DEF HeaderRead, ReaderInvariant, TypeOK, Header
      <4>2. Hops(header) = HopsUpTo(header.kind, header.lines)[Len(header.lines)]
        BY <4>1, HopsAreLineByLine, HopsUpToRuns
      <4>3. Len(header.lines) \in 0 .. Len(header.lines)
        BY <4>1, LenProperties
      <4>4. Hops(header) \in Seq(SUBSET ChainEntry)
        BY <4>1, <4>2, <4>3, HopsUpToRuns
      <4> QED
        BY <4>4, LenProperties
    <3>4. Reading!Reply
      BY <3>1, <3>2, <3>3 DEF Reading!Reply, Reads
    <3> QED
      BY <3>4 DEF Reading!Next
  <2>2. CASE UNCHANGED <<header, pc, entries>>
    BY <2>2 DEF Reading!reading
  <2>3. CASE header' = header /\ pc # "read" /\ pc' # "read"
    BY <2>3 DEF Reading!reading
  <2>4. CASE UNCHANGED vars
    BY <2>2, <2>4 DEF vars
  <2>5. CASE HandedOver
    BY <2>4, <2>5 DEF HandedOver
  <2>6. CASE NextItem \/ PassEscaped \/ Escape \/ OpenOrCloseQuotes \/ Pass \/ NextListed
             \/ CutAtDelimiter \/ LastItem
    BY <2>3, <2>6 DEF NextItem, PassEscaped, Escape, OpenOrCloseQuotes, Pass, Go, Scanning,
                      NextListed, CutAtDelimiter, LastItem, Yield
  <2>7. CASE SkipEmpty \/ ListedHop \/ OpenElement \/ SkipPair \/ ForPair \/ NoForPair \/ NextLine
    BY <2>3, <2>7 DEF SkipEmpty, ListedHop, OpenElement, SkipPair, ForPair, NoForPair, CloseElement,
                      NextLine
  <2> QED
    BY <2>1, <2>4, <2>5, <2>6, <2>7 DEF Next, Step
<1> QED
  BY <1>1, <1>2, HeaderIsRead, PTL DEF Spec, ImplementsHeaderGrammar, Reading!Spec

-----------------------------------------------------------------------------
(* Parts of a line.                                                         *)

LEMMA CanonicalOnce ==
  ASSUME NEW ip \in IpAddr
  PROVE  Ip(ip).ip \in IpAddr /\ Ip(Ip(ip).ip) = Ip(ip) /\ Ip(ip) # Opaque
<1>1. CanonicalIp(ip) \in IpAddr /\ ~IsMapped(CanonicalIp(ip))
  BY CanonicalIpIsCanonical
<1>2. CanonicalIp(CanonicalIp(ip)) = CanonicalIp(ip)
  BY <1>1 DEF CanonicalIp
<1>3. Ip(ip).ip = CanonicalIp(ip) /\ Ip(ip).entry = "Ip"
  BY DEF Ip
<1>4. Opaque.entry = "Opaque"
  BY DEF Opaque
<1>5. Ip(CanonicalIp(ip)) = [entry |-> "Ip", ip |-> CanonicalIp(ip)]
  BY <1>2 DEF Ip
<1> QED
  BY <1>1, <1>3, <1>4, <1>5 DEF Ip

LEMMA AddressEntry ==
  ASSUME NEW text \in Seq(Char), IsAddress(text)
  PROVE  text[1].ip \in IpAddr /\ EntryOf(text) = Ip(text[1].ip)
<1>1. /\ Len(text) = 1 /\ text[1].char = "address"
      /\ text[1].ip \in IpAddr /\ text[1] = Address(text[1].ip)
  BY AddressIs DEF IsAddress
<1>2. Trimmed(text) = text
  <2> DEFINE inked == {i \in 1 .. 1 : text[i] # Space}
  <2>1. text[1] # Space
    BY <1>1 DEF Space, Mark
  <2>2. inked = {1} /\ inked \in SUBSET Int
    BY <2>1
  <2>3. Whole(text).first = 1 /\ Whole(text).last = 1 /\ Whole(text) = Slice(1, 1)
    BY <1>1, WholeIs DEF Whole
  <2>4. Trim(text, Whole(text)) = Slice(Least(inked), Greatest(inked))
    BY <2>2, <2>3 DEF Trim
  <2> HIDE DEF inked
  <2>5. Least(inked) = 1 /\ Greatest(inked) = 1
    <3>1. 1 \in inked /\ \A j \in inked : 1 <= j /\ 1 >= j
      BY <2>2
    <3> QED
      BY <2>2, <3>1, LeastIs, GreatestIs
  <2>6. Trimmed(text) = SubSeq(text, 1, 1)
    BY <2>4, <2>5, SliceIs DEF Trimmed, Text
  <2> QED
    BY <1>1, <2>6, SubSeqFull
<1>3. EntryOf(text) = EntryMade(text)
  BY <1>2 DEF EntryOf, EntryMade
<1>4. EntryMade(text) = Parsed(text)
  BY <1>1, MadeOf
<1> QED
  BY <1>1, <1>3, <1>4, AddressIs

LEMMA PartIs ==
  ASSUME NEW text \in Seq(Char)
  PROVE  LET hop == ElementHop(text, Whole(text))
         IN  /\ text = <<>> => PartOf(text) = [text |-> "empty"]
             /\ text # <<>> => PartOf(text).text # "empty"
             /\ IsAddress(text) => PartOf(text) = [text |-> "plain", ip |-> text[1].ip]
             /\ text # <<>> /\ ~IsAddress(text) /\ EntryOf(text) # Opaque =>
                  PartOf(text) = [text |-> "ported", ip |-> EntryOf(text).ip]
             /\ text # <<>> /\ EntryOf(text) = Opaque /\ hop # {Opaque} =>
                  PartOf(text) = [text |-> "for", ip |-> (CHOOSE e \in hop : TRUE).ip]
             /\ text # <<>> /\ EntryOf(text) = Opaque /\ hop = {Opaque} =>
                  PartOf(text) = [text |-> "opaque"]
<1> DEFINE hop == ElementHop(text, Whole(text))
           chosen == (CHOOSE e \in hop : TRUE).ip
<1>1. text = <<>> => ~IsAddress(text) /\ EntryOf(text) = Opaque
  <2> SUFFICES ASSUME text = <<>> PROVE ~IsAddress(text) /\ EntryOf(text) = Opaque
    OBVIOUS
  <2>1. Len(text) = 0 /\ 1 .. Len(text) = {}
    BY EmptySeq
  <2>2. Node(text) # Opaque => \E ip \in IpAddr : \E i \in 1 .. Len(text) : text[i] = Address(ip)
    BY NodeHolds
  <2>3. Node(text) = Opaque
    BY <2>1, <2>2
  <2>4. EntryOf(text) = Opaque
    BY <2>3, EntryOfIsNode
  <2> QED
    BY <2>1, <2>4 DEF IsAddress
<1>2. IsAddress(text) => EntryOf(text) # Opaque
  BY AddressEntry, CanonicalOnce
<1>3. PartOf(text) =
        CASE text = <<>> -> [text |-> "empty"]
          [] IsAddress(text) -> [text |-> "plain", ip |-> text[1].ip]
          [] ~IsAddress(text) /\ EntryOf(text) # Opaque ->
               [text |-> "ported", ip |-> EntryOf(text).ip]
          [] text # <<>> /\ EntryOf(text) = Opaque /\ hop # {Opaque} ->
               [text |-> "for", ip |-> chosen]
          [] OTHER -> [text |-> "opaque"]
  BY DEF PartOf
<1> HIDE DEF chosen
<1>4. /\ text = <<>> => PartOf(text) = [text |-> "empty"]
      /\ IsAddress(text) => PartOf(text) = [text |-> "plain", ip |-> text[1].ip]
      /\ text # <<>> /\ ~IsAddress(text) /\ EntryOf(text) # Opaque =>
           PartOf(text) = [text |-> "ported", ip |-> EntryOf(text).ip]
      /\ text # <<>> /\ EntryOf(text) = Opaque /\ hop # {Opaque} =>
           PartOf(text) = [text |-> "for", ip |-> chosen]
      /\ text # <<>> /\ EntryOf(text) = Opaque /\ hop = {Opaque} =>
           PartOf(text) = [text |-> "opaque"]
  <2> HIDE DEF hop
  <2> QED
    BY <1>1, <1>2, <1>3
<1>5. text # <<>> => PartOf(text).text # "empty"
  BY <1>2, <1>4
<1> QED
  BY <1>4, <1>5 DEF chosen

\* What a part says to a reader of either kind.
LEMMA PartTells ==
  ASSUME NEW text \in Seq(Char), text # <<>>
  PROVE  /\ Node(text) = ListEntry(PartOf(text))
         /\ IsClosed(text) => ElementHop(text, Whole(text)) = {ForwardedEntry(PartOf(text))}
<1> DEFINE hop == ElementHop(text, Whole(text))
           part == PartOf(text)
<1>1. EntryOf(text) = Node(text)
  BY EntryOfIsNode
<1>2. IsAddress(text) => Node(text) = Ip(text[1].ip) /\ text[1].ip \in IpAddr /\ Node(text) # Opaque
  BY <1>1, AddressEntry, CanonicalOnce
<1>3. Node(text) # Opaque => Ip(Node(text).ip) = Node(text)
  BY NodeHolds, CanonicalOnce
<1>4. /\ IsAddress(text) => part = [text |-> "plain", ip |-> text[1].ip]
      /\ ~IsAddress(text) /\ Node(text) # Opaque => part = [text |-> "ported", ip |-> Node(text).ip]
      /\ Node(text) = Opaque /\ hop # {Opaque} =>
           part = [text |-> "for", ip |-> (CHOOSE e \in hop : TRUE).ip]
      /\ Node(text) = Opaque /\ hop = {Opaque} => part = [text |-> "opaque"]
  BY <1>1, PartIs
<1> HIDE DEF hop, part
<1>5. Node(text) = ListEntry(part)
  <2>1. CASE IsAddress(text)
    BY <1>2, <1>4, <2>1 DEF ListEntry
  <2>2. CASE ~IsAddress(text) /\ Node(text) # Opaque
    BY <1>3, <1>4, <2>2 DEF ListEntry
  <2>3. CASE ~IsAddress(text) /\ Node(text) = Opaque
    <3>1. part.text \in {"for", "opaque"}
      BY <1>4, <2>3
    <3> QED
      BY <2>3, <3>1 DEF ListEntry
  <2> QED
    BY <2>1, <2>2, <2>3
<1>6. ASSUME IsClosed(text) PROVE hop = {ForwardedEntry(part)}
  <2>1. PICK e \in {Opaque} \cup {Ip(ip) : ip \in IpAddr} : hop = {e}
    BY <1>6, OneReading DEF hop
  <2>2. hop # {Opaque} => \E i \in 1 .. Len(text) : text[i] = Equals
    BY <1>6, OneReading DEF hop
  <2>3. CASE e = Opaque
    <3>1. part.text \in {"plain", "ported", "opaque"}
      BY <1>4, <2>1, <2>3
    <3> QED
      BY <2>1, <2>3, <3>1 DEF ForwardedEntry
  <2>4. CASE e # Opaque
    <3>1. PICK ip \in IpAddr : e = Ip(ip)
      BY <2>1, <2>4
    <3>2. Node(text) = Opaque
      BY <2>1, <2>2, <2>4, NodeHolds
    <3>3. (CHOOSE x \in hop : TRUE) = e
      BY <2>1
    <3>4. part = [text |-> "for", ip |-> e.ip]
      BY <1>4, <2>1, <2>4, <3>2, <3>3
    <3>5. Ip(e.ip) = e
      BY <3>1, CanonicalOnce
    <3> QED
      BY <2>1, <3>4, <3>5 DEF ForwardedEntry
  <2> QED
    BY <2>3, <2>4
<1> QED
  BY <1>5, <1>6 DEF hop, part

NoCommaInside(text) == IsClosed(text) /\ Cuts(text, Comma) \cap Inside(text) = {}

\* And so it does where it stands.
LEMMA PartTellsHop ==
  ASSUME NEW text \in Seq(Char), NoCommaInside(text), NEW kind,
         NEW end \in Ends(Whole(text), Cuts(text, Comma)),
         NEW slice, slice = Item(text, Whole(text), Cuts(text, Comma), end)
  PROVE  /\ ListCuts(kind, text) = Cuts(text, Comma)
         /\ end \in HopEnds(kind, text) <=> PartOf(Text(text, slice)).text # "empty"
         /\ end \in HopEnds(kind, text) =>
              Hop(kind, text, end) = {Entry(kind, PartOf(Text(text, slice)))}
<1> DEFINE cuts == Cuts(text, Comma)
           t == Text(text, slice)
<1>1. ListCuts(kind, text) = cuts
  BY DEF NoCommaInside, ListCuts
<1>2. slice = ListItem(kind, text, end)
  BY <1>1 DEF ListItem
<1>3. /\ Len(text) \in Nat /\ DOMAIN text = 1 .. Len(text)
      /\ Whole(text).first = 1 /\ Whole(text).last = Len(text) /\ SliceOf(text, Whole(text))
  BY WholeIs, LenProperties
<1>4. cuts \in SUBSET (1 .. Len(text)) /\ \A i \in cuts : i \notin Inside(text) /\ text[i] # Quote
  <2>1. Comma # Quote
    BY DEF Comma, Quote, Mark
  <2> QED
    BY <1>3, <2>1 DEF Cuts, NoCommaInside
<1>5. Whole(text).first \notin Inside(text) /\ Whole(text).last + 1 \notin Inside(text)
  BY <1>3, LineStartsOutside DEF NoCommaInside, IsClosed
<1>6. SliceOf(text, slice) /\ slice.first \notin Inside(text) /\ slice.last + 1 \notin Inside(text)
  <2> HIDE DEF cuts
  <2>1. slice = Item(text, Whole(text), cuts, end) /\ end \in Ends(Whole(text), cuts)
    BY DEF cuts
  <2> QED
    BY <1>3, <1>4, <1>5, <2>1, ItemScan
<1> DEFINE d == slice.first - 1
<1>7. /\ t \in Seq(Char) /\ Len(t) = (slice.last - slice.first) + 1
      /\ Matches(text, t, Whole(t), d) /\ InsideMatches(text, t, Whole(t), d)
      /\ IsClosed(t) /\ Moved(Whole(t), d) = slice
  BY <1>6, PieceScan
<1>8. end \in HopEnds(kind, text) <=> ~IsEmpty(slice)
  BY <1>1, <1>2 DEF HopEnds
<1> HIDE DEF t, d
<1>9. IsEmpty(slice) <=> t = <<>>
  <2>1. slice.first \in Int /\ slice.last \in Int /\ slice.first <= slice.last + 1
    BY <1>3, <1>6 DEF SliceOf
  <2>2. IsEmpty(slice) <=> Len(t) = 0
    BY <1>7, <2>1 DEF IsEmpty
  <2>3. t = <<>> <=> Len(t) = 0
    BY <1>7, EmptySeq
  <2> QED
    BY <2>2, <2>3
<1>10. end \in HopEnds(kind, text) <=> PartOf(t).text # "empty"
  <2>1. /\ t = <<>> => PartOf(t) = [text |-> "empty"]
        /\ t # <<>> => PartOf(t).text # "empty"
    BY <1>7, PartIs
  <2>2. t = <<>> => PartOf(t).text = "empty"
    BY <2>1
  <2> QED
    BY <1>8, <1>9, <2>1, <2>2
<1>11. ASSUME end \in HopEnds(kind, text) PROVE Hop(kind, text, end) = {Entry(kind, PartOf(t))}
  <2>1. t # <<>>
    BY <1>8, <1>9, <1>11
  <2>2. Node(t) = ListEntry(PartOf(t)) /\ ElementHop(t, Whole(t)) = {ForwardedEntry(PartOf(t))}
    BY <1>7, <2>1, PartTells
  <2>3. ElementHop(text, slice) = ElementHop(t, Whole(t))
    BY <1>7, ElementHopMoves
  <2>4. Hop(kind, text, end) = IF kind = "Forwarded" THEN ElementHop(text, slice) ELSE {Node(t)}
    BY <1>2 DEF Hop, t
  <2> QED
    BY <2>2, <2>3, <2>4 DEF Entry
<1> QED
  BY <1>1, <1>10, <1>11 DEF t

LEMMA PartsTellTheLine ==
  ASSUME NEW text \in Seq(Char), NoCommaInside(text), NEW kind,
         NEW read \in Seq(ChainEntry), Reads(read, LineHops(kind, text))
  PROVE  LET parts == PartsOf(text)
             told  == InOrder({k \in DOMAIN parts : parts[k].text # "empty"}, Len(parts))
         IN  read = [k \in DOMAIN told |-> Entry(kind, parts[told[k]])]
<1> DEFINE n == Len(text) + 1
           P == Ends(Whole(text), Cuts(text, Comma))
           Q == HopEnds(kind, text)
           ends == InOrder(P, n)
           hops == InOrder(Q, n)
           parts == PartsOf(text)
           kept == Kept(P, Q, n)
           told == InOrderKept(P, Q, n)
           PartAt(e) == PartOf(Text(text, Item(text, Whole(text), Cuts(text, Comma), e)))
<1>1. Len(text) \in Nat /\ n \in Nat
  BY LenProperties
<1>2. ASSUME NEW e \in P
      PROVE  /\ ListCuts(kind, text) = Cuts(text, Comma)
             /\ e \in Q <=> PartAt(e).text # "empty"
             /\ e \in Q => Hop(kind, text, e) = {Entry(kind, PartAt(e))}
  BY PartTellsHop
<1>3. Q \in SUBSET P
  <2>1. ListCuts(kind, text) = Cuts(text, Comma)
    BY DEF NoCommaInside, ListCuts
  <2> QED
    BY <2>1 DEF HopEnds
<1>4. ends \in Seq(Nat) /\ \A k \in DOMAIN ends : ends[k] \in P
  BY <1>1, InOrderLists
<1>5. parts = [k \in DOMAIN ends |-> PartAt(ends[k])]
  BY DEF PartsOf
<1>6. KeptIs(P, Q, n)
  <2> HIDE DEF P, Q, n
  <2> QED
    BY <1>1, <1>3, InOrderTwice
<1>7. /\ LineHops(kind, text) \in Seq(SUBSET ChainEntry) /\ Len(LineHops(kind, text)) = Len(hops)
      /\ \A k \in 1 .. Len(LineHops(kind, text)) :
           hops[k] \in Q /\ LineHops(kind, text)[k] = Hop(kind, text, hops[k])
  BY LineHopsAre
<1> HIDE DEF P, Q, PartAt, n
<1>8. Len(hops) = Len(told) /\ \A k \in 1 .. Len(hops) : hops[k] = ends[told[k]]
  BY <1>6 DEF KeptIs
<1>9. DOMAIN ends = 1 .. Len(ends) /\ Len(ends) \in Nat /\ DOMAIN parts = 1 .. Len(ends) /\ Len(parts) = Len(ends)
  <2>1. DOMAIN ends = 1 .. Len(ends) /\ Len(ends) \in Nat
    BY <1>4, LenProperties
  <2> HIDE DEF ends
  <2>2. parts = [k \in 1 .. Len(ends) |-> PartAt(ends[k])]
    BY <1>5, <2>1
  <2>3. Len(parts) = Len(ends)
    BY <2>1, <2>2
  <2> QED
    BY <2>1, <2>2, <2>3
<1>10. {k \in DOMAIN parts : parts[k].text # "empty"} = kept
  <2>1. \A k \in DOMAIN parts : parts[k] = PartAt(ends[k]) /\ ends[k] \in P
    BY <1>4, <1>5, <1>9
  <2>2. \A k \in DOMAIN parts : parts[k].text # "empty" <=> ends[k] \in Q
    BY <1>2, <2>1
  <2> HIDE DEF parts
  <2> QED
    BY <1>9, <2>2 DEF Kept
<1>11. InOrder({k \in DOMAIN parts : parts[k].text # "empty"}, Len(parts)) = told
  BY <1>9, <1>10 DEF InOrderKept
<1>12. /\ told \in Seq(Nat) /\ DOMAIN told = 1 .. Len(told) /\ Len(told) \in Nat
       /\ \A k \in DOMAIN told : told[k] \in 1 .. Len(ends)
  <2>1. told \in Seq(Nat) /\ \A k \in DOMAIN told : told[k] \in (1 .. Len(ends)) \cap kept
    BY <1>9, InOrderLists DEF InOrderKept
  <2> HIDE DEF told
  <2> QED
    BY <2>1, LenProperties
<1> HIDE DEF told, hops, ends, kept
<1>13. Len(read) = Len(told) /\ DOMAIN read = 1 .. Len(told)
  BY <1>7, <1>8, LenProperties DEF Reads
<1>14. ASSUME NEW k \in 1 .. Len(told) PROVE read[k] = Entry(kind, parts[told[k]])
  <2>1. k \in 1 .. Len(LineHops(kind, text)) /\ k \in 1 .. Len(hops)
    BY <1>7, <1>8
  <2>2. read[k] \in Hop(kind, text, hops[k]) /\ hops[k] \in Q
    BY <1>7, <2>1 DEF Reads
  <2>3. hops[k] = ends[told[k]]
    BY <1>8, <2>1
  <2>4. parts[told[k]] = PartAt(ends[told[k]])
    BY <1>5, <1>9, <1>12
  <2>5. Hop(kind, text, hops[k]) = {Entry(kind, PartAt(hops[k]))}
    BY <1>2, <1>3, <2>2
  <2> QED
    BY <2>2, <2>3, <2>4, <2>5
<1>15. read = [k \in DOMAIN told |-> Entry(kind, parts[told[k]])]
  <2>1. read = [k \in DOMAIN read |-> read[k]]
    <3>1. read \in [1 .. Len(read) -> ChainEntry]
      BY LenProperties
    <3> QED
      BY <3>1
  <2> HIDE DEF parts
  <2> QED
    BY <1>12, <1>13, <1>14, <2>1
<1> QED
  BY <1>11, <1>15

(***************************************************************************)
(* A header value is the list of its parts, each of which says the same    *)
(* wherever it stands: unless a comma or the end of a line is inside       *)
(* quotes, the hops of a line of any length are the entries of its parts,  *)
(* for list_header_entries and for forwarded_entries.                      *)
(***************************************************************************)
THEOREM PartsTell == Spec => []PartsTellTheHops
<1>1. HeaderRead => PartsTellTheHops
  <2> SUFFICES ASSUME HeaderRead, pc = "read", Len(header.lines) = 1, IsClosed(raw),
                      Cuts(raw, Comma) \cap Inside(raw) = {}
               PROVE  PartsTellTheHops
    BY DEF PartsTellTheHops
  <2>1. line = 1 /\ level = "element" /\ start["element"] = None
    BY DEF HeaderRead, ReadingStands, EndStands
  <2>2. /\ Reads(entries, HopsUpTo(header.kind, header.lines)[line])
        /\ header.lines \in Seq(Seq(Char)) /\ line \in 1 .. Len(header.lines)
    BY <2>1, LineIsRead
  <2>3. raw \in Seq(Char) /\ entries \in Seq(ChainEntry)
    BY Standing
  <2>4. HopsUpTo(header.kind, header.lines)[line] = LineHops(header.kind, raw)
    <3>1. /\ HopsUpTo(header.kind, header.lines)[0] = <<>>
          /\ LineHops(header.kind, raw) \in Seq(SUBSET ChainEntry)
          /\ HopsUpTo(header.kind, header.lines)[line] =
               HopsUpTo(header.kind, header.lines)[line - 1] \o LineHops(header.kind, raw)
      BY <2>2, HopsUpToRuns DEF raw
    <3>2. line - 1 = 0
      BY <2>1
    <3> QED
      BY <3>1, <3>2, ConcatEmptySeq
  <2>5. Reads(entries, LineHops(header.kind, raw)) /\ NoCommaInside(raw)
    BY <2>2, <2>4 DEF NoCommaInside
  <2> QED
    BY <2>3, <2>5, PartsTellTheLine DEF PartsTellTheHops
<1> QED
  BY <1>1, HeaderIsRead, PTL

=============================================================================
