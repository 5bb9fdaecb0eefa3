--------------------------- MODULE MCHeaderReader ---------------------------
(***************************************************************************)
(* Small instances of HeaderReader.  The address 0 is IPv4, 1 and 2 are    *)
(* IPv6, and 1 is the IPv4-mapped form of 0.                               *)
(***************************************************************************)
EXTENDS HeaderReader

Address(ip) == [char |-> "address", ip |-> ip]

SeqsUpTo(set, n) == UNION {[1..k -> set] : k \in 0..n}

Lines(kind, lines) == [kind |-> kind, lines |-> lines]

LexedHeaders(kind, texts) == {Lines(kind, <<text>>) : text \in {t \in texts : Lexed(t)}}

-----------------------------------------------------------------------------
(* Quotes: every short text as the value of for, alone, in front of another *)
(* element, behind another parameter, and as a parameter name.              *)

Scanned == {Quote, Backslash, Comma, Semicolon, Address(0)}

ForIs == <<For, Equals>>
By    == <<Mark("name"), Equals>>

ScanHeaders ==
  LET bodies == SeqsUpTo(Scanned, 5)
      short  == SeqsUpTo(Scanned, 4)
  IN  LexedHeaders("Forwarded",
        {ForIs \o body : body \in bodies} \cup
        {ForIs \o body \o <<Comma, Space>> \o ForIs \o <<Address(2)>> : body \in short} \cup
        {By \o body \o <<Semicolon, Space>> \o ForIs \o <<Address(2)>> : body \in short} \cup
        {body \o ForIs \o <<Quote, Address(2), Quote, Space>> : body \in short})

-----------------------------------------------------------------------------
(* Forms of a hop, bare and as a value with and without quotes.             *)

Ports == {<<Mark("digits")>>, <<Underscore>>, <<Underscore, Mark("name")>>,
          <<Underscore, Address(0)>>, <<Underscore, Colon>>, <<Mark("name")>>,
          <<Mark("digits"), Space>>, <<>>}

Hosts == {<<Address(0)>>, <<Address(1)>>, <<Address(2)>>, <<Unknown>>, <<Mark("name")>>, <<>>}

Bracketings(host) ==
  {host, <<OpenBracket>> \o host \o <<CloseBracket>>, <<OpenBracket>> \o host,
   host \o <<CloseBracket>>, <<OpenBracket, Space>> \o host \o <<CloseBracket>>}

Nodes ==
  LET hosts == UNION {Bracketings(host) : host \in Hosts}
  IN  hosts \cup {host \o <<Colon>> \o port : host \in hosts, port \in Ports}

FormHeaders ==
  LexedHeaders("XForwardedFor", Nodes \cup {ForIs \o node : node \in Nodes}) \cup
  LexedHeaders("Forwarded",
    Nodes \cup {ForIs \o node : node \in Nodes} \cup
    {<<For, Space, Equals, Space, Quote>> \o node \o <<Quote>> : node \in Nodes} \cup
    {ForIs \o <<Quote, Backslash>> \o node \o <<Quote>> : node \in Nodes} \cup
    {ForIs \o <<Quote, Space>> \o node \o <<Space, Quote>> : node \in Nodes} \cup
    {ForIs \o node \o <<Semicolon>> \o ForIs \o <<Address(2)>> : node \in Nodes})

-----------------------------------------------------------------------------
(* Lists of elements, and headers of several lines.                         *)

ListElements ==
  {<<>>, <<Space>>, <<Address(0)>>, ForIs \o <<Address(1)>>,
   ForIs \o <<Quote, Address(0), Quote>>, By \o <<Quote, Comma, Quote>>,
   ForIs \o <<Quote, Address(0), Backslash, Quote>>,
   <<Space>> \o ForIs \o <<Address(0), Space, Semicolon>> \o By}

ListHeaders ==
  {Lines(kind, <<a \o <<Comma>> \o b \o <<Comma>> \o c>>) :
     kind \in {"XForwardedFor", "Forwarded"},
     a \in ListElements, b \in ListElements, c \in ListElements} \cup
  {Lines(kind, <<a, b \o <<Comma>> \o c>>) :
     kind \in {"XForwardedFor", "Forwarded"},
     a \in ListElements, b \in ListElements, c \in ListElements}

\* Every short line, whatever it leaves open, and lines that follow others.
ShortHeaders ==
  LexedHeaders("Forwarded", SeqsUpTo(Scanned, 3)) \cup
  {Lines(kind, <<a, b, c>>) : kind \in {"XForwardedFor", "Forwarded"},
     a \in ListElements, b \in {<<>>, <<Quote>>, <<Comma, Address(0)>>}, c \in ListElements}

FormAndListHeaders == FormHeaders \cup ListHeaders \cup ShortHeaders

\* Of the texts with quotes, those that can end inside of them.
UnclosedHeaders ==
  LexedHeaders("Forwarded",
    {ForIs \o body : body \in SeqsUpTo({Quote, Backslash, Address(0)}, 4)})

=============================================================================
