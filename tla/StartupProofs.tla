--------------------------- MODULE StartupProofs ----------------------------
(***************************************************************************)
(* Proofs about Startup, for any directories and any command lines.        *)
(***************************************************************************)
EXTENDS Startup, CommandsProofs

-----------------------------------------------------------------------------
(* Sequences *)

IsSeq(s) == s \in Seq(ToSet(s))

LEMMA EmptyIsSeq == IsSeq(<< >>) /\ DOMAIN << >> = {}
BY DEF IsSeq

LEMMA FunctionIsSeq ==
  ASSUME NEW n \in Nat, NEW t, t = [i \in 1 .. n |-> t[i]]
  PROVE  IsSeq(t) /\ Len(t) = n
<1>1. t \in [1 .. n -> ToSet(t)]
  BY DEF ToSet
<1> QED
  BY <1>1 DEF IsSeq

LEMMA SeqIsFunction ==
  ASSUME NEW s, IsSeq(s)
  PROVE  /\ Len(s) \in Nat
         /\ DOMAIN s = 1 .. Len(s)
         /\ s = [i \in 1 .. Len(s) |-> s[i]]
BY DEF IsSeq

LEMMA MembersAreSeqs ==
  ASSUME NEW S, NEW s \in Seq(S)
  PROVE  IsSeq(s)
<1>1. Len(s) \in Nat /\ s = [i \in 1 .. Len(s) |-> s[i]]
  OBVIOUS
<1> QED
  BY <1>1, FunctionIsSeq

LEMMA ConcatIsSeq ==
  ASSUME NEW s, NEW t, IsSeq(s), IsSeq(t)
  PROVE  /\ IsSeq(s \o t)
         /\ \A i \in DOMAIN (s \o t) : (s \o t)[i] \in ToSet(s) \cup ToSet(t)
<1> DEFINE S == ToSet(s) \cup ToSet(t)
<1>1. s \in Seq(S) /\ t \in Seq(S)
  BY DEF IsSeq
<1> HIDE DEF S
<1>2. s \o t \in Seq(S)
  BY <1>1
<1>3. Len(s \o t) \in Nat /\ DOMAIN (s \o t) = 1 .. Len(s \o t)
  BY <1>2
<1>5. IsSeq(s \o t)
  BY <1>2, MembersAreSeqs
<1>6. \A i \in DOMAIN (s \o t) : (s \o t)[i] \in S
  BY <1>2, <1>3
<1> QED
  BY <1>5, <1>6 DEF S

LEMMA AppendIsSeq ==
  ASSUME NEW s, NEW x, IsSeq(s)
  PROVE  /\ IsSeq(Append(s, x))
         /\ Len(Append(s, x)) = Len(s) + 1
         /\ \A i \in DOMAIN s : Append(s, x)[i] = s[i]
         /\ Append(s, x)[Len(s) + 1] = x
<1> DEFINE S == ToSet(s) \cup {x}
<1>1. s \in Seq(S) /\ x \in S
  BY DEF IsSeq
<1> HIDE DEF S
<1>2. /\ Append(s, x) \in Seq(S)
      /\ Len(Append(s, x)) = Len(s) + 1
      /\ \A i \in 1 .. Len(s) : Append(s, x)[i] = s[i]
      /\ Append(s, x)[Len(s) + 1] = x
  BY <1>1
<1>3. IsSeq(Append(s, x))
  BY <1>2, MembersAreSeqs
<1> QED
  BY <1>2, <1>3, SeqIsFunction

(* What is left of the stack below its two upper frames.                   *)
LEMMA BelowIsSeq ==
  ASSUME NEW s, IsSeq(s), NEW n \in 0 .. Len(s)
  PROVE  /\ IsSeq(SubSeq(s, 1, n))
         /\ Len(SubSeq(s, 1, n)) = n
         /\ \A i \in 1 .. n : SubSeq(s, 1, n)[i] = s[i]
<1> DEFINE S == ToSet(s)
<1>1. s \in Seq(S) /\ Len(s) \in Nat
  BY SeqIsFunction DEF IsSeq
<1> HIDE DEF S
<1>2. /\ SubSeq(s, 1, n) \in Seq(S)
      /\ Len(SubSeq(s, 1, n)) = n
      /\ \A i \in 1 .. n : SubSeq(s, 1, n)[i] = s[i]
  BY <1>1
<1> QED
  BY <1>2, MembersAreSeqs
-----------------------------------------------------------------------------
(* Loaded configurations *)

(* The pieces of all texts of the program: strings of the files, and what  *)
(* it writes between them.                                                 *)
Pieces ==
  STRING \cup ExPieces \cup FlagNames \cup ProxyTypes \cup OptionPieces
  \cup {Space, Comma, "=", ".", "127.0.0.1", "0.0.0.0"}
  \cup {ToString(number) : number \in 0 .. MaxPort}

(* The fields a proxy of a type may have set: frps knows flags for them.   *)
OwnFields(type) ==
  {"name", "type", "localIP", "localPort", "metadatas"} \cup FieldsOfType(type)

TextsInv(p) ==
  /\ \A field \in TextFields : p[field] \in Seq(Pieces)
  /\ \A field \in ListFields : p[field] \in Texts(Pieces)
  /\ DOMAIN p.metadatas \subseteq ToSet(MetaKeys)
  /\ \A key \in DOMAIN p.metadatas : p.metadatas[key] \in Seq(Pieces)

ProxyInv(p) ==
  /\ DOMAIN p = ProxyFields
  /\ p.type \in ProxyTypes
  /\ \A field \in PortFields : p[field] \in 0 .. MaxPort
  /\ \A field \in ProxyFields \ OwnFields(p.type) : p[field] = Unset(field)
  /\ TextsInv(p)

(* The texts of a configuration that are sent, or are part of the command. *)
TextKeys == {"user", "token", "serverAddr", "sshKnownHosts"}

ConfigInv(c) ==
  /\ DOMAIN c = DOMAIN DefaultConfig
  /\ c.rename \in BOOLEAN /\ c.metadatasEnabled \in BOOLEAN
  /\ c.serverPort \in 0 .. MaxPort
  /\ c.maxForwardConnections \in Nat \ {0}
  /\ \A key \in TextKeys : c[key] \in Seq(Pieces)
  /\ \A i \in DOMAIN c.proxies : ProxyInv(c.proxies[i])

ItemsInv(c) == IsSeq(c.proxies) /\ IsSeq(c.visitors)

ConfigKeys == {"token", "user", "serverAddr", "serverPort", "metadatasEnabled", "rename",
               "userDoublePrefix", "sshPrivateKey", "sshKnownHosts",
               "maxForwardConnections", "includes", "proxies", "visitors"}

LEMMA KeysOfConfig == DOMAIN DefaultConfig = ConfigKeys
BY DEF DefaultConfig, ConfigKeys

LEMMA TextsArePieces ==
  /\ AnyText \subseteq Seq(Pieces) /\ Seq(AnyText) \subseteq Texts(Pieces)
  /\ NoText \in Seq(Pieces) /\ NoText \in Texts(Pieces) /\ DOMAIN NoText = {}
<1>1. STRING \subseteq Pieces
  BY DEF Pieces
<1>2. AnyText \subseteq Seq(Pieces)
  BY <1>1, SeqMonotonic DEF AnyText
<1>3. Seq(AnyText) \subseteq Texts(Pieces)
  BY <1>2, SeqMonotonic DEF Texts
<1> QED
  BY <1>2, <1>3 DEF NoText, Texts

LEMMA PortsAreTyped ==
  ASSUME NEW value
  PROVE  Parsed("port", value) \in 0 .. MaxPort
<1>1. Parsed("port", value) = IF value.kind = "integer" /\ value.holds \in 0 .. MaxPort
                             THEN value.holds ELSE 0
  BY DEF Parsed
<1>2. 0 \in 0 .. MaxPort
  BY DEF MaxPort
<1>3. CASE value.kind = "integer" /\ value.holds \in 0 .. MaxPort
  BY <1>1, <1>3
<1>4. CASE ~(value.kind = "integer" /\ value.holds \in 0 .. MaxPort)
  BY <1>1, <1>2, <1>4
<1> QED
  BY <1>3, <1>4

LEMMA NumbersAreRead ==
  ASSUME NEW text, NEW numbers, NEW default
  PROVE  NumberOr(text, numbers, default) \in numbers \cup {default}
BY DEF NumberOr

LEMMA CountsAreRead ==
  ASSUME NEW text
  PROVE  NumberOr(text, Numerals \ {0}, 512) \in Nat \ {0}
<1>1. PICK numbers : numbers = Numerals \ {0}
  OBVIOUS
<1>2. numbers \subseteq Nat \ {0} /\ 512 \in Nat \ {0}
  <2>1. Numerals \subseteq Nat
    BY NumeralsAssumption, Zenon
  <2> QED
    BY <1>1, <2>1
<1>3. PICK n : n = NumberOr(text, numbers, 512)
  OBVIOUS
<1>4. n \in numbers \/ n = 512
  BY <1>3, NumbersAreRead
<1>5. n \in Nat \ {0}
  <2>1. CASE n \in numbers
    BY <1>2, <2>1, Zenon
  <2>2. CASE n = 512
    BY <2>2
  <2> QED
    BY <1>4, <2>1, <2>2
<1> QED
  BY <1>1, <1>3, <1>5

LEMMA IniPortsAreTyped ==
  ASSUME NEW section, NEW key
  PROVE  IniPort(section, key) \in 0 .. MaxPort
<1>1. 0 \in 0 .. MaxPort
  BY DEF MaxPort
<1> QED
  BY <1>1, NumbersAreRead DEF IniPort

(* The value of a key, which its parser has accepted, or the default.      *)
LEMMA TextIsRead ==
  ASSUME NEW table, NEW key, NEW default \in Seq(Pieces),
         key \in DOMAIN table => WellTyped(table[key]) /\ Accepts("text", table[key])
  PROVE  ValueOr(table, key, "text", default) \in Seq(Pieces)
<1>1. CASE key \in DOMAIN table
  <2>1. table[key].holds \in AnyText
    BY <1>1 DEF WellTyped, Accepts, IsString
  <2> QED
    BY <1>1, <2>1, TextsArePieces DEF ValueOr, Parsed
<1>2. CASE key \notin DOMAIN table
  BY <1>2 DEF ValueOr
<1> QED
  BY <1>1, <1>2

LEMMA ListsAreRead ==
  ASSUME NEW table, NEW key,
         key \in DOMAIN table => TypedField(table[key]) /\ Accepts("texts", table[key])
  PROVE  ValueOr(table, key, "texts", NoText) \in Texts(Pieces)
<1>1. CASE key \in DOMAIN table
  <2> DEFINE items == table[key].holds
             texts == [i \in DOMAIN items |-> items[i].holds]
  <2>1. /\ table[key].kind = "array" /\ IsSeq(items)
        /\ \A i \in DOMAIN items : items[i].kind = "string" /\ WellTyped(items[i])
    BY <1>1 DEF TypedField, WellTyped, Places, Accepts, IsString, IsSeq
  <2>2. \A i \in DOMAIN items : items[i].holds \in AnyText
    BY <2>1 DEF WellTyped
  <2>3. Len(items) \in Nat /\ DOMAIN items = 1 .. Len(items)
    BY <2>1, SeqIsFunction
  <2>4. texts \in [1 .. Len(items) -> AnyText]
    BY <2>2, <2>3
  <2>5. texts \in Seq(AnyText)
    <3> HIDE DEF texts
    <3> QED
      BY <2>3, <2>4
  <2>6. ValueOr(table, key, "texts", NoText) = texts
    BY <1>1 DEF ValueOr, Parsed
  <2> QED
    BY <2>5, <2>6, TextsArePieces
<1>2. CASE key \notin DOMAIN table
  BY <1>2, TextsArePieces DEF ValueOr
<1> QED
  BY <1>1, <1>2

LEMMA TomlTextsTyped ==
  ASSUME NEW value, TomlProxyAccepted(value), TypedItem(value)
  PROVE  TextsInv(TomlProxy(value))
<1> DEFINE p == TomlProxy(value)
           type == TypeOf(value.holds)
<1>1. ASSUME NEW key \in DOMAIN value.holds
      PROVE  TypedField(value.holds[key]) /\ WellTyped(value.holds[key])
             /\ Accepts(ProxyParsers(type)[key], value.holds[key])
             /\ ProxyParsers(type)[key] = ParserOf(key)
  <2>1. value.kind = "table" /\ key \in Places(value)
    BY DEF TomlProxyAccepted, Places
  <2>2. TypedField(value.holds[key])
    BY <2>1 DEF TypedItem
  <2>3. key \in DOMAIN ProxyParsers(type) /\ Accepts(ProxyParsers(type)[key], value.holds[key])
    BY DEF TomlProxyAccepted, TableAccepted
  <2> QED
    BY <2>2, <2>3 DEF TypedField, ProxyParsers
<1>2. ASSUME NEW field \in ProxyFields, field # "type", field # "routeByHTTPUser"
      PROVE  p[field] = ValueOr(value.holds, field, ParserOf(field), Unset(field))
  BY <1>2 DEF TomlProxy
<1>3. p["routeByHTTPUser"] = NoText
  BY DEF TomlProxy, ProxyFields, TextFields
<1> HIDE DEF p, type
<1>4. ASSUME NEW field \in TextFields PROVE p[field] \in Seq(Pieces)
  <2>1. field \in ProxyFields /\ field # "type" /\ ParserOf(field) = "text"
        /\ Unset(field) = NoText
    <3>1. /\ field \in ProxyFields /\ field \notin ListFields /\ field \notin PortFields
          /\ field \notin {"type", "metadatas", "requestHeaders", "bindPort"}
      BY DEF ProxyFields, TextFields, ListFields, PortFields
    <3> QED
      BY <3>1 DEF ParserOf, Unset
  <2>2. ValueOr(value.holds, field, "text", NoText) \in Seq(Pieces)
    BY <1>1, <2>1, TextIsRead, TextsArePieces
  <2> QED
    BY <1>2, <1>3, <2>1, <2>2, TextsArePieces
<1>5. ASSUME NEW field \in ListFields PROVE p[field] \in Texts(Pieces)
  <2>1. field \in ProxyFields /\ field # "type" /\ field # "routeByHTTPUser"
        /\ ParserOf(field) = "texts" /\ Unset(field) = NoText
    BY DEF ProxyFields, TextFields, ListFields, ParserOf, Unset, PortFields
  <2>2. ValueOr(value.holds, field, "texts", NoText) \in Texts(Pieces)
    BY <1>1, <2>1, ListsAreRead
  <2> QED
    BY <1>2, <2>1, <2>2
<1>6. /\ DOMAIN p["metadatas"] \subseteq ToSet(MetaKeys)
      /\ \A key \in DOMAIN p["metadatas"] : p["metadatas"][key] \in Seq(Pieces)
  <2>1. p["metadatas"] = ValueOr(value.holds, "metadatas", "map", NoText)
    <3>1. "metadatas" \in ProxyFields /\ ParserOf("metadatas") = "map"
          /\ Unset("metadatas") = NoText
      BY DEF ProxyFields, ParserOf, TextFields, ListFields, PortFields, Unset
    <3> QED
      BY <1>2, <3>1
  <2>2. CASE "metadatas" \in DOMAIN value.holds
    <3> DEFINE table == value.holds["metadatas"]
    <3>1. ParserOf("metadatas") = "map"
      BY DEF ParserOf, TextFields, ListFields, PortFields
    <3>2. /\ table.kind = "table"
          /\ \A key \in DOMAIN table.holds : table.holds[key].kind = "string"
      BY <1>1, <2>2, <3>1 DEF Accepts, IsString
    <3>3. \A key \in DOMAIN table.holds : WellTyped(table.holds[key])
      BY <1>1, <2>2, <3>2 DEF TypedField, Places
    <3>4. DOMAIN table.holds \subseteq ToSet(MetaKeys)
      BY <2>2, <3>2 DEF TypedItem, HasMetadatas, TomlProxyAccepted
    <3>5. p["metadatas"] = [key \in DOMAIN table.holds |-> table.holds[key].holds]
      BY <2>1, <2>2 DEF ValueOr, Parsed
    <3>6. \A key \in DOMAIN table.holds : table.holds[key].holds \in AnyText
      BY <3>2, <3>3 DEF WellTyped
    <3> QED
      BY <3>4, <3>5, <3>6, TextsArePieces
  <2>3. CASE "metadatas" \notin DOMAIN value.holds
    BY <2>1, <2>3, TextsArePieces DEF ValueOr
  <2> QED
    BY <2>2, <2>3
<1> QED
  BY <1>4, <1>5, <1>6 DEF TextsInv, p

LEMMA TomlProxyTyped ==
  ASSUME NEW value, TomlProxyAccepted(value), TypedItem(value)
  PROVE  ProxyInv(TomlProxy(value))
<1> DEFINE p == TomlProxy(value)
           type == TypeOf(value.holds)
<1>1. type \in ProxyTypes
  BY DEF TomlProxyAccepted, TypeOf
<1>2. DOMAIN p = ProxyFields
  BY DEF TomlProxy
<1>3. "type" \in ProxyFields /\ p.type = type
  BY DEF TomlProxy, ProxyFields
<1>4. \A key \in DOMAIN value.holds : key \in OwnFields(type) \cup Swallowed(type)
  BY DEF TomlProxyAccepted, TableAccepted, ProxyParsers, OwnFields
<1>5. ASSUME NEW field \in PortFields PROVE p[field] \in 0 .. MaxPort
  <2>1. field \in ProxyFields /\ field # "type" /\ field # "routeByHTTPUser"
    BY DEF PortFields, ProxyFields
  <2>2. ParserOf(field) = "port" /\ Unset(field) = 0
    BY DEF ParserOf, Unset, PortFields, TextFields, ListFields
  <2>3. p[field] = ValueOr(value.holds, field, "port", 0)
    BY <2>1, <2>2 DEF TomlProxy
  <2>4. CASE field \in DOMAIN value.holds
    BY <2>3, <2>4, PortsAreTyped DEF ValueOr
  <2>5. CASE field \notin DOMAIN value.holds
    BY <2>3, <2>5 DEF ValueOr, MaxPort
  <2> QED
    BY <2>4, <2>5
<1>6. ASSUME NEW field \in ProxyFields \ OwnFields(type) PROVE p[field] = Unset(field)
  <2>1. field # "type" /\ p[field] = IF field = "routeByHTTPUser" THEN NoText
                                    ELSE ValueOr(value.holds, field, ParserOf(field), Unset(field))
    BY DEF TomlProxy, OwnFields
  <2>2. CASE field = "routeByHTTPUser"
    BY <2>1, <2>2 DEF Unset, PortFields
  <2>3. CASE field # "routeByHTTPUser"
    <3>1. field # "requestHeaders"
      BY DEF ProxyFields, TextFields, ListFields, PortFields
    <3>2. field \notin Swallowed(type)
      BY <2>3, <3>1 DEF Swallowed
    <3> QED
      BY <1>4, <2>1, <2>3, <3>2 DEF ValueOr
  <2> QED
    BY <2>2, <2>3
<1>7. TextsInv(p)
  BY TomlTextsTyped
<1> HIDE DEF p, type
<1> QED
  BY <1>1, <1>2, <1>3, <1>5, <1>6, <1>7 DEF ProxyInv, p

LEMMA GreatestNumber ==
  ASSUME NEW n \in Nat, NEW T, T \subseteq 1 .. n, T # {}
  PROVE  \E x \in T : \A y \in T : y <= x
<1> DEFINE U == {n - y : y \in T}
<1>1. U \subseteq Nat /\ U # {}
  <2>1. \A y \in T : y \in 1 .. n
    OBVIOUS
  <2>2. \A y \in 1 .. n : n - y \in Nat
    OBVIOUS
  <2> QED
    BY <2>1, <2>2
<1>2. PICK u \in U : \A v \in U : u <= v
  <2> HIDE DEF U
  <2> QED
    BY <1>1, LeastNumber
<1>3. PICK x \in T : u = n - x
  OBVIOUS
<1>4. ASSUME NEW y \in T PROVE y <= x
  <2>1. n - x <= n - y
    BY <1>2, <1>3
  <2> QED
    BY <1>3, <2>1
<1> QED
  BY <1>4

LEMMA TrimType ==
  ASSUME NEW P, NEW text \in Seq(P)
  PROVE  Trim(text) \in Seq(P)
<1> DEFINE solid == {i \in DOMAIN text : text[i] # Space}
           first == CHOOSE i \in solid : \A j \in solid : i <= j
           last == CHOOSE i \in solid : \A j \in solid : i >= j
<1>1. CASE solid = {}
  BY <1>1 DEF Trim, NoText
<1>2. CASE solid # {}
  <2>1. Len(text) \in Nat /\ solid \subseteq 1 .. Len(text) /\ solid \subseteq Nat
    OBVIOUS
  <2>2. \E i \in solid : \A j \in solid : i <= j
    <3> HIDE DEF solid
    <3> QED
      BY <1>2, <2>1, LeastNumber
  <2>3. \E i \in solid : \A j \in solid : i >= j
    <3>1. \E i \in solid : \A j \in solid : j <= i
      <4> HIDE DEF solid
      <4> QED
        BY <1>2, <2>1, GreatestNumber
    <3> QED
      BY <2>1, <3>1
  <2>4. first \in solid /\ last \in solid
    <3> HIDE DEF solid
    <3> QED
      BY <2>2, <2>3
  <2>5. Trim(text) = SubSeq(text, first, last)
    BY <1>2 DEF Trim
  <2> HIDE DEF solid, first, last
  <2> QED
    BY <2>1, <2>4, <2>5
<1> QED
  BY <1>1, <1>2

LEMMA IniTextTyped ==
  ASSUME NEW section, TypedSection(section), NEW key
  PROVE  IniText(section, key) \in AnyText
<1> DEFINE found == Entries(section, key)
           IsFirst(i) == \A j \in 1 .. i - 1 : section.entries[j].key # key
           first == CHOOSE i \in found : IsFirst(i)
<1>1. IsSeq(section.entries) /\ \A i \in DOMAIN section.entries : section.entries[i].v \in AnyText
  BY DEF TypedSection, IsSeq, ToSet
<1>2. found \subseteq Nat /\ found \subseteq DOMAIN section.entries
  BY <1>1, SeqIsFunction DEF Entries
<1>3. CASE found = {}
  BY <1>3 DEF IniText, Has, NoText, AnyText
<1>4. CASE found # {}
  <2>1. PICK i \in found : \A j \in found : i <= j
    <3> HIDE DEF found
    <3> QED
      BY <1>2, <1>4, LeastNumber
  <2>2. IsFirst(i)
    <3>1. ASSUME NEW j \in 1 .. i - 1 PROVE section.entries[j].key # key
      <4>1. j \in DOMAIN section.entries /\ ~(i <= j)
        BY <1>1, <1>2, <3>1, SeqIsFunction
      <4> QED
        BY <2>1, <4>1 DEF Entries
    <3> QED
      BY <3>1
  <2>3. first \in found
    <3> HIDE DEF found, IsFirst
    <3> QED
      BY <2>2
  <2>4. IniText(section, key) = section.entries[first].v
    BY <1>4 DEF IniText, Has
  <2> QED
    BY <1>1, <1>2, <2>3, <2>4
<1> QED
  BY <1>3, <1>4

LEMMA IniTextsTyped ==
  ASSUME NEW section, TypedSection(section), NEW key
  PROVE  IniTexts(section, key) \in Seq(AnyText)
<1> DEFINE items == Split(IniText(section, key), Comma)
           trimmed == [i \in DOMAIN items |-> Trim(items[i])]
<1>1. IniText(section, key) \in Seq(STRING)
  BY IniTextTyped DEF AnyText
<1>2. items \in Texts(STRING)
  BY <1>1, SplitType, WithoutIsSubset
<1> HIDE DEF items
<1>3. Len(items) \in Nat /\ DOMAIN items = 1 .. Len(items) /\ \A i \in DOMAIN items : items[i] \in Seq(STRING)
  BY <1>2 DEF Texts
<1>4. \A i \in DOMAIN items : Trim(items[i]) \in Seq(STRING)
  BY <1>3, TrimType
<1>5. trimmed \in [1 .. Len(items) -> Seq(STRING)]
  BY <1>3, <1>4
<1> HIDE DEF trimmed
<1>6. trimmed \in Texts(STRING)
  BY <1>3, <1>5 DEF Texts
<1>7. NonEmpty(trimmed) \in Texts(STRING)
  <2>1. NonEmpty(trimmed) \in Seq(Solid(STRING))
    BY <1>6, NonEmptyType
  <2> QED
    BY <2>1, SolidIsText
<1> QED
  BY <1>7 DEF IniTexts, AnyText, Texts, items, trimmed

LEMMA IniMapTyped ==
  ASSUME NEW section, TypedSection(section)
  PROVE  /\ DOMAIN IniMap(section) \subseteq ToSet(MetaKeys)
         /\ \A of \in DOMAIN IniMap(section) : IniMap(section)[of] \in AnyText
<1> DEFINE entries == section.entries
           metas == Entries(section, "meta_")
           given(of) == {i \in metas : entries[i].of = of}
           last(of) == CHOOSE i \in given(of) : \A j \in given(of) : j <= i
<1>1. /\ IsSeq(entries)
      /\ \A i \in DOMAIN entries : /\ entries[i].v \in AnyText
                                   /\ entries[i].key = "meta_" => entries[i].of \in ToSet(MetaKeys)
  BY DEF TypedSection, IsSeq, ToSet
<1>2. metas \subseteq 1 .. Len(entries) /\ Len(entries) \in Nat /\ DOMAIN entries = 1 .. Len(entries)
  BY <1>1, SeqIsFunction DEF Entries
<1>3. IniMap(section) = [of \in {entries[i].of : i \in metas} |-> entries[last(of)].v]
  BY DEF IniMap
<1>4. \A i \in metas : entries[i].of \in ToSet(MetaKeys)
  BY <1>1 DEF Entries
<1>5. ASSUME NEW i \in metas PROVE entries[last(entries[i].of)].v \in AnyText
  <2>1. PICK T : T = given(entries[i].of)
    OBVIOUS
  <2>2. T \subseteq 1 .. Len(entries) /\ T # {}
    BY <1>2, <2>1
  <2>3. \E j \in T : \A k \in T : k <= j
    BY <1>2, <2>2, GreatestNumber
  <2>4. last(entries[i].of) = CHOOSE j \in T : \A k \in T : k <= j
    BY <2>1
  <2>5. last(entries[i].of) \in T
    BY <2>3, <2>4
  <2> QED
    BY <1>1, <1>2, <2>2, <2>5
<1> HIDE DEF last, metas
<1> QED
  BY <1>3, <1>4, <1>5

LEMMA IniProxyTyped ==
  ASSUME NEW section, IniProxyAccepted(section), TypedSection(section)
  PROVE  ProxyInv(IniProxy(section))
<1> DEFINE p == IniProxy(section)
           type == IniType(section)[1]
           own == {"localIP", "localPort"} \cup FieldsOfIniType(type)
<1>1. type \in ProxyTypes
  BY DEF IniProxyAccepted
<1>2. DOMAIN p = ProxyFields
  BY DEF IniProxy
<1>3. /\ own \cap {"name", "type", "metadatas"} = {}
      /\ FieldsOfIniType(type) = FieldsOfType(type)
  BY <1>1 DEF FieldsOfIniType, FieldsOfType, ProxyTypes
<1> HIDE DEF own
<1>4. ASSUME NEW field \in ProxyFields
      PROVE  p[field] = CASE field = "name" -> section.name
                          [] field = "type" -> type
                          [] field = "metadatas" -> IniMap(section)
                          [] field \in own -> IniField(section, field)
                          [] OTHER -> Unset(field)
  BY DEF IniProxy, own
<1> HIDE DEF p, type
<1>5. p["type"] = type
  <2>1. "type" \in ProxyFields /\ "type" \notin own
    BY <1>3 DEF ProxyFields
  <2> QED
    BY <1>4, <2>1
<1>6. ASSUME NEW field \in PortFields PROVE p[field] \in 0 .. MaxPort
  <2>1. /\ field \in ProxyFields /\ field \notin ListFields
        /\ field # "name" /\ field # "type" /\ field # "metadatas"
    BY DEF PortFields, ProxyFields, ListFields
  <2>2. CASE field \in own
    <3>1. p[field] = IniPort(section, IniKey(field))
      BY <1>4, <2>1, <2>2 DEF IniField
    <3> QED
      BY <3>1, IniPortsAreTyped
  <2>3. CASE field \notin own
    <3>1. p[field] = Unset(field)
      BY <1>4, <2>1, <2>3
    <3>2. Unset(field) = 0
      BY DEF Unset, PortFields
    <3> QED
      BY <3>1, <3>2 DEF MaxPort
  <2> QED
    BY <2>2, <2>3
<1>7. ASSUME NEW field \in ProxyFields \ OwnFields(type) PROVE p[field] = Unset(field)
  <2>1. field # "name" /\ field # "type" /\ field # "metadatas" /\ field \notin own
    BY <1>3 DEF OwnFields, own
  <2> QED
    BY <1>4, <2>1
<1>8. ASSUME NEW field \in TextFields PROVE p[field] \in Seq(Pieces)
  <2>1. /\ field \in ProxyFields /\ field # "type" /\ field # "metadatas"
        /\ field \notin ListFields /\ field \notin PortFields /\ Unset(field) = NoText
    BY DEF ProxyFields, TextFields, ListFields, PortFields, Unset
  <2>2. section.name \in Seq(Pieces)
    BY TextsArePieces DEF TypedSection
  <2>3. IniField(section, field) \in Seq(Pieces)
    BY <2>1, IniTextTyped, TextsArePieces DEF IniField
  <2> QED
    BY <1>4, <2>1, <2>2, <2>3, TextsArePieces
<1>9. ASSUME NEW field \in ListFields PROVE p[field] \in Texts(Pieces)
  <2>1. /\ field \in ProxyFields /\ field # "type" /\ field # "metadatas" /\ field # "name"
        /\ Unset(field) = NoText /\ field \notin PortFields
    BY DEF ProxyFields, TextFields, ListFields, PortFields, Unset
  <2>2. IniField(section, field) \in Texts(Pieces)
    <3>1. IniField(section, field) = IniTexts(section, IniKey(field))
      BY <2>1 DEF IniField
    <3> QED
      BY <3>1, IniTextsTyped, TextsArePieces
  <2> QED
    BY <1>4, <2>1, <2>2, TextsArePieces
<1>10. p["metadatas"] = IniMap(section)
  <2>1. "metadatas" \in ProxyFields /\ "metadatas" \notin own
    BY <1>3 DEF ProxyFields
  <2> QED
    BY <1>4, <2>1
<1>11. TextsInv(p)
  BY <1>8, <1>9, <1>10, IniMapTyped, TextsArePieces DEF TextsInv
<1> QED
  BY <1>1, <1>2, <1>5, <1>6, <1>7, <1>11 DEF ProxyInv, p

(* Every key but three is a key of the root, with a parser of its own.     *)
LEMMA RootSettings ==
  ASSUME NEW root, NEW key \in ConfigKeys \ {"token", "proxies", "visitors"}
  PROVE  TomlConfig(root)[key] = ValueOr(root, key, RootParsers[key], DefaultConfig[key])
BY KeysOfConfig DEF TomlConfig

LEMMA RootItems ==
  ASSUME NEW root, TomlAccepted(root), NEW key \in {"proxies", "visitors"},
         \A k \in DOMAIN root : TypedSetting(root[k])
  PROVE  IsSeq(Elements(root, key))
<1>1. CASE key \in DOMAIN root
  <2>1. RootParsers[key] = "array"
    BY DEF RootParsers
  <2>2. root[key].kind = "array"
    BY <1>1, <2>1 DEF TomlAccepted, TableAccepted, Accepts
  <2> QED
    BY <1>1, <2>2 DEF TypedSetting, WellTyped, Elements, IsSeq
<1>2. CASE key \notin DOMAIN root
  BY <1>2, EmptyIsSeq DEF Elements
<1> QED
  BY <1>1, <1>2

(* The texts at the root: the token is in a table of its own.              *)
LEMMA TomlSettingsTyped ==
  ASSUME NEW root, TomlAccepted(root), \A key \in DOMAIN root : TypedSetting(root[key]),
         NEW key \in TextKeys
  PROVE  TomlConfig(root)[key] \in Seq(Pieces)
<1>1. CASE key = "token"
  <2>1. TomlConfig(root)["token"] = IF "auth" \in DOMAIN root
                                    THEN ValueOr(root["auth"].holds, "token", "text", NoText)
                                    ELSE NoText
    BY KeysOfConfig DEF TomlConfig, AuthToken, ConfigKeys
  <2>2. CASE "auth" \in DOMAIN root
    <3> DEFINE table == root["auth"].holds
    <3>1. root["auth"].kind = "table" /\ \A k \in DOMAIN table : IsString(table[k])
      BY <2>2 DEF TomlAccepted, TableAccepted, Accepts, RootParsers
    <3>2. \A k \in DOMAIN table : WellTyped(table[k])
      BY <2>2, <3>1 DEF TypedSetting, TypedItem, Places
    <3>3. ValueOr(table, "token", "text", NoText) \in Seq(Pieces)
      BY <3>1, <3>2, TextIsRead, TextsArePieces DEF Accepts
    <3> QED
      BY <1>1, <2>1, <2>2, <3>3
  <2>3. CASE "auth" \notin DOMAIN root
    BY <1>1, <2>1, <2>3, TextsArePieces
  <2> QED
    BY <2>2, <2>3
<1>2. CASE key # "token"
  <2>1. /\ key \in ConfigKeys \ {"token", "proxies", "visitors"}
        /\ RootParsers[key] = "text" /\ DefaultConfig[key] = NoText
    BY <1>2 DEF TextKeys, ConfigKeys, RootParsers, DefaultConfig
  <2>2. TomlConfig(root)[key] = ValueOr(root, key, "text", NoText)
    BY <2>1, RootSettings
  <2>3. key \in DOMAIN root => WellTyped(root[key]) /\ Accepts("text", root[key])
    BY <2>1 DEF TypedSetting, TomlAccepted, TableAccepted
  <2> QED
    BY <2>2, <2>3, TextIsRead, TextsArePieces
<1> QED
  BY <1>1, <1>2

LEMMA TomlConfigTyped ==
  ASSUME NEW root, TomlAccepted(root), \A key \in DOMAIN root : TypedSetting(root[key])
  PROVE  ConfigInv(TomlConfig(root)) /\ ItemsInv(TomlConfig(root))
<1> DEFINE c == TomlConfig(root)
<1>1. DOMAIN c = DOMAIN DefaultConfig
  BY DEF TomlConfig
<1>2. ASSUME NEW key \in DOMAIN root
      PROVE  key \in DOMAIN RootParsers /\ Accepts(RootParsers[key], root[key])
  BY DEF TomlAccepted, TableAccepted
<1>3. ASSUME NEW key \in {"rename", "metadatasEnabled"} PROVE c[key] \in BOOLEAN
  <2>1. RootParsers[key] = "flag" /\ DefaultConfig[key] = FALSE
    BY DEF RootParsers, DefaultConfig
  <2>2. c[key] = ValueOr(root, key, "flag", FALSE)
    BY <2>1, RootSettings DEF ConfigKeys
  <2>3. CASE key \in DOMAIN root
    <3>1. c[key] = IF root[key].kind = "boolean" THEN root[key].holds ELSE root[key].holds # 0
      BY <2>2, <2>3 DEF ValueOr, Parsed
    <3> QED
      BY <2>3, <3>1 DEF TypedSetting, WellTyped
  <2>4. CASE key \notin DOMAIN root
    BY <2>2, <2>4 DEF ValueOr
  <2> QED
    BY <2>3, <2>4
<1>4. c.serverPort \in 0 .. MaxPort
  <2>1. c["serverPort"] = ValueOr(root, "serverPort", "port", 0)
    BY RootSettings DEF ConfigKeys, RootParsers, DefaultConfig
  <2>2. CASE "serverPort" \in DOMAIN root
    BY <2>1, <2>2, PortsAreTyped DEF ValueOr
  <2>3. CASE "serverPort" \notin DOMAIN root
    <3>1. c.serverPort = 0
      BY <2>1, <2>3 DEF ValueOr
    <3> QED
      BY <3>1 DEF MaxPort
  <2> QED
    BY <2>2, <2>3
<1>5. c.maxForwardConnections \in Nat \ {0}
  <2> DEFINE key == "maxForwardConnections"
  <2>1. RootParsers[key] = "count" /\ DefaultConfig[key] = 512
    BY DEF RootParsers, DefaultConfig
  <2>2. c[key] = ValueOr(root, key, "count", 512)
    BY <2>1, RootSettings DEF ConfigKeys
  <2>3. CASE key \in DOMAIN root
    <3>1. root[key].kind = "integer" /\ root[key].holds > 0
      <4>1. PICK value : value = root[key] /\ Accepts("count", value)
        BY <1>2, <2>1, <2>3
      <4>2. value.kind = "integer" /\ value.holds > 0
        BY <4>1 DEF Accepts
      <4> QED
        BY <4>1, <4>2
    <3>2. root[key].holds \in Int
      BY <2>3, <3>1 DEF TypedSetting, WellTyped
    <3>3. c[key] = root[key].holds
      BY <2>2, <2>3 DEF ValueOr, Parsed
    <3> QED
      BY <3>1, <3>2, <3>3
  <2>4. CASE key \notin DOMAIN root
    BY <2>2, <2>4 DEF ValueOr
  <2> QED
    BY <2>3, <2>4
<1>6. c["proxies"] = [i \in DOMAIN Elements(root, "proxies") |-> TomlProxy(root["proxies"].holds[i])]
  BY KeysOfConfig DEF TomlConfig, ConfigKeys
<1>7. c["visitors"] = [i \in DOMAIN Elements(root, "visitors") |-> TomlVisitor(root["visitors"].holds[i])]
  BY KeysOfConfig DEF TomlConfig, ConfigKeys
<1> HIDE DEF c
<1>8. ASSUME NEW i \in DOMAIN c.proxies PROVE ProxyInv(c.proxies[i])
  <2>1. i \in DOMAIN Elements(root, "proxies") /\ TomlProxyAccepted(root["proxies"].holds[i])
    BY <1>6, <1>8 DEF TomlAccepted
  <2>2. "proxies" \in DOMAIN root /\ root["proxies"].kind = "array"
    <3>1. RootParsers["proxies"] = "array"
      BY DEF RootParsers
    <3>2. "proxies" \in DOMAIN root
      BY <2>1, EmptyIsSeq DEF Elements
    <3> QED
      BY <1>2, <3>1, <3>2 DEF Accepts
  <2>3. TypedItem(root["proxies"].holds[i])
    BY <2>1, <2>2 DEF TypedSetting, Places, Elements
  <2> QED
    BY <1>6, <1>8, <2>1, <2>3, TomlProxyTyped
<1>9. ASSUME NEW items, NEW s, IsSeq(items), s = [i \in DOMAIN items |-> s[i]]
      PROVE  IsSeq(s)
  BY <1>9, SeqIsFunction, FunctionIsSeq
<1>10. IsSeq(c.proxies) /\ IsSeq(c.visitors)
  <2>1. IsSeq(Elements(root, "proxies")) /\ IsSeq(Elements(root, "visitors"))
    BY RootItems
  <2>2. c.proxies = [i \in DOMAIN Elements(root, "proxies") |-> c.proxies[i]]
    BY <1>6
  <2>3. c.visitors = [i \in DOMAIN Elements(root, "visitors") |-> c.visitors[i]]
    BY <1>7
  <2> QED
    BY <1>9, <2>1, <2>2, <2>3
<1>11. \A key \in TextKeys : c[key] \in Seq(Pieces)
  BY TomlSettingsTyped DEF c
<1> QED
  BY <1>1, <1>3, <1>4, <1>5, <1>8, <1>10, <1>11 DEF ConfigInv, ItemsInv, c

LEMMA IniConfigTyped ==
  ASSUME NEW sections, IniAccepted(sections), IsSeq(sections),
         \A section \in ToSet(sections) : TypedSection(section)
  PROVE  ConfigInv(IniConfig(sections))
<1> DEFINE c == IniConfig(sections)
           common == CommonSection(sections)
           proxies == IniProxies(sections)
<1>1. DOMAIN c = DOMAIN DefaultConfig
  BY DEF IniConfig
<1>2. /\ c.rename = IniFlag(common, "rename")
      /\ c.metadatasEnabled = IniFlag(common, "metadatas_enabled")
      /\ c.serverPort = IniPort(common, "server_port")
      /\ c.maxForwardConnections =
           NumberOr(IniText(common, "max_forward_connections"), Numerals \ {0}, 512)
      /\ c.user = IniText(common, "user") /\ c.token = IniText(common, "token")
      /\ c.serverAddr = IniText(common, "server_addr")
      /\ c.sshKnownHosts = IniText(common, "ssh_known_hosts")
      /\ c.proxies = [i \in DOMAIN proxies |->
                        [section \in ToSet(proxies) |-> IniProxy(section)][proxies[i]]]
  BY DEF IniConfig, DefaultConfig
<1>3. c.rename \in BOOLEAN /\ c.metadatasEnabled \in BOOLEAN
  BY <1>2 DEF IniFlag
<1>4. c.serverPort \in 0 .. MaxPort
  BY <1>2, IniPortsAreTyped
<1>5. c.maxForwardConnections \in Nat \ {0}
  <2>1. NumberOr(IniText(common, "max_forward_connections"), Numerals \ {0}, 512) \in Nat \ {0}
    BY CountsAreRead
  <2> HIDE DEF c
  <2> QED
    BY <1>2, <2>1
<1>6. TypedSection(common)
  <2> DEFINE found == Common(sections)
  <2>1. found \subseteq Nat /\ found # {} /\ found \subseteq DOMAIN sections
    BY SeqIsFunction DEF Common, IniAccepted
  <2>2. \E i \in found : \A j \in found : i <= j
    <3> HIDE DEF found
    <3> QED
      BY <2>1, LeastNumber
  <2>3. PICK i \in found : common = sections[i]
    BY <2>2 DEF CommonSection
  <2> QED
    BY <2>1, <2>3 DEF ToSet
<1>7. ASSUME NEW i \in DOMAIN c.proxies PROVE ProxyInv(c.proxies[i])
  <2>1. proxies \in Seq(ToSet(sections)) /\ ToSet(proxies) \subseteq ToSet(sections)
    BY OnlyMembers DEF IniProxies, IsSeq
  <2>2. i \in DOMAIN proxies /\ proxies[i] \in ToSet(proxies)
    BY <1>2, <1>7 DEF ToSet
  <2>3. c.proxies[i] = IniProxy(proxies[i])
    BY <1>2, <2>2
  <2>4. IniProxyAccepted(proxies[i])
    BY <2>2 DEF IniAccepted
  <2>5. TypedSection(proxies[i])
    BY <2>1, <2>2
  <2> QED
    BY <2>3, <2>4, <2>5, IniProxyTyped
<1>8. ASSUME NEW key \in TextKeys PROVE c[key] \in Seq(Pieces)
  <2>1. \A k : IniText(common, k) \in Seq(Pieces)
    BY <1>6, IniTextTyped, TextsArePieces
  <2> HIDE DEF c, common
  <2> QED
    BY <1>2, <2>1 DEF TextKeys
<1> QED
  BY <1>1, <1>3, <1>4, <1>5, <1>7, <1>8 DEF ConfigInv

LEMMA PrefixedType ==
  ASSUME NEW user \in Seq(Pieces), NEW text \in Seq(Pieces)
  PROVE  Prefixed(user, text) \in Seq(Pieces)
<1>1. "." \in Pieces
  BY DEF Pieces
<1>2. user \o <<".">> \o text \in Seq(Pieces)
  BY <1>1
<1> QED
  BY <1>2 DEF Prefixed

LEMMA CompletedProxyTyped ==
  ASSUME NEW p, NEW user \in Seq(Pieces), ProxyInv(p)
  PROVE  ProxyInv(CompleteProxy(p, user))
<1> DEFINE q == CompleteProxy(p, user)
<1>1. DOMAIN q = ProxyFields
  BY DEF ProxyInv, CompleteProxy
<1>2. ASSUME NEW field \in ProxyFields \ {"name", "localIP"} PROVE q[field] = p[field]
  BY DEF ProxyInv, CompleteProxy
<1>3. q.type = p.type /\ q.metadatas = p.metadatas
  BY <1>2 DEF ProxyFields
<1>4. PortFields \cup ListFields \subseteq ProxyFields \ {"name", "localIP"}
  BY DEF PortFields, ListFields, ProxyFields
<1>5. ProxyFields \ OwnFields(q.type) \subseteq ProxyFields \ {"name", "localIP"}
  BY DEF OwnFields
<1>6. q.name \in Seq(Pieces) /\ q.localIP \in Seq(Pieces)
  <2>1. p["name"] \in Seq(Pieces) /\ p["localIP"] \in Seq(Pieces)
    BY DEF ProxyInv, TextsInv, TextFields
  <2>2. /\ q.name = Prefixed(user, p.name)
        /\ q.localIP = IF p.localIP = NoText THEN <<"127.0.0.1">> ELSE p.localIP
    BY DEF ProxyInv, CompleteProxy, ProxyFields, TextFields
  <2>3. <<"127.0.0.1">> \in Seq(Pieces)
    <3>1. "127.0.0.1" \in Pieces
      BY DEF Pieces
    <3> QED
      BY <3>1
  <2> QED
    BY <2>1, <2>2, <2>3, PrefixedType
<1> HIDE DEF q
<1>7. \A field \in TextFields : q[field] \in Seq(Pieces)
  <2>1. \A field \in TextFields \ {"name", "localIP"} : q[field] = p[field]
    BY <1>2 DEF ProxyFields
  <2> QED
    BY <1>6, <2>1 DEF ProxyInv, TextsInv
<1>8. TextsInv(q)
  BY <1>2, <1>3, <1>4, <1>7 DEF ProxyInv, TextsInv
<1> QED
  BY <1>1, <1>2, <1>3, <1>4, <1>5, <1>8 DEF ProxyInv, q

(* The keys that complete() may fill or rewrite.                           *)
Completed == {"serverAddr", "serverPort", "proxies", "visitors"}

LEMMA CompleteKeepsRest ==
  ASSUME NEW c, DOMAIN c = DOMAIN DefaultConfig, NEW key \in ConfigKeys \ Completed
  PROVE  Complete(c)[key] = c[key]
BY KeysOfConfig DEF Complete, Completed

LEMMA CompleteTyped ==
  ASSUME NEW c, ConfigInv(c)
  PROVE  ConfigInv(Complete(c)) /\ (ItemsInv(c) => ItemsInv(Complete(c)))
<1> DEFINE d == Complete(c)
           user == IF c.userDoublePrefix THEN c.user ELSE NoText
<1>1. DOMAIN c = ConfigKeys /\ DOMAIN d = ConfigKeys
  BY KeysOfConfig DEF ConfigInv, Complete
<1>2. d.proxies = [i \in DOMAIN c.proxies |-> CompleteProxy(c.proxies[i], user)]
  BY <1>1 DEF Complete, ConfigKeys
<1>3. d.visitors = [i \in DOMAIN c.visitors |-> CompleteVisitor(c.visitors[i], c.user)]
  BY <1>1 DEF Complete, ConfigKeys
<1>4. d.serverPort = IF c.serverPort = 0 THEN 2200 ELSE c.serverPort
  BY <1>1 DEF Complete, ConfigKeys
<1>5. /\ d.rename = c.rename
      /\ d.metadatasEnabled = c.metadatasEnabled
      /\ d.maxForwardConnections = c.maxForwardConnections
      /\ d.user = c.user /\ d.token = c.token /\ d.sshKnownHosts = c.sshKnownHosts
      /\ d.serverAddr = IF c.serverAddr = NoText THEN <<"0.0.0.0">> ELSE c.serverAddr
  BY <1>1 DEF Complete, ConfigKeys
<1>10. \A key \in TextKeys : d[key] \in Seq(Pieces)
  <2>1. <<"0.0.0.0">> \in Seq(Pieces)
    <3>1. "0.0.0.0" \in Pieces
      BY DEF Pieces
    <3> QED
      BY <3>1
  <2> HIDE DEF d
  <2> QED
    BY <1>5, <2>1 DEF ConfigInv, TextKeys
<1>11. user \in Seq(Pieces)
  BY TextsArePieces DEF ConfigInv, TextKeys
<1> HIDE DEF d, user
<1>6. d.serverPort \in 0 .. MaxPort
  <2>1. 2200 \in 0 .. MaxPort
    BY DEF MaxPort
  <2>2. c.serverPort \in 0 .. MaxPort
    BY DEF ConfigInv
  <2> QED
    BY <1>4, <2>1, <2>2
<1>7. ASSUME NEW i \in DOMAIN d.proxies PROVE ProxyInv(d.proxies[i])
  BY <1>2, <1>7, <1>11, CompletedProxyTyped DEF ConfigInv
<1>8. ASSUME ItemsInv(c) PROVE ItemsInv(d)
  <2>1. /\ d.proxies = [i \in DOMAIN c.proxies |-> d.proxies[i]]
        /\ d.visitors = [i \in DOMAIN c.visitors |-> d.visitors[i]]
    BY <1>2, <1>3
  <2> QED
    BY <1>8, <2>1, SeqIsFunction, FunctionIsSeq DEF ItemsInv
<1>9. ConfigInv(d)
  BY <1>1, <1>5, <1>6, <1>7, <1>10, KeysOfConfig DEF ConfigInv
<1> QED
  BY <1>8, <1>9 DEF d

(* The keys that the command line may set.                                 *)
Overridden == {"rename", "metadatasEnabled", "sshPrivateKey"}

LEMMA OverridesTyped ==
  ASSUME NEW a, NEW c, ConfigInv(c)
  PROVE  /\ ConfigInv(ApplyOverrides(a, c))
         /\ \A key \in ConfigKeys \ Overridden : ApplyOverrides(a, c)[key] = c[key]
<1> DEFINE d == ApplyOverrides(a, c)
<1>1. DOMAIN c = ConfigKeys /\ DOMAIN d = ConfigKeys
  BY KeysOfConfig DEF ConfigInv, ApplyOverrides
<1>2. /\ d.rename = IF a.rename = "file" THEN c.rename ELSE a.rename = "on"
      /\ d.metadatasEnabled =
           IF a.metadatas = "file" THEN c.metadatasEnabled ELSE a.metadatas = "on"
  BY <1>1 DEF ApplyOverrides, ConfigKeys
<1>3. \A key \in ConfigKeys \ Overridden : d[key] = c[key]
  BY <1>1 DEF ApplyOverrides, Overridden
<1> HIDE DEF d
<1>4. d.rename \in BOOLEAN /\ d.metadatasEnabled \in BOOLEAN
  BY <1>2 DEF ConfigInv
<1>5. /\ d.serverPort = c.serverPort
      /\ d.maxForwardConnections = c.maxForwardConnections
      /\ d.proxies = c.proxies
  BY <1>3 DEF ConfigKeys, Overridden
<1>6. \A key \in TextKeys : d[key] = c[key]
  BY <1>3 DEF ConfigKeys, Overridden, TextKeys
<1> QED
  BY <1>1, <1>3, <1>4, <1>5, <1>6, KeysOfConfig DEF ConfigInv, d

-----------------------------------------------------------------------------
(* Loading *)

FilesTyped == \A name \in DOMAIN files : TypedFile(files[name])

ArgsInv ==
  /\ DOMAIN args = DOMAIN DefaultArgs
  /\ args.expects \in {"", "-c", "--ssh-private-key"}
  /\ args.ended \in {"run", "rejected", "printed"}
  /\ outcome = "start" => args.ended = "run"

FrameInv(frame) ==
  /\ DOMAIN frame = {"config", "patterns", "todo"}
  /\ ConfigInv(frame.config)
  /\ ItemsInv(frame.config)

(* The invariant: the directory is one the parser of TOML can give, each   *)
(* file on the stack has a configuration in the ranges of its fields, and  *)
(* the stack is there as long as the files are loaded.                     *)
LoadInv ==
  /\ FilesTyped
  /\ ArgsInv
  /\ outcome \in Ended \cup {"start", "load", "loading", "loaded"}
  /\ IsSeq(stack)
  /\ Len(stack) \in 0 .. MaxDepth
  /\ outcome = "loading" => stack # << >>
  /\ outcome \notin {"loading", "rejected", "crashed"} => stack = << >>
  /\ \A i \in 1 .. Len(stack) : FrameInv(stack[i])
  /\ ConfigInv(config)

LEMMA TokenTyped ==
  ASSUME NEW a, DOMAIN a = DOMAIN DefaultArgs, a.ended = "run",
         a.expects \in {"", "-c", "--ssh-private-key"}, NEW token
  PROVE  LET b == TakesToken(a, token)
         IN  /\ DOMAIN b = DOMAIN DefaultArgs
             /\ b.expects \in {"", "-c", "--ssh-private-key"}
             /\ b.ended \in {"run", "rejected", "printed"}
<1> DEFINE Typed(b) == /\ DOMAIN b = DOMAIN DefaultArgs
                      /\ b.expects \in {"", "-c", "--ssh-private-key"}
                      /\ b.ended \in {"run", "rejected", "printed"}
<1>1. Typed(a)
  OBVIOUS
<1>2. \A expects \in {"", "-c", "--ssh-private-key"} :
        Typed([a EXCEPT !.expects = expects])
  BY DEF DefaultArgs
<1>3. \A ended \in {"rejected", "printed"} : Typed([a EXCEPT !.ended = ended])
  BY DEF DefaultArgs
<1>4. \A value : Typed([a EXCEPT !.rename = value]) /\ Typed([a EXCEPT !.metadatas = value])
  BY DEF DefaultArgs
<1>5. \A value : /\ Typed([a EXCEPT !.config = value, !.expects = ""])
                /\ Typed([a EXCEPT !.key = value, !.hasKey = TRUE, !.expects = ""])
  BY DEF DefaultArgs
<1>6. \A value : /\ Typed(TakesValue(a, "-c", value))
                /\ Typed(TakesValue(a, "--ssh-private-key", value))
  BY <1>3, <1>5 DEF TakesValue
<1>7. \A value : /\ Typed(SetsFlag(a, "rename", value))
                /\ Typed(SetsFlag(a, "metadatas", value))
  BY <1>3, <1>4 DEF SetsFlag
<1> SUFFICES Typed(TakesToken(a, token))
  OBVIOUS
<1> HIDE DEF Typed
<1>8. CASE a.expects # ""
  BY <1>6, <1>8 DEF TakesToken
<1>9. CASE a.expects = ""
  <2>1. CASE token.name \in {"-v", "-h"}
    BY <1>3, <1>9, <2>1 DEF TakesToken
  <2>2. CASE token.name \in {"-c", "--ssh-private-key"}
    <3>1. TakesToken(a, token) = IF token.inline THEN TakesValue(a, token.name, token.v)
                                ELSE [a EXCEPT !.expects = token.name]
      BY <1>9, <2>2 DEF TakesToken
    <3>2. Typed(TakesValue(a, token.name, token.v)) /\ Typed([a EXCEPT !.expects = token.name])
      BY <1>2, <1>6, <2>2
    <3> QED
      BY <3>1, <3>2
  <2>3. CASE token.name \in {"--rename", "--no-rename", "--metadatas", "--no-metadatas"}
    BY <1>7, <1>9, <2>3 DEF TakesToken
  <2>4. CASE token.name \notin {"-v", "-h", "-c", "--ssh-private-key", "--rename",
                               "--no-rename", "--metadatas", "--no-metadatas"}
    BY <1>3, <1>9, <2>4 DEF TakesToken
  <2> QED
    BY <2>1, <2>2, <2>3, <2>4
<1> QED
  BY <1>8, <1>9

LEMMA FrameTyped ==
  ASSUME NEW file, ParsesAsToml(file), TypedFile(file)
  PROVE  FrameInv(Frame(file))
<1> DEFINE c == TomlConfig(file.root)
           d == [c EXCEPT !.includes = << >>]
<1>1. ConfigInv(c) /\ ItemsInv(c)
  BY TomlConfigTyped DEF ParsesAsToml, TypedFile
<1>2. /\ DOMAIN c = ConfigKeys /\ DOMAIN d = ConfigKeys
      /\ \A key \in ConfigKeys \ {"includes"} : d[key] = c[key]
  BY <1>1, KeysOfConfig DEF ConfigInv
<1> HIDE DEF c
<1>3. Frame(file) = [config |-> d, patterns |-> c.includes, todo |-> << >>]
  BY DEF Frame, c
<1> HIDE DEF d
<1>4. /\ d.rename = c.rename
      /\ d.metadatasEnabled = c.metadatasEnabled
      /\ d.serverPort = c.serverPort
      /\ d.maxForwardConnections = c.maxForwardConnections
      /\ d.proxies = c.proxies
      /\ d.visitors = c.visitors
      /\ \A key \in TextKeys : d[key] = c[key]
  BY <1>2 DEF ConfigKeys, TextKeys
<1>5. ConfigInv(d) /\ ItemsInv(d)
  BY <1>1, <1>2, <1>4, KeysOfConfig DEF ConfigInv, ItemsInv
<1> QED
  BY <1>3, <1>5 DEF FrameInv

LEMMA DefaultConfigTyped == ConfigInv(DefaultConfig)
BY TextsArePieces DEF ConfigInv, DefaultConfig, MaxPort, TextKeys

(* The file that parse is called for, the one on top of the stack.         *)
LEMMA TopFrame ==
  ASSUME LoadInv, outcome = "loading"
  PROVE  Len(stack) \in 1 .. MaxDepth /\ FrameInv(Top)
<1>1. Len(stack) \in Nat /\ Len(stack) # 0
  BY SeqIsFunction DEF LoadInv, IsSeq
<1> QED
  BY <1>1, DepthAssumption DEF LoadInv, Top

LEMMA LoadInvInit == Init => LoadInv
<1> SUFFICES ASSUME Init PROVE LoadInv
  OBVIOUS
<1>1. FilesTyped
  BY LaunchesAssumption DEF Init, FilesTyped
<1>2. IsSeq(stack) /\ Len(stack) = 0
  BY EmptyIsSeq DEF Init
<1>3. ArgsInv
  BY DEF Init, ArgsInv, DefaultArgs
<1> QED
  BY <1>1, <1>2, <1>3, DefaultConfigTyped, DepthAssumption DEF Init, LoadInv

(* A file that is completed gives its items to the one that includes it.   *)
WithItemsOf(parent, done) ==
  [parent EXCEPT !.todo = Tail(@),
                 !.config.proxies = @ \o done.proxies,
                 !.config.visitors = @ \o done.visitors]

LEMMA TakesItems ==
  ASSUME NEW parent, FrameInv(parent), NEW done, ConfigInv(done), ItemsInv(done)
  PROVE  /\ FrameInv(WithItemsOf(parent, done))
         /\ \A key \in ConfigKeys \ {"proxies", "visitors"} :
              WithItemsOf(parent, done).config[key] = parent.config[key]
<1> DEFINE frame == WithItemsOf(parent, done)
           c == parent.config
           d == frame.config
<1>1. DOMAIN c = ConfigKeys /\ DOMAIN done = ConfigKeys
  BY KeysOfConfig DEF FrameInv, ConfigInv
<1>2. /\ DOMAIN frame = {"config", "patterns", "todo"}
      /\ DOMAIN d = ConfigKeys
      /\ d.proxies = c.proxies \o done.proxies
      /\ d.visitors = c.visitors \o done.visitors
      /\ \A key \in ConfigKeys \ {"proxies", "visitors"} : d[key] = c[key]
  BY <1>1 DEF FrameInv, ConfigKeys, WithItemsOf
<1>3. /\ d.rename = c.rename
      /\ d.metadatasEnabled = c.metadatasEnabled
      /\ d.serverPort = c.serverPort
      /\ d.maxForwardConnections = c.maxForwardConnections
      /\ \A key \in TextKeys : d[key] = c[key]
  BY <1>2 DEF ConfigKeys, TextKeys
<1>4. ConfigInv(c) /\ ItemsInv(c)
  BY DEF FrameInv
<1> HIDE DEF c, d, frame
<1>5. ItemsInv(d)
  BY <1>2, <1>4, ConcatIsSeq DEF ItemsInv
<1>6. ASSUME NEW i \in DOMAIN d.proxies PROVE ProxyInv(d.proxies[i])
  <2>1. d.proxies[i] \in ToSet(c.proxies) \cup ToSet(done.proxies)
    BY <1>2, <1>4, <1>6, ConcatIsSeq DEF ItemsInv
  <2>2. \A p \in ToSet(c.proxies) \cup ToSet(done.proxies) : ProxyInv(p)
    BY <1>4 DEF ToSet, ConfigInv
  <2> QED
    BY <2>1, <2>2
<1>7. ConfigInv(d)
  BY <1>2, <1>3, <1>4, <1>6, KeysOfConfig DEF ConfigInv
<1> QED
  BY <1>2, <1>5, <1>7 DEF FrameInv, c, d, frame

(* The end of a file, when another one included it.                        *)
LEMMA FinishIncluded ==
  ASSUME LoadInv, FinishFile, Len(stack) # 1
  PROVE  /\ IsSeq(stack') /\ Len(stack') = Len(stack) - 1 /\ Len(stack') >= 1
         /\ \A i \in 1 .. Len(stack') :
              /\ FrameInv(stack'[i])
              /\ \A key \in ConfigKeys \ {"proxies", "visitors"} :
                   stack'[i].config[key] = stack[i].config[key]
         /\ UNCHANGED <<files, commandLine, config, outcome>>
<1> DEFINE n == Len(stack) - 2
           below == SubSeq(stack, 1, n)
           parent == stack[Len(stack) - 1]
           done == Complete(Top.config)
           frame == WithItemsOf(parent, done)
<1>1. outcome = "loading"
  BY DEF FinishFile
<1> HIDE DEF below, done, frame, parent
<1>2. Len(stack) \in 2 .. MaxDepth /\ n \in 0 .. Len(stack) /\ IsSeq(stack)
  <2>1. Len(stack) \in 1 .. MaxDepth /\ Len(stack) # 1 /\ MaxDepth \in Nat
    BY <1>1, TopFrame, DepthAssumption
  <2>2. \A k \in 1 .. MaxDepth : k # 1 => k \in 2 .. MaxDepth /\ k - 2 \in 0 .. k
    BY DepthAssumption
  <2>3. IsSeq(stack)
    BY DEF LoadInv
  <2> QED
    BY <2>1, <2>2, <2>3 DEF n
<1>3. /\ stack' = Append(below, frame)
      /\ UNCHANGED <<files, commandLine, config, outcome>>
  BY DEF FinishFile, Top, below, frame, done, parent, WithItemsOf
<1>4. ConfigInv(done) /\ ItemsInv(done)
  BY <1>1, TopFrame, CompleteTyped DEF FrameInv, done
<1>5. n + 1 = Len(stack) - 1 /\ FrameInv(parent)
  BY <1>2 DEF LoadInv, parent
<1>6. /\ IsSeq(below) /\ Len(below) = n
      /\ \A i \in 1 .. n : below[i] = stack[i]
  BY <1>2, BelowIsSeq DEF below
<1>7. /\ IsSeq(stack') /\ Len(stack') = n + 1 /\ stack'[n + 1] = frame
      /\ \A i \in 1 .. n : stack'[i] = stack[i]
  BY <1>3, <1>6, AppendIsSeq, SeqIsFunction
<1>8. /\ FrameInv(frame)
      /\ \A key \in ConfigKeys \ {"proxies", "visitors"} :
           frame.config[key] = parent.config[key]
  BY <1>4, <1>5, TakesItems DEF frame
<1>9. ASSUME NEW i \in 1 .. n
      PROVE  FrameInv(stack'[i]) /\ stack'[i] = stack[i]
  BY <1>2, <1>7, <1>9 DEF LoadInv
<1> QED
  BY <1>2, <1>3, <1>5, <1>7, <1>8, <1>9 DEF parent

LEMMA ArgsInvStep ==
  ASSUME ArgsInv, [Next]_vars
  PROVE  ArgsInv'
<1>1. CASE TakeArgument
  <2>1. args.ended = "run" /\ args' = TakesToken(args, argv[taken'])
    BY <1>1 DEF TakeArgument, ArgsInv
  <2>2. /\ DOMAIN args' = DOMAIN DefaultArgs
        /\ args'.expects \in {"", "-c", "--ssh-private-key"}
        /\ args'.ended \in {"run", "rejected", "printed"}
    BY <2>1, TokenTyped DEF ArgsInv
  <2>3. outcome' = IF args'.ended = "run" THEN outcome ELSE args'.ended
    BY <1>1 DEF TakeArgument
  <2> QED
    BY <2>2, <2>3 DEF ArgsInv
<1>2. CASE ~TakeArgument
  <2>1. args' = args /\ (outcome' = "start" => outcome = "start")
    BY <1>2 DEF Next, Step, Stays, vars, commandLine, ArgumentsEnd, LoadMainRejected, LoadMainIni,
                LoadMainToml, NextPattern, IncludeRejected, LoadIncluded, Overflow, FinishFile,
                Start, Reject
  <2> QED
    BY <2>1 DEF ArgsInv
<1> QED
  BY <1>1, <1>2

LEMMA LoadInvStep == LoadInv /\ [Next]_vars => LoadInv'
<1> SUFFICES ASSUME LoadInv, [Next]_vars PROVE LoadInv'
  OBVIOUS
<1>0. ArgsInv'
  BY ArgsInvStep DEF LoadInv
<1> USE <1>0 DEF commandLine
<1>1. CASE TakeArgument
  <2>1. outcome' \in {"start", "rejected", "printed"}
    BY <1>1 DEF TakeArgument, ArgsInv
  <2> QED
    BY <1>1, <2>1 DEF TakeArgument, LoadInv, FilesTyped, Ended
<1>2. CASE ArgumentsEnd
  BY <1>2 DEF ArgumentsEnd, LoadInv, FilesTyped, Ended
<1>3. CASE LoadMainRejected \/ IncludeRejected
  BY <1>3 DEF LoadMainRejected, IncludeRejected, Reject, LoadInv, FilesTyped, Ended
<1>4. CASE LoadMainIni
  <2>1. IniAccepted(MainFile.sections)
    BY <1>4 DEF LoadMainIni, MainLoads
  <2>2. TypedFile(MainFile) /\ MainFile.format = "ini"
    BY <1>4 DEF LoadMainIni, MainLoads, LooksLikeIni, IsFile, MainFile, LoadInv, FilesTyped
  <2>3. ConfigInv(IniConfig(MainFile.sections))
    BY <2>1, <2>2, IniConfigTyped DEF TypedFile, IsSeq
  <2>4. ConfigInv(config')
    BY <1>4, <2>3, CompleteTyped DEF LoadMainIni
  <2> QED
    BY <1>4, <2>4 DEF LoadMainIni, LoadInv, FilesTyped, Ended
<1>5. CASE LoadMainToml
  <2>1. ParsesAsToml(MainFile) /\ args.config \in DOMAIN files
    BY <1>5 DEF LoadMainToml, MainLoads, IsFile
  <2>2. FrameInv(Frame(MainFile))
    BY <2>1, FrameTyped DEF LoadInv, FilesTyped, MainFile, ParsesAsToml
  <2>3. stack' = <<Frame(MainFile)>> /\ outcome' = "loading" /\ UNCHANGED <<files, config>>
    BY <1>5 DEF LoadMainToml
  <2>4. IsSeq(stack') /\ Len(stack') = 1 /\ stack'[1] = Frame(MainFile)
    <3>1. stack' \in Seq({Frame(MainFile)})
      BY <2>3
    <3> QED
      BY <2>3, <3>1, MembersAreSeqs
  <2> QED
    BY <2>2, <2>3, <2>4, DepthAssumption, EmptyIsSeq DEF LoadInv, FilesTyped, Ended
<1>6. CASE NextPattern
  <2>1. outcome = "loading"
    BY <1>6 DEF NextPattern
  <2>2. Len(stack) \in 1 .. MaxDepth /\ FrameInv(Top)
    BY <2>1, TopFrame
  <2>3. CASE Reject
    BY <2>3 DEF Reject, LoadInv, FilesTyped, Ended
  <2>4. CASE ~Reject
    <3> DEFINE matches == ExpandPattern(Head(Top.patterns))
               frame == [Top EXCEPT !.patterns = Tail(@), !.todo = matches]
    <3>1. stack' = WithTop(frame) /\ UNCHANGED <<files, config, outcome>>
      BY <1>6, <2>4 DEF NextPattern
    <3>2. FrameInv(frame)
      BY <2>2 DEF FrameInv
    <3> HIDE DEF frame
    <3>3. IsSeq(stack)
      BY DEF LoadInv
    <3>4. /\ IsSeq(stack') /\ Len(stack') = Len(stack)
          /\ \A i \in 1 .. Len(stack) : stack'[i] = IF i = Len(stack) THEN frame ELSE stack[i]
      BY <3>1, <3>3, SeqIsFunction, FunctionIsSeq DEF WithTop
    <3> QED
      BY <2>1, <2>2, <3>1, <3>2, <3>4, EmptyIsSeq DEF LoadInv, FilesTyped, Ended
  <2> QED
    BY <2>3, <2>4
<1>7. CASE LoadIncluded
  <2>1. outcome = "loading" /\ Len(stack) # MaxDepth
    BY <1>7 DEF LoadIncluded, TooDeep
  <2>2. Len(stack) \in 1 .. MaxDepth - 1 /\ IsSeq(stack)
    BY <2>1, TopFrame, DepthAssumption DEF LoadInv
  <2>3. ParsesAsToml(Included) /\ Head(Top.todo) \in DOMAIN files
    BY <1>7 DEF LoadIncluded, IncludeParses, IsFile
  <2>4. FrameInv(Frame(Included))
    BY <2>3, FrameTyped DEF LoadInv, FilesTyped, Included, ParsesAsToml
  <2>5. stack' = Append(stack, Frame(Included)) /\ UNCHANGED <<files, config, outcome>>
    BY <1>7 DEF LoadIncluded
  <2>6. /\ IsSeq(stack') /\ Len(stack') = Len(stack) + 1
        /\ \A i \in 1 .. Len(stack) : stack'[i] = stack[i]
        /\ stack'[Len(stack) + 1] = Frame(Included)
    BY <2>2, <2>5, AppendIsSeq, SeqIsFunction
  <2> QED
    BY <2>1, <2>2, <2>4, <2>5, <2>6, EmptyIsSeq, DepthAssumption DEF LoadInv, FilesTyped, Ended
<1>8. CASE Overflow
  BY <1>8 DEF Overflow, LoadInv, FilesTyped, Ended
<1>9. CASE FinishFile
  <2>1. outcome = "loading"
    BY <1>9 DEF FinishFile
  <2>2. CASE Len(stack) = 1
    <3>1. /\ stack' = << >> /\ config' = Complete(Top.config) /\ outcome' = "loaded"
          /\ UNCHANGED files
      BY <1>9, <2>2 DEF FinishFile
    <3>2. ConfigInv(config')
      BY <2>1, <3>1, TopFrame, CompleteTyped DEF FrameInv
    <3>3. IsSeq(stack') /\ Len(stack') = 0
      BY <3>1, EmptyIsSeq
    <3> QED
      BY <3>1, <3>2, <3>3, DepthAssumption DEF LoadInv, FilesTyped, Ended
  <2>3. CASE Len(stack) # 1
    <3>1. Len(stack) \in 1 .. MaxDepth
      BY <2>1, TopFrame
    <3>2. /\ IsSeq(stack') /\ Len(stack') \in 1 .. MaxDepth
          /\ \A i \in 1 .. Len(stack') : FrameInv(stack'[i])
          /\ UNCHANGED <<files, config, outcome>>
      BY <1>9, <2>3, <3>1, FinishIncluded, DepthAssumption
    <3> QED
      BY <2>1, <3>2, EmptyIsSeq, DepthAssumption DEF LoadInv, FilesTyped, Ended
  <2> QED
    BY <2>2, <2>3
<1>10. CASE Start
  <2>1. ConfigInv(config')
    BY <1>10, OverridesTyped DEF Start, LoadInv
  <2> QED
    BY <1>10, <2>1 DEF Start, LoadInv, FilesTyped, Ended
<1>11. CASE UNCHANGED vars
  BY <1>11 DEF vars, LoadInv, FilesTyped
<1> QED
  BY <1>1, <1>2, <1>3, <1>4, <1>5, <1>6, <1>7, <1>8, <1>9, <1>10, <1>11
     DEF Next, Step, Stays

(* Whatever the files contain, all that load() works on is in its range    *)
(* (LoadInv).                                                              *)
THEOREM LoadInvariant == Spec => []LoadInv
<1>1. LoadInv /\ [Next]_vars => LoadInv'
  BY LoadInvStep
<1> QED
  BY LoadInvInit, <1>1, PTL DEF Spec

(* The variables have their types, and whatever files are found, a loaded  *)
(* configuration is in the ranges the fields of Config have (model.rs).    *)
THEOREM StartupTypeCorrect == Spec => []StartupTypeOK
<1>1. LoadInv => StartupTypeOK
  <2> SUFFICES ASSUME LoadInv PROVE StartupTypeOK
    OBVIOUS
  <2>1. (stack # << >>) = (outcome = "loading") \/ outcome \in {"rejected", "crashed"}
    BY DEF LoadInv
  <2>2. ConfigInv(config)
    BY DEF LoadInv
  <2>3. \A i \in DOMAIN config.proxies :
          /\ config.proxies[i].type \in ProxyTypes
          /\ \A field \in PortFields : config.proxies[i][field] \in 0 .. MaxPort
    BY <2>2 DEF ConfigInv, ProxyInv
  <2> QED
    BY <2>1, <2>2, <2>3 DEF LoadInv, StartupTypeOK, ConfigInv
<1> QED
  BY LoadInvariant, <1>1, PTL

-----------------------------------------------------------------------------
(* The flags of a registration *)

FlagsWithin(arguments, flags) ==
  IsSeq(arguments) /\ \A i \in DOMAIN arguments : arguments[i][1] \in flags

LEMMA NoFlags ==
  ASSUME NEW flags
  PROVE  FlagsWithin(<< >>, flags)
BY EmptyIsSeq DEF FlagsWithin

LEMMA OneFlag ==
  ASSUME NEW flags, NEW flag \in flags, NEW text
  PROVE  FlagsWithin(<< <<flag, text>> >>, flags)
<1> DEFINE arguments == << <<flag, text>> >>
<1>1. arguments \in Seq({<<flag, text>>}) /\ DOMAIN arguments = {1}
  OBVIOUS
<1>2. arguments[1][1] = flag
  OBVIOUS
<1> QED
  BY <1>1, <1>2, MembersAreSeqs DEF FlagsWithin

LEMMA ConcatFlags ==
  ASSUME NEW flags, NEW s, FlagsWithin(s, flags), NEW t, FlagsWithin(t, flags)
  PROVE  FlagsWithin(s \o t, flags)
<1>1. IsSeq(s \o t) /\ \A i \in DOMAIN (s \o t) : (s \o t)[i] \in ToSet(s) \cup ToSet(t)
  BY ConcatIsSeq DEF FlagsWithin
<1>2. \A a \in ToSet(s) \cup ToSet(t) : a[1] \in flags
  BY DEF FlagsWithin, ToSet
<1> QED
  BY <1>1, <1>2 DEF FlagsWithin

LEMMA PushedFlags ==
  ASSUME NEW flags, NEW flag, NEW value
  PROVE  /\ (value # NoText => flag \in flags) =>
              FlagsWithin(Push(flag, value), flags) /\ FlagsWithin(PushList(flag, value), flags)
         /\ (value # 0 => flag \in flags) => FlagsWithin(PushNum(flag, value), flags)
         /\ flag \in flags => FlagsWithin(PushMetas(flag, value), flags)
BY NoFlags, OneFlag DEF Push, PushList, PushNum, PushMetas, NoText

FlagOf ==
  [remotePort |-> "--remote-port", customDomains |-> "--custom-domain",
   locations |-> "--locations", subdomain |-> "--sd", httpUser |-> "--http-user",
   httpPassword |-> "--http-pwd", hostHeaderRewrite |-> "--host-header-rewrite",
   secretKey |-> "--sk", allowUsers |-> "--allow-users", multiplexer |-> "--mux"]

LEMMA FlagsAreKnown ==
  ASSUME NEW type \in ProxyTypes, NEW field \in FieldsOfType(type)
  PROVE  FlagOf[field] \in KnownFlags(type)
<1>1. CASE type = "tcp"
  BY <1>1 DEF FieldsOfType, FlagOf, KnownFlags
<1>2. CASE type = "http"
  BY <1>2 DEF FieldsOfType, FlagOf, KnownFlags
<1>3. CASE type = "https"
  BY <1>3 DEF FieldsOfType, FlagOf, KnownFlags
<1>4. CASE type = "tcpmux"
  BY <1>4 DEF FieldsOfType, FlagOf, KnownFlags
<1>5. CASE type = "stcp"
  BY <1>5 DEF FieldsOfType, FlagOf, KnownFlags
<1> QED
  BY <1>1, <1>2, <1>3, <1>4, <1>5 DEF ProxyTypes

(* A field that is set is one of the type's, so its flag is known to frps. *)
LEMMA GivenIsKnown ==
  ASSUME NEW p, ProxyInv(p), NEW field \in DOMAIN FlagOf, p[field] # Unset(field)
  PROVE  FlagOf[field] \in KnownFlags(p.type)
<1>1. /\ field \in ProxyFields
      /\ field \notin {"name", "type", "localIP", "localPort", "metadatas"}
  BY DEF FlagOf, ProxyFields, TextFields, ListFields, PortFields
<1>2. field \in FieldsOfType(p.type)
  BY <1>1 DEF ProxyInv, OwnFields
<1> QED
  BY <1>2, FlagsAreKnown DEF ProxyInv

LEMMA ArgumentsAreKnown ==
  ASSUME NEW p, ProxyInv(p), NEW c
  PROVE  FlagsWithin(Arguments(p, c), KnownFlags(p.type))
<1> DEFINE flags == KnownFlags(p.type)
<1>1. {"--proxy-name", "--metadatas", "--user", "--token"} \subseteq flags
  BY DEF KnownFlags
<1>2. Unset("remotePort") = 0
  BY DEF Unset, PortFields
<1>3. \A field \in DOMAIN FlagOf \ {"remotePort"} : Unset(field) = NoText
  BY DEF Unset, PortFields, FlagOf
<1>4. \A field \in DOMAIN FlagOf : p[field] # Unset(field) => FlagOf[field] \in flags
  BY GivenIsKnown
<1> HIDE DEF flags
<1>5. FlagsWithin(PushNum("--remote-port", p.remotePort), flags)
  BY <1>2, <1>4, PushedFlags DEF FlagOf
<1>6. /\ FlagsWithin(PushList("--custom-domain", p.customDomains), flags)
      /\ FlagsWithin(PushList("--locations", p.locations), flags)
      /\ FlagsWithin(PushList("--allow-users", p.allowUsers), flags)
  BY <1>3, <1>4, PushedFlags DEF FlagOf
<1>7. /\ FlagsWithin(Push("--sd", p.subdomain), flags)
      /\ FlagsWithin(Push("--http-user", p.httpUser), flags)
      /\ FlagsWithin(Push("--http-pwd", p.httpPassword), flags)
      /\ FlagsWithin(Push("--host-header-rewrite", p.hostHeaderRewrite), flags)
      /\ FlagsWithin(Push("--sk", p.secretKey), flags)
      /\ FlagsWithin(Push("--mux", p.multiplexer), flags)
  BY <1>3, <1>4, PushedFlags DEF FlagOf
<1>8. /\ FlagsWithin(Push("--proxy-name", p.name), flags)
      /\ FlagsWithin(Push("--user", c.user), flags)
      /\ FlagsWithin(Push("--token", c.token), flags)
      /\ FlagsWithin(PushMetas("--metadatas", p.metadatas), flags)
  BY <1>1, PushedFlags
<1>9. /\ FlagsWithin(IF p.type = "tcp" THEN PushNum("--remote-port", p.remotePort)
                     ELSE << >>, flags)
      /\ FlagsWithin(IF c.metadatasEnabled THEN PushMetas("--metadatas", p.metadatas)
                     ELSE << >>, flags)
  BY <1>5, <1>8, NoFlags
<1>10. FlagsWithin(Arguments(p, c), flags)
  BY <1>6, <1>7, <1>8, <1>9, ConcatFlags, ZenonT(60) DEF Arguments
<1> QED
  BY <1>10 DEF flags

(* Whatever the files say, frps knows every flag that a running client     *)
(* sends with a registration (parse_proxy of both loaders, gen_extra).     *)
THEOREM FlagsAreRegistrable == Spec => []RegistersOnlyKnownFlags
<1>1. LoadInv => RegistersOnlyKnownFlags
  <2> SUFFICES ASSUME LoadInv, NEW p \in RunningProxies,
                      NEW i \in DOMAIN Arguments(p, config)
               PROVE  Arguments(p, config)[i][1] \in KnownFlags(p.type)
    BY DEF RegistersOnlyKnownFlags
  <2>1. ProxyInv(p)
    BY DEF RunningProxies, LoadInv, ConfigInv
  <2> QED
    BY <2>1, ArgumentsAreKnown DEF FlagsWithin
<1> QED
  BY LoadInvariant, <1>1, PTL

-----------------------------------------------------------------------------
(* Whose settings a running client has *)

ServerFromMain(c) ==
  /\ MainConfig.serverAddr # NoText => c.serverAddr = MainConfig.serverAddr
  /\ MainConfig.serverPort # 0 => c.serverPort = MainConfig.serverPort

(* The keys that a file alone sets, and no file that it includes.          *)
OwnKeys == ConfigKeys \ {"includes", "proxies", "visitors"}

(* The invariant: the lowest frame has what the main file says, and so has *)
(* the configuration, but for what complete() and the arguments change.    *)
MainInv ==
  /\ outcome = "loading" =>
       /\ ~LooksLikeIni(MainFile)
       /\ \A key \in OwnKeys : stack[1].config[key] = MainConfig[key]
  /\ outcome = "loaded" =>
       ServerFromMain(config) /\ \A key \in OwnKeys \ Completed : config[key] = MainConfig[key]
  /\ outcome = "running" =>
       /\ ServerFromMain(config)
       /\ \A key \in OwnKeys \ (Completed \cup Overridden) : config[key] = MainConfig[key]
       /\ config.rename = IF args.rename = "file" THEN MainConfig.rename ELSE args.rename = "on"
       /\ config.metadatasEnabled =
            IF args.metadatas = "file" THEN MainConfig.metadatasEnabled ELSE args.metadatas = "on"
       /\ config.sshPrivateKey = IF args.hasKey THEN args.key ELSE MainConfig.sshPrivateKey

LEMMA CompleteKeepsServer ==
  ASSUME NEW c, DOMAIN c = DOMAIN DefaultConfig
  PROVE  /\ c.serverAddr # NoText => Complete(c).serverAddr = c.serverAddr
         /\ c.serverPort # 0 => Complete(c).serverPort = c.serverPort
BY KeysOfConfig DEF Complete, ConfigKeys

(* A configuration that is completed has what it had from the main file.   *)
LEMMA CompletedFromMain ==
  ASSUME NEW c, ConfigInv(c), \A key \in OwnKeys : c[key] = MainConfig[key]
  PROVE  /\ ServerFromMain(Complete(c))
         /\ \A key \in OwnKeys \ Completed : Complete(c)[key] = MainConfig[key]
<1>1. DOMAIN c = DOMAIN DefaultConfig
  BY DEF ConfigInv
<1>2. c.serverAddr = MainConfig.serverAddr /\ c.serverPort = MainConfig.serverPort
  BY DEF OwnKeys, ConfigKeys
<1>3. ServerFromMain(Complete(c))
  BY <1>1, <1>2, CompleteKeepsServer DEF ServerFromMain
<1>4. ASSUME NEW key \in OwnKeys \ Completed PROVE Complete(c)[key] = MainConfig[key]
  BY <1>1, CompleteKeepsRest DEF OwnKeys
<1> QED
  BY <1>3, <1>4

LEMMA MainInvStep == LoadInv /\ MainInv /\ [Next]_vars => MainInv'
<1> SUFFICES ASSUME LoadInv, MainInv, [Next]_vars PROVE MainInv'
  OBVIOUS
<1> USE DEF commandLine
<1>1. CASE TakeArgument
  <2>1. ArgsInv'
    BY ArgsInvStep DEF LoadInv
  <2>2. outcome' \notin {"loading", "loaded", "running"}
    BY <1>1, <2>1 DEF TakeArgument, ArgsInv
  <2> QED
    BY <2>2 DEF MainInv
<1>2. CASE ArgumentsEnd
  BY <1>2 DEF ArgumentsEnd, MainInv
<1>3. CASE LoadMainRejected \/ IncludeRejected
  BY <1>3 DEF LoadMainRejected, IncludeRejected, Reject, MainInv
<1>4. CASE LoadMainIni
  <2>1. /\ ConfigInv(MainConfig)
        /\ config' = Complete(MainConfig)
        /\ outcome' = "loaded" /\ UNCHANGED <<files, args>>
    <3>1. TypedFile(MainFile) /\ MainFile.format = "ini"
      BY <1>4 DEF LoadMainIni, MainLoads, LooksLikeIni, IsFile, MainFile, LoadInv, FilesTyped
    <3> QED
      BY <1>4, <3>1, IniConfigTyped DEF LoadMainIni, MainLoads, MainConfig, TypedFile, IsSeq
  <2>2. /\ ServerFromMain(config')
        /\ \A key \in OwnKeys \ Completed : config'[key] = MainConfig[key]
    BY <2>1, CompletedFromMain
  <2> QED
    BY <2>1, <2>2 DEF MainInv, ServerFromMain, MainConfig, MainFile
<1>5. CASE LoadMainToml
  <2>1. /\ MainConfig = TomlConfig(MainFile.root)
        /\ stack' = <<Frame(MainFile)>>
        /\ outcome' = "loading" /\ UNCHANGED <<files, args>>
        /\ ~LooksLikeIni(MainFile)
    BY <1>5 DEF LoadMainToml, MainConfig
  <2>2. \A key \in OwnKeys : Frame(MainFile).config[key] = MainConfig[key]
    BY <2>1, KeysOfConfig DEF Frame, OwnKeys, TomlConfig
  <2>3. stack'[1] = Frame(MainFile)
    BY <2>1
  <2> QED
    BY <2>1, <2>2, <2>3 DEF MainInv, MainConfig, MainFile
<1>6. CASE NextPattern
  <2>1. outcome = "loading" /\ UNCHANGED <<files, args>>
    BY <1>6 DEF NextPattern, Reject
  <2>2. Len(stack) \in 1 .. MaxDepth /\ FrameInv(Top) /\ IsSeq(stack)
    BY <2>1, TopFrame DEF LoadInv
  <2>3. CASE Reject
    BY <2>3 DEF Reject, MainInv
  <2>4. CASE ~Reject
    <3> DEFINE matches == ExpandPattern(Head(Top.patterns))
               frame == [Top EXCEPT !.patterns = Tail(@), !.todo = matches]
    <3>1. stack' = WithTop(frame) /\ UNCHANGED <<files, args, outcome>>
      BY <1>6, <2>4 DEF NextPattern
    <3>2. frame.config = Top.config
      BY <2>2 DEF FrameInv
    <3> HIDE DEF frame
    <3>3. stack'[1] = IF 1 = Len(stack) THEN frame ELSE stack[1]
      BY <2>2, <3>1, SeqIsFunction DEF WithTop
    <3>4. stack'[1].config = stack[1].config
      BY <3>2, <3>3 DEF Top
    <3> QED
      BY <2>1, <3>1, <3>4 DEF MainInv, MainConfig, MainFile
  <2> QED
    BY <2>3, <2>4
<1>7. CASE LoadIncluded
  <2>1. /\ outcome = "loading"
        /\ stack' = Append(stack, Frame(Included)) /\ UNCHANGED <<files, args, outcome>>
    BY <1>7 DEF LoadIncluded
  <2>2. Len(stack) \in 1 .. MaxDepth /\ IsSeq(stack)
    BY <2>1, TopFrame DEF LoadInv
  <2>3. stack'[1] = stack[1]
    BY <2>1, <2>2, AppendIsSeq, SeqIsFunction
  <2> QED
    BY <2>1, <2>3 DEF MainInv, MainConfig, MainFile
<1>8. CASE Overflow
  BY <1>8 DEF Overflow, MainInv
<1>9. CASE FinishFile
  <2>1. outcome = "loading"
    BY <1>9 DEF FinishFile
  <2>2. CASE Len(stack) = 1
    <3>1. /\ config' = Complete(stack[1].config) /\ outcome' = "loaded"
          /\ UNCHANGED <<files, args>>
      BY <1>9, <2>2 DEF FinishFile, Top
    <3>2. ConfigInv(stack[1].config)
      BY <2>1, <2>2, TopFrame DEF FrameInv, Top
    <3>3. /\ ServerFromMain(config')
          /\ \A key \in OwnKeys \ Completed : config'[key] = MainConfig[key]
      BY <2>1, <3>1, <3>2, CompletedFromMain DEF MainInv
    <3> QED
      BY <3>1, <3>3 DEF MainInv, ServerFromMain, MainConfig, MainFile
  <2>3. CASE Len(stack) # 1
    <3>1. /\ 1 \in 1 .. Len(stack')
          /\ \A i \in 1 .. Len(stack') :
               \A key \in ConfigKeys \ {"proxies", "visitors"} :
                 stack'[i].config[key] = stack[i].config[key]
          /\ UNCHANGED <<files, args, outcome>>
      BY <1>9, <2>3, FinishIncluded, SeqIsFunction
    <3>2. \A key \in OwnKeys : stack'[1].config[key] = stack[1].config[key]
      BY <3>1 DEF OwnKeys
    <3> QED
      BY <2>1, <3>1, <3>2 DEF MainInv, MainConfig, MainFile
  <2> QED
    BY <2>2, <2>3
<1>10. CASE Start
  <2>1. /\ outcome = "loaded" /\ config' = ApplyOverrides(args, config)
        /\ outcome' \in {"running", "rejected"} /\ UNCHANGED <<files, args>>
    BY <1>10 DEF Start
  <2>2. /\ ConfigInv(config)
        /\ \A key \in ConfigKeys \ Overridden : config'[key] = config[key]
    BY <2>1, OverridesTyped DEF LoadInv
  <2>3. /\ config'.rename = IF args.rename = "file" THEN config.rename ELSE args.rename = "on"
        /\ config'.metadatasEnabled =
             IF args.metadatas = "file" THEN config.metadatasEnabled ELSE args.metadatas = "on"
        /\ config'.sshPrivateKey = IF args.hasKey THEN args.key ELSE config.sshPrivateKey
    BY <2>1, <2>2, KeysOfConfig DEF ApplyOverrides, ConfigInv, ConfigKeys
  <2>4. /\ config.rename = MainConfig.rename
        /\ config.metadatasEnabled = MainConfig.metadatasEnabled
        /\ config.sshPrivateKey = MainConfig.sshPrivateKey
    BY <2>1 DEF MainInv, OwnKeys, ConfigKeys, Completed
  <2>5. ServerFromMain(config')
    BY <2>1, <2>2 DEF MainInv, ServerFromMain, ConfigKeys, Overridden
  <2>6. \A key \in OwnKeys \ (Completed \cup Overridden) : config'[key] = MainConfig[key]
    BY <2>1, <2>2 DEF MainInv, OwnKeys
  <2>7. MainConfig' = MainConfig
    BY <2>1 DEF MainConfig, MainFile
  <2> QED
    BY <2>1, <2>3, <2>4, <2>5, <2>6, <2>7 DEF MainInv, ServerFromMain
<1>11. CASE UNCHANGED vars
  BY <1>11 DEF vars, MainInv, ServerFromMain, MainConfig, MainFile
<1> QED
  BY <1>1, <1>2, <1>3, <1>4, <1>5, <1>6, <1>7, <1>8, <1>9, <1>10, <1>11
     DEF Next, Step, Stays

(* The settings of the main file outlive the files it includes (MainInv).  *)
THEOREM MainInvariant == Spec => []MainInv
<1>1. Init => MainInv
  BY DEF Init, MainInv
<1>2. LoadInv /\ MainInv /\ [Next]_vars => MainInv'
  BY MainInvStep
<1> QED
  BY <1>1, <1>2, LoadInvariant, PTL DEF Spec

(* Whatever files the main file includes, and however these include each   *)
(* other, the settings of a running client are the main file's own         *)
(* (load_includes, complete, run_client).                                  *)
THEOREM RestIsTheMainFiles == Spec => []RestIsMainFiles
<1>1. MainInv => RestIsMainFiles
  <2>1. {"token", "user", "userDoublePrefix", "sshKnownHosts", "maxForwardConnections"}
          \subseteq OwnKeys \ (Completed \cup Overridden)
    BY DEF OwnKeys, ConfigKeys, Completed, Overridden
  <2> QED
    BY <2>1 DEF MainInv, RestIsMainFiles, Running, ServerFromMain
<1> QED
  BY MainInvariant, <1>1, PTL

-----------------------------------------------------------------------------
(* The switches of the command line *)

(* Just before the argument i there are k that want a value, and no more.  *)
WantingBefore(i, k) ==
  /\ \A j \in i - k .. i - 1 : WantsValue(j)
  /\ k = i - 1 \/ ~WantsValue(i - k - 1)

(* The last of the switches among the first n arguments has the say.       *)
LastDecides(n, on, off, setting) ==
  LET given == Switches({on, off}, n)
  IN  \/ given = {} /\ setting = "file"
      \/ \E i \in given :
           /\ \A j \in given : j <= i
           /\ setting = IF argv[i].name = on /\ FlagValue(argv[i]) = "on" THEN "on" ELSE "off"

(* The invariant: the parser wants a value after an odd number of          *)
(* arguments that ask for one, each of which is the value of the other.    *)
ArgumentInv ==
  /\ IsSeq(argv)
  /\ outcome \notin {"rejected", "printed"} =>
       /\ taken \in 0 .. Len(argv)
       /\ outcome # "start" => taken = Len(argv)
       /\ \E k \in 0 .. taken :
            /\ WantingBefore(taken + 1, k)
            /\ (args.expects # "" <=> k % 2 = 1)
       /\ LastDecides(taken, "--rename", "--no-rename", args.rename)
       /\ LastDecides(taken, "--metadatas", "--no-metadatas", args.metadatas)

LEMMA Parity ==
  ASSUME NEW k \in Nat
  PROVE  /\ 0 % 2 = 0
         /\ k % 2 = 0 <=> k % 2 # 1
         /\ k % 2 = 0 <=> (k + 1) % 2 = 1
BY Z3

LEMMA NoneBefore == WantingBefore(1, 0)
<1>1. 1 - 0 .. 1 - 1 = {} /\ 0 = 1 - 1
  OBVIOUS
<1> QED
  BY <1>1 DEF WantingBefore

LEMMA OneRunOfWants ==
  ASSUME NEW i \in Nat \ {0}, NEW k \in 0 .. i - 1, NEW m \in 0 .. i - 1,
         WantingBefore(i, k), WantingBefore(i, m)
  PROVE  k = m
<1>1. ASSUME NEW a \in 0 .. i - 1, NEW b \in 0 .. i - 1,
             WantingBefore(i, a), WantingBefore(i, b), a < b
      PROVE  FALSE
  <2>1. i - a - 1 \in i - b .. i - 1 /\ a # i - 1
    BY <1>1
  <2> QED
    BY <1>1, <2>1 DEF WantingBefore
<1> QED
  BY <1>1

LEMMA SwitchAfterRun ==
  ASSUME NEW i \in Nat \ {0}, NEW k \in 0 .. i - 1, WantingBefore(i, k)
  PROVE  IsSwitch(i) <=> k % 2 = 0
<1>1. IsSwitch(i) <=> \E m \in 0 .. i - 1 : m % 2 = 0 /\ WantingBefore(i, m)
  BY DEF IsSwitch, WantingBefore
<1>2. \A m \in 0 .. i - 1 : WantingBefore(i, m) => m = k
  BY OneRunOfWants
<1> QED
  BY <1>1, <1>2

(* An argument that wants a value makes the run before the next one longer,*)
(* any other ends it.                                                      *)
LEMMA RunGrows ==
  ASSUME NEW i \in Nat \ {0}, NEW k \in 0 .. i - 1, WantingBefore(i, k)
  PROVE  /\ WantsValue(i) => WantingBefore(i + 1, k + 1)
         /\ ~WantsValue(i) => WantingBefore(i + 1, 0)
<1>1. ASSUME WantsValue(i) PROVE WantingBefore(i + 1, k + 1)
  <2>1. ASSUME NEW j \in i + 1 - (k + 1) .. i + 1 - 1 PROVE WantsValue(j)
    <3>1. j = i \/ j \in i - k .. i - 1
      BY <2>1
    <3> QED
      BY <1>1, <3>1 DEF WantingBefore
  <2>2. k + 1 = i + 1 - 1 \/ ~WantsValue(i + 1 - (k + 1) - 1)
    <3>1. i + 1 - (k + 1) - 1 = i - k - 1
      OBVIOUS
    <3> QED
      BY <3>1 DEF WantingBefore
  <2> QED
    BY <2>1, <2>2 DEF WantingBefore
<1>2. ASSUME ~WantsValue(i) PROVE WantingBefore(i + 1, 0)
  <2>1. i + 1 - 0 .. i + 1 - 1 = {} /\ i + 1 - 0 - 1 = i
    OBVIOUS
  <2> QED
    BY <1>2, <2>1 DEF WantingBefore
<1> QED
  BY <1>1, <1>2

(* What one argument does to the parser of the arguments.                  *)
Sets(token, on, off, old, new) ==
  IF token.name \in {on, off}
  THEN new = IF token.name = on /\ FlagValue(token) = "on" THEN "on" ELSE "off"
  ELSE new = old

LEMMA TokenAsValue ==
  ASSUME ArgsInv, NEW token, args.expects # "", TakesToken(args, token).ended = "run"
  PROVE  LET b == TakesToken(args, token)
         IN  b.expects = "" /\ b.rename = args.rename /\ b.metadatas = args.metadatas
<1>1. TakesToken(args, token) = TakesValue(args, args.expects, Raw(token))
  BY DEF TakesToken
<1>2. CASE args.expects = "-c"
  BY <1>1, <1>2 DEF TakesValue, ArgsInv, DefaultArgs
<1>3. CASE args.expects = "--ssh-private-key"
  BY <1>1, <1>3 DEF TakesValue, ArgsInv, DefaultArgs
<1> QED
  BY <1>2, <1>3 DEF ArgsInv

LEMMA TokenAsSwitch ==
  ASSUME ArgsInv, NEW token, args.expects = "", TakesToken(args, token).ended = "run"
  PROVE  LET b == TakesToken(args, token)
         IN  /\ b.expects # "" <=>
                  (token.name \in {"-c", "--ssh-private-key"} /\ ~token.inline)
             /\ Sets(token, "--rename", "--no-rename", args.rename, b.rename)
             /\ Sets(token, "--metadatas", "--no-metadatas", args.metadatas, b.metadatas)
<1> DEFINE b == TakesToken(args, token)
<1> SUFFICES /\ b.expects # "" <=>
                  (token.name \in {"-c", "--ssh-private-key"} /\ ~token.inline)
             /\ Sets(token, "--rename", "--no-rename", args.rename, b.rename)
             /\ Sets(token, "--metadatas", "--no-metadatas", args.metadatas, b.metadatas)
  OBVIOUS
<1>1. /\ DOMAIN args = DOMAIN DefaultArgs
      /\ \A text : text # "run" => [args EXCEPT !.ended = text].ended # "run"
  BY DEF ArgsInv, DefaultArgs
<1>2. token.name \notin {"-v", "-h"}
  BY <1>1 DEF TakesToken
<1>3. CASE token.name \in {"-c", "--ssh-private-key"}
  <2>1. b = IF token.inline THEN TakesValue(args, token.name, token.v)
            ELSE [args EXCEPT !.expects = token.name]
    BY <1>3 DEF TakesToken
  <2>2. CASE token.inline
    <3>1. b.expects = "" /\ b.rename = args.rename /\ b.metadatas = args.metadatas
      BY <1>1, <1>3, <2>1, <2>2 DEF TakesValue, DefaultArgs
    <3> QED
      BY <1>3, <2>2, <3>1 DEF Sets
  <2>3. CASE ~token.inline
    <3>1. b.expects = token.name /\ b.rename = args.rename /\ b.metadatas = args.metadatas
      BY <1>1, <2>1, <2>3 DEF DefaultArgs
    <3> QED
      BY <1>3, <2>3, <3>1 DEF Sets
  <2> QED
    BY <2>2, <2>3
<1>4. ASSUME NEW value, SetsFlag(args, "rename", value).ended = "run"
      PROVE  LET d == SetsFlag(args, "rename", value)
             IN  value # "bad" /\ d.expects = "" /\ d.rename = value /\ d.metadatas = args.metadatas
  BY <1>1, <1>4 DEF SetsFlag, DefaultArgs
<1>5. ASSUME NEW value, SetsFlag(args, "metadatas", value).ended = "run"
      PROVE  LET d == SetsFlag(args, "metadatas", value)
             IN  value # "bad" /\ d.expects = "" /\ d.rename = args.rename /\ d.metadatas = value
  BY <1>1, <1>5 DEF SetsFlag, DefaultArgs
<1>6. FlagValue(token) \in {"on", "off", "bad"}
  BY DEF FlagValue
<1>7. CASE token.name = "--rename"
  <2>1. b = SetsFlag(args, "rename", FlagValue(token))
    BY <1>7 DEF TakesToken
  <2> QED
    BY <1>4, <1>6, <1>7, <2>1 DEF Sets
<1>8. CASE token.name = "--no-rename"
  <2>1. b = SetsFlag(args, "rename", "off")
    BY <1>8 DEF TakesToken
  <2>2. b.expects = "" /\ b.rename = "off" /\ b.metadatas = args.metadatas
    BY <1>4, <2>1
  <2> QED
    BY <1>8, <2>2 DEF Sets
<1>9. CASE token.name = "--metadatas"
  <2>1. b = SetsFlag(args, "metadatas", FlagValue(token))
    BY <1>9 DEF TakesToken
  <2> QED
    BY <1>5, <1>6, <1>9, <2>1 DEF Sets
<1>10. CASE token.name = "--no-metadatas"
  <2>1. b = SetsFlag(args, "metadatas", "off")
    BY <1>10 DEF TakesToken
  <2>2. b.expects = "" /\ b.rename = args.rename /\ b.metadatas = "off"
    BY <1>5, <2>1
  <2> QED
    BY <1>10, <2>2 DEF Sets
<1>11. CASE token.name \notin {"-v", "-h", "-c", "--ssh-private-key", "--rename",
                             "--no-rename", "--metadatas", "--no-metadatas"}
  <2>1. b = [args EXCEPT !.ended = "rejected"]
    BY <1>11 DEF TakesToken
  <2> QED
    BY <1>1, <2>1
<1> QED
  BY <1>2, <1>3, <1>7, <1>8, <1>9, <1>10, <1>11

(* The last switch has the say, also with one argument more.               *)
LEMMA DecidesOneMore ==
  ASSUME NEW on, NEW off, NEW n \in Nat,
         NEW old, NEW new, LastDecides(n, on, off, old),
         IF IsSwitch(n + 1) THEN Sets(argv[n + 1], on, off, old, new) ELSE new = old
  PROVE  LastDecides(n + 1, on, off, new)
<1> DEFINE given == Switches({on, off}, n)
           more == Switches({on, off}, n + 1)
           Says(i, setting) ==
             setting = IF argv[i].name = on /\ FlagValue(argv[i]) = "on" THEN "on" ELSE "off"
<1>1. given \subseteq 1 .. n
  BY DEF Switches
<1>2. more = given \cup {i \in {n + 1} : argv[i].name \in {on, off} /\ IsSwitch(i)}
  BY DEF Switches
<1>3. LastDecides(n, on, off, old) <=>
        \/ given = {} /\ old = "file"
        \/ \E i \in given : (\A j \in given : j <= i) /\ Says(i, old)
  BY DEF LastDecides
<1>4. LastDecides(n + 1, on, off, new) <=>
        \/ more = {} /\ new = "file"
        \/ \E i \in more : (\A j \in more : j <= i) /\ Says(i, new)
  BY DEF LastDecides
<1> HIDE DEF given, more
<1>5. CASE IsSwitch(n + 1) /\ argv[n + 1].name \in {on, off}
  <2>1. n + 1 \in more /\ \A j \in more : j <= n + 1
    BY <1>1, <1>2, <1>5
  <2>2. Says(n + 1, new)
    BY <1>5 DEF Sets
  <2> QED
    BY <1>4, <2>1, <2>2
<1>6. CASE ~(IsSwitch(n + 1) /\ argv[n + 1].name \in {on, off})
  <2>1. more = given
    BY <1>2, <1>6
  <2>2. new = old
    BY <1>6 DEF Sets
  <2> QED
    BY <1>3, <1>4, <2>1, <2>2
<1> QED
  BY <1>5, <1>6

LEMMA ArgumentInvInit == Init => ArgumentInv
<1> SUFFICES ASSUME Init PROVE ArgumentInv
  OBVIOUS
<1>1. IsSeq(argv)
  BY LaunchesAssumption DEF Init, IsSeq
<1>2. Len(argv) \in Nat /\ taken = 0
  BY <1>1, SeqIsFunction DEF Init
<1>3. WantingBefore(taken + 1, 0) /\ args.expects = ""
  <2>1. taken + 1 = 1
    BY <1>2
  <2>2. args.expects = ""
    BY DEF Init, DefaultArgs
  <2> QED
    BY <2>1, <2>2, NoneBefore
<1>4. \A names : Switches(names, taken) = {}
  BY <1>2 DEF Switches
<1>5. args.rename = "file" /\ args.metadatas = "file"
  BY DEF Init, DefaultArgs
<1>6. \E k \in 0 .. taken : WantingBefore(taken + 1, k) /\ (args.expects # "" <=> k % 2 = 1)
  <2>1. 0 \in 0 .. taken /\ 0 % 2 # 1
    BY <1>2, Parity
  <2> QED
    BY <1>3, <2>1
<1>7. /\ LastDecides(taken, "--rename", "--no-rename", args.rename)
      /\ LastDecides(taken, "--metadatas", "--no-metadatas", args.metadatas)
  BY <1>4, <1>5 DEF LastDecides
<1>8. outcome = "start" /\ taken \in 0 .. Len(argv)
  BY <1>2 DEF Init
<1> QED
  BY <1>1, <1>6, <1>7, <1>8 DEF ArgumentInv

LEMMA ArgumentsUnchanged ==
  ASSUME UNCHANGED argv
  PROVE  /\ \A i, k : WantingBefore(i, k)' <=> WantingBefore(i, k)
         /\ \A n, on, off, setting :
              LastDecides(n, on, off, setting)' <=> LastDecides(n, on, off, setting)
BY DEF WantingBefore, WantsValue, LastDecides, Switches, IsSwitch, FlagValue

LEMMA ArgumentInvTakes ==
  ASSUME LoadInv, ArgumentInv, TakeArgument
  PROVE  ArgumentInv'
<1> DEFINE n == taken + 1
           token == argv[n]
<1>1. /\ outcome = "start" /\ taken < Len(argv) /\ taken' = n
      /\ args' = TakesToken(args, token)
      /\ outcome' = IF args'.ended = "run" THEN outcome ELSE args'.ended
      /\ UNCHANGED argv
  BY DEF TakeArgument
<1>2. /\ taken \in 0 .. Len(argv) /\ Len(argv) \in Nat
      /\ LastDecides(taken, "--rename", "--no-rename", args.rename)
      /\ LastDecides(taken, "--metadatas", "--no-metadatas", args.metadatas)
  BY <1>1, SeqIsFunction DEF ArgumentInv
<1>3. PICK k \in 0 .. taken : WantingBefore(n, k) /\ (args.expects # "" <=> k % 2 = 1)
  BY <1>1 DEF ArgumentInv
<1>4. n \in Nat \ {0} /\ n \in 0 .. Len(argv) /\ k \in 0 .. n - 1 /\ k \in Nat
  BY <1>1, <1>2
<1>5. CASE args'.ended # "run"
  <2>1. outcome' \in {"rejected", "printed"}
    BY <1>1, <1>5, ArgsInvStep DEF LoadInv, ArgsInv, Next, Step
  <2> QED
    BY <1>1, <2>1 DEF ArgumentInv
<1>6. CASE args'.ended = "run"
  <2>1. IsSwitch(n) <=> args.expects = ""
    <3>1. IsSwitch(n) <=> k % 2 = 0
      BY <1>3, <1>4, SwitchAfterRun
    <3> QED
      BY <1>3, <1>4, <3>1, Parity
  <2>2. /\ WantsValue(n) => WantingBefore(n + 1, k + 1)
        /\ ~WantsValue(n) => WantingBefore(n + 1, 0)
    BY <1>3, <1>4, RunGrows
  <2>3. \E m \in 0 .. n : WantingBefore(n + 1, m) /\ (args'.expects # "" <=> m % 2 = 1)
    <3>1. ASSUME WantsValue(n), args'.expects # "" <=> (k + 1) % 2 = 1
          PROVE  \E m \in 0 .. n : WantingBefore(n + 1, m) /\ (args'.expects # "" <=> m % 2 = 1)
      <4>1. k + 1 \in 0 .. n
        BY <1>4
      <4> QED
        BY <2>2, <3>1, <4>1
    <3>2. ASSUME ~WantsValue(n), args'.expects = ""
          PROVE  \E m \in 0 .. n : WantingBefore(n + 1, m) /\ (args'.expects # "" <=> m % 2 = 1)
      <4>1. 0 \in 0 .. n /\ 0 % 2 # 1
        BY <1>4, Parity
      <4> QED
        BY <2>2, <3>2, <4>1
    <3>3. CASE args.expects = ""
      <4>1. args'.expects # "" <=> WantsValue(n)
        BY <1>1, <1>6, <3>3, TokenAsSwitch DEF LoadInv, WantsValue
      <4>2. (k + 1) % 2 = 1
        BY <1>3, <1>4, <3>3, Parity
      <4> QED
        BY <3>1, <3>2, <4>1, <4>2
    <3>4. CASE args.expects # ""
      <4>1. args'.expects = ""
        BY <1>1, <1>6, <3>4, TokenAsValue DEF LoadInv
      <4>2. (k + 1) % 2 # 1
        BY <1>3, <1>4, <3>4, Parity
      <4> QED
        BY <3>1, <3>2, <4>1, <4>2
    <3> QED
      BY <3>3, <3>4
  <2>4. /\ IF IsSwitch(n)
           THEN Sets(token, "--rename", "--no-rename", args.rename, args'.rename)
           ELSE args'.rename = args.rename
        /\ IF IsSwitch(n)
           THEN Sets(token, "--metadatas", "--no-metadatas", args.metadatas, args'.metadatas)
           ELSE args'.metadatas = args.metadatas
    BY <1>1, <1>6, <2>1, TokenAsSwitch, TokenAsValue DEF LoadInv
  <2>5. LastDecides(n, "--rename", "--no-rename", args'.rename)
    BY <1>2, <1>4, <2>4, DecidesOneMore
  <2>6. LastDecides(n, "--metadatas", "--no-metadatas", args'.metadatas)
    BY <1>2, <1>4, <2>4, DecidesOneMore
  <2>7. outcome' = "start"
    BY <1>1, <1>6
  <2> HIDE DEF n
  <2> QED
    BY <1>1, <1>4, <2>3, <2>5, <2>6, <2>7, ArgumentsUnchanged DEF ArgumentInv
<1> QED
  BY <1>5, <1>6

LEMMA ArgumentInvStep == LoadInv /\ ArgumentInv /\ [Next]_vars => ArgumentInv'
<1> SUFFICES ASSUME LoadInv, ArgumentInv, [Next]_vars PROVE ArgumentInv'
  OBVIOUS
<1>1. CASE TakeArgument
  BY <1>1, ArgumentInvTakes
<1>2. CASE ~TakeArgument
  <2>1. /\ UNCHANGED <<argv, taken, args>>
        /\ outcome' \notin {"rejected", "printed"} =>
             /\ outcome \notin {"rejected", "printed"}
             /\ outcome' # "start" /\ outcome = "start" => taken = Len(argv)
    BY <1>2 DEF Next, Step, Stays, vars, commandLine, ArgumentsEnd, LoadMainRejected, LoadMainIni,
                LoadMainToml, NextPattern, IncludeRejected, LoadIncluded, Overflow, FinishFile,
                Start, Reject
  <2> QED
    BY <2>1, ArgumentsUnchanged DEF ArgumentInv
<1> QED
  BY <1>1, <1>2

(* The loop of cli::parse knows which arguments are values (ArgumentInv).  *)
THEOREM ArgumentInvariant == Spec => []ArgumentInv
<1>1. LoadInv /\ ArgumentInv /\ [Next]_vars => ArgumentInv'
  BY ArgumentInvStep
<1> QED
  BY ArgumentInvInit, <1>1, LoadInvariant, PTL DEF Spec

(* For every command line, however long: the switches win over the main    *)
(* file, the last one of each kind, and the value of an option is none of  *)
(* them (cli.rs, run_client).                                              *)
THEOREM TheLastSwitchDecides == Spec => []SwitchesOverride
<1>1. MainInv /\ ArgumentInv => SwitchesOverride
  <2> SUFFICES ASSUME MainInv, ArgumentInv, Running PROVE SwitchesOverride
    BY DEF SwitchesOverride
  <2>1. /\ taken = Len(argv)
        /\ LastDecides(taken, "--rename", "--no-rename", args.rename)
        /\ LastDecides(taken, "--metadatas", "--no-metadatas", args.metadatas)
    BY DEF ArgumentInv, Running
  <2>2. Decides("--rename", "--no-rename", config.rename, MainConfig.rename)
    BY <2>1 DEF LastDecides, Decides, MainInv, Running
  <2>3. Decides("--metadatas", "--no-metadatas",
                config.metadatasEnabled, MainConfig.metadatasEnabled)
    BY <2>1 DEF LastDecides, Decides, MainInv, Running
  <2> QED
    BY <2>2, <2>3 DEF SwitchesOverride
<1> QED
  BY MainInvariant, ArgumentInvariant, <1>1, PTL

-----------------------------------------------------------------------------
(* What is sent for a proxy *)

(* The words of a payload and the items of a list are made of these.       *)
WordPieces == Without(Pieces, Space)
ItemPieces == Without(WordPieces, Comma)

LEMMA TextWithout ==
  ASSUME NEW P, NEW text \in Seq(P), NEW e, ~Contains(text, e)
  PROVE  text \in Seq(Without(P, e))
<1>1. Len(text) \in Nat /\ \A i \in 1 .. Len(text) : text[i] \in Without(P, e)
  BY DEF Contains, Without
<1> QED
  BY <1>1

LEMMA TextsWithout ==
  ASSUME NEW P, NEW texts \in Texts(P), NEW e, \A i \in DOMAIN texts : ~Contains(texts[i], e)
  PROVE  texts \in Texts(Without(P, e))
<1>1. PICK S : S = Seq(Without(P, e))
  OBVIOUS
<1>2. Len(texts) \in Nat /\ \A i \in 1 .. Len(texts) : texts[i] \in Seq(P) /\ i \in DOMAIN texts
  BY DEF Texts
<1>3. \A i \in 1 .. Len(texts) : texts[i] \in S
  BY <1>1, <1>2, TextWithout
<1>4. texts \in Seq(S)
  BY <1>2, <1>3 DEF Texts
<1> QED
  BY <1>1, <1>4 DEF Texts

LEMMA ItemsWithout ==
  ASSUME NEW P, NEW texts \in Texts(P), NEW e,
         \A i \in DOMAIN texts : texts[i] # NoText /\ ~Contains(texts[i], e)
  PROVE  texts \in Seq(Solid(Without(P, e)))
<1>1. PICK S : S = Solid(Without(P, e))
  OBVIOUS
<1>2. Len(texts) \in Nat /\ \A i \in 1 .. Len(texts) : texts[i] \in Seq(P) /\ i \in DOMAIN texts
  BY DEF Texts
<1>3. \A i \in 1 .. Len(texts) : texts[i] \in S
  BY <1>1, <1>2, TextWithout DEF Solid, NoText
<1>4. texts \in Seq(S)
  BY <1>2, <1>3 DEF Texts
<1> QED
  BY <1>1, <1>4

LEMMA PiecesOfWords ==
  /\ "=" \in WordPieces /\ Comma \in WordPieces /\ FlagNames \subseteq WordPieces
  /\ ProxyTypes \subseteq WordPieces
  /\ \A number \in 0 .. MaxPort : ToString(number) \in WordPieces
  /\ Space \in Pieces /\ ExPieces \subseteq Pieces /\ ExPieces \subseteq WordPieces
<1>1. \A flag \in FlagNames : flag # Space
  <2>1. ASSUME NEW i \in 1 .. 14 PROVE Flags[i] # Space
    <3>1. PICK f : f = Flags
      OBVIOUS
    <3>2. /\ f[1] # Space /\ f[2] # Space
          /\ f[3] # Space /\ f[4] # Space
          /\ f[5] # Space /\ f[6] # Space
          /\ f[7] # Space /\ f[8] # Space
          /\ f[9] # Space /\ f[10] # Space
          /\ f[11] # Space /\ f[12] # Space
          /\ f[13] # Space /\ f[14] # Space
      BY <3>1 DEF Flags, Space
    <3> QED
      BY <3>1, <3>2, NumbersTo14, Zenon
  <2> QED
    BY <2>1 DEF FlagNames
<1>2. FlagNames \subseteq WordPieces
  BY <1>1 DEF WordPieces, Without, Pieces
<1>3. ExPieces \subseteq Pieces /\ ExPieces \subseteq WordPieces
  BY ExPiecesSeparateNothing DEF WordPieces, Without, Pieces
<1>4. \A number \in 0 .. MaxPort : ToString(number) \in WordPieces
  BY NumbersAssumption DEF WordPieces, Without, Pieces
<1>5. ProxyTypes \subseteq WordPieces
  <2>1. \A type \in ProxyTypes : type # Space
    BY DEF ProxyTypes, Space
  <2> QED
    BY <2>1 DEF WordPieces, Without, Pieces
<1>6. "=" \in WordPieces /\ Comma \in WordPieces /\ Space \in Pieces
  BY DEF WordPieces, Without, Pieces, Space, Comma
<1> QED
  BY <1>2, <1>3, <1>4, <1>5, <1>6

(* The fields of a proxy by name.                                          *)
LEMMA FieldTypes ==
  ASSUME NEW p, ProxyInv(p)
  PROVE  /\ p.name \in Seq(Pieces) /\ p.localIP \in Seq(Pieces) /\ p.subdomain \in Seq(Pieces)
         /\ p.httpUser \in Seq(Pieces) /\ p.httpPassword \in Seq(Pieces)
         /\ p.hostHeaderRewrite \in Seq(Pieces) /\ p.secretKey \in Seq(Pieces)
         /\ p.multiplexer \in Seq(Pieces)
         /\ p.customDomains \in Texts(Pieces) /\ p.locations \in Texts(Pieces)
         /\ p.allowUsers \in Texts(Pieces)
         /\ p.localPort \in 0 .. MaxPort /\ p.remotePort \in 0 .. MaxPort
         /\ p.type \in ProxyTypes
         /\ \A key \in DOMAIN p.metadatas : key \in Pieces /\ p.metadatas[key] \in Seq(Pieces)
<1>1. \A key \in DOMAIN p.metadatas : key \in Pieces
  <2>1. ToSet(MetaKeys) \subseteq STRING
    BY MetaKeysAssumption DEF ToSet
  <2> QED
    BY <2>1 DEF ProxyInv, TextsInv, Pieces
<1>2. \A field \in TextFields : p[field] \in Seq(Pieces)
  BY DEF ProxyInv, TextsInv
<1>3. \A field \in ListFields : p[field] \in Texts(Pieces)
  BY DEF ProxyInv, TextsInv
<1>4. \A field \in PortFields : p[field] \in 0 .. MaxPort
  BY DEF ProxyInv
<1>5. /\ p["name"] \in Seq(Pieces) /\ p["localIP"] \in Seq(Pieces)
      /\ p["subdomain"] \in Seq(Pieces) /\ p["httpUser"] \in Seq(Pieces)
      /\ p["httpPassword"] \in Seq(Pieces) /\ p["hostHeaderRewrite"] \in Seq(Pieces)
      /\ p["secretKey"] \in Seq(Pieces) /\ p["multiplexer"] \in Seq(Pieces)
  BY <1>2 DEF TextFields
<1>6. /\ p["customDomains"] \in Texts(Pieces) /\ p["locations"] \in Texts(Pieces)
      /\ p["allowUsers"] \in Texts(Pieces)
  BY <1>3 DEF ListFields
<1>7. p["localPort"] \in 0 .. MaxPort /\ p["remotePort"] \in 0 .. MaxPort
  BY <1>4 DEF PortFields
<1> QED
  BY <1>1, <1>5, <1>6, <1>7 DEF ProxyInv, TextsInv

(* Any proxy, with blanks in its texts or not, is sent in these pieces.    *)
LEMMA ProxyIsSent ==
  ASSUME NEW p, ProxyInv(p), NEW c, ConfigInv(c)
  PROVE  SentPieces(p, c, Pieces)
<1>1. c.user \in Seq(Pieces) /\ c.token \in Seq(Pieces)
  BY DEF ConfigInv, TextKeys
<1>2. WordPieces \subseteq Pieces
  BY WithoutIsSubset DEF WordPieces
<1>3. p.type \in Pieces /\ ToString(p.remotePort) \in Pieces
  BY <1>2, FieldTypes, PiecesOfWords
<1> QED
  BY <1>1, <1>3, FieldTypes DEF SentPieces

(* The values of a plain proxy are words, and so are the items of its      *)
(* lists, which are not empty.                                             *)
LEMMA PlainIsSent ==
  ASSUME NEW p, ProxyInv(p), NEW c, ConfigInv(c), Plain(p, c)
  PROVE  PlainlySent(p, c, WordPieces)
<1>1. c.user \in Seq(Pieces) /\ c.token \in Seq(Pieces)
  BY DEF ConfigInv, TextKeys
<1>2. /\ \A text \in {p.name, c.token, c.user, p.httpPassword, p.secretKey, p.hostHeaderRewrite} :
           ~Contains(text, Space)
      /\ \A text \in ToSet(p.customDomains) : ~Contains(text, Space)
      /\ \A key \in DOMAIN p.metadatas :
           ~Contains(p.metadatas[key], Space) /\ ~Contains(<<key>>, Space)
  BY DEF Plain, WarnsUnrepresentable
<1>3. /\ \A text \in {p.subdomain, p.httpUser, p.multiplexer} : ~Contains(text, Space)
      /\ \A text \in ToSet(p.locations) \cup ToSet(p.allowUsers) : ~Contains(text, Space)
  BY DEF Plain, UnwatchedHaveNoSpace
<1>4. /\ p.name \in Seq(WordPieces) /\ p.subdomain \in Seq(WordPieces)
      /\ p.httpUser \in Seq(WordPieces) /\ p.httpPassword \in Seq(WordPieces)
      /\ p.hostHeaderRewrite \in Seq(WordPieces) /\ p.secretKey \in Seq(WordPieces)
      /\ p.multiplexer \in Seq(WordPieces)
      /\ c.user \in Seq(WordPieces) /\ c.token \in Seq(WordPieces)
  BY <1>1, <1>2, <1>3, FieldTypes, TextWithout DEF WordPieces
<1>5. \A key \in DOMAIN p.metadatas : key \in WordPieces /\ p.metadatas[key] \in Seq(WordPieces)
  <2>1. ASSUME NEW key \in DOMAIN p.metadatas PROVE key # Space
    <3>1. Len(<<key>>) = 1 /\ <<key>>[1] = key /\ 1 \in 1 .. 1
      OBVIOUS
    <3>2. ~Contains(<<key>>, Space)
      BY <1>2
    <3> QED
      BY <3>1, <3>2 DEF Contains
  <2> QED
    BY <1>2, <2>1, FieldTypes, TextWithout DEF WordPieces, Without
<1>6. ASSUME NEW field \in ListFields
      PROVE  p[field] \in Texts(WordPieces) /\ p[field] \in Seq(Solid(ItemPieces))
  <2>1. PICK texts \in Texts(Pieces) : texts = p[field]
    BY DEF ProxyInv, TextsInv
  <2>2. \A i \in DOMAIN texts : texts[i] \in ToSet(texts)
    BY DEF ToSet
  <2>3. \A text \in ToSet(texts) : ~Contains(text, Space)
    BY <1>2, <1>3, <2>1 DEF ListFields
  <2>4. texts \in Texts(WordPieces)
    BY <2>2, <2>3, TextsWithout DEF WordPieces
  <2>5. \A i \in DOMAIN texts : texts[i] # NoText /\ ~Contains(texts[i], Comma)
    BY <2>1 DEF Plain, ItemsAreWhole
  <2>6. texts \in Seq(Solid(ItemPieces))
    BY <2>4, <2>5, ItemsWithout DEF ItemPieces
  <2> QED
    BY <2>1, <2>4, <2>6
<1>7. /\ p["customDomains"] \in Texts(WordPieces) /\ p["customDomains"] \in Seq(Solid(ItemPieces))
      /\ p["locations"] \in Texts(WordPieces) /\ p["locations"] \in Seq(Solid(ItemPieces))
      /\ p["allowUsers"] \in Texts(WordPieces) /\ p["allowUsers"] \in Seq(Solid(ItemPieces))
  BY <1>6 DEF ListFields
<1>8. p.type \in WordPieces /\ ToString(p.remotePort) \in WordPieces
  BY FieldTypes, PiecesOfWords
<1>9. SentPieces(p, c, WordPieces)
  BY <1>4, <1>5, <1>7, <1>8 DEF SentPieces
<1> QED
  BY <1>7, <1>9, PiecesOfWords DEF PlainlySent, ItemPieces

-----------------------------------------------------------------------------
(* What frps reads of it *)

LEMMA FlagReads ==
  ASSUME NEW p, ProxyInv(p), NEW c, ConfigInv(c), Plain(p, c), NEW flag \in FlagNames
  PROVE  FlagValueIn(GenExtra(p, c), flag) = Values(p, c)[flag]
<1>1. PlainlySent(p, c, WordPieces)
  BY PlainIsSent
<1>2. PICK type \in WordPieces : type = p.type
  BY FieldTypes, PiecesOfWords
<1>3. /\ Values(p, c) \in [FlagNames -> Seq(WordPieces)]
      /\ GenExtra(p, c) = Payload(p.type, Given(Values(p, c)))
  BY <1>1, PiecesOfWords, PlainlySentArguments DEF WordPieces
<1>4. PICK value \in [FlagNames -> Seq(WordPieces)] : value = Values(p, c)
  BY <1>3
<1>5. FlagValueIn(Payload(type, Given(value)), flag) = value[flag]
  BY PiecesOfWords, GivenIsRead DEF WordPieces
<1>6. GenExtra(p, c) = Payload(type, Given(value))
  BY <1>2, <1>3, <1>4
<1> QED
  BY <1>4, <1>5, <1>6

LEMMA PlainReadsBack ==
  ASSUME NEW p, ProxyInv(p), NEW c, ConfigInv(c), Plain(p, c)
  PROVE  ReadsBack(p, c)
<1>1. PICK payload : payload = GenExtra(p, c)
  OBVIOUS
<1>2. PlainlySent(p, c, WordPieces)
  BY PlainIsSent
<1>3. PICK value : value = Values(p, c)
  OBVIOUS
<1>4. \A flag \in FlagNames : FlagValueIn(payload, flag) = value[flag]
  BY <1>1, <1>3, FlagReads
<1>5. FrpsReads(payload).type = <<p.type>>
  <2>1. PICK type \in WordPieces : type = p.type
    BY FieldTypes, PiecesOfWords
  <2>2. /\ Values(p, c) \in [FlagNames -> Seq(WordPieces)]
        /\ GenExtra(p, c) = Payload(p.type, Given(Values(p, c)))
    BY <1>2, PiecesOfWords, PlainlySentArguments DEF WordPieces
  <2>3. FrpsReads(Payload(type, Given(value))).type = <<type>>
    BY <1>3, <2>2, PiecesOfWords, TypeIsRead DEF WordPieces
  <2> QED
    BY <1>1, <1>3, <2>1, <2>2, <2>3
<1>6. /\ value["--proxy-name"] = p.name /\ value["--sd"] = p.subdomain
      /\ value["--http-user"] = p.httpUser /\ value["--http-pwd"] = p.httpPassword
      /\ value["--host-header-rewrite"] = p.hostHeaderRewrite
      /\ value["--sk"] = p.secretKey /\ value["--mux"] = p.multiplexer
      /\ value["--user"] = c.user /\ value["--token"] = c.token
  BY <1>3, ValuesByName
<1>7. /\ FlagValueIn(payload, "--proxy-name") = p.name
      /\ FlagValueIn(payload, "--sd") = p.subdomain
      /\ FlagValueIn(payload, "--http-user") = p.httpUser
      /\ FlagValueIn(payload, "--http-pwd") = p.httpPassword
      /\ FlagValueIn(payload, "--host-header-rewrite") = p.hostHeaderRewrite
      /\ FlagValueIn(payload, "--sk") = p.secretKey
      /\ FlagValueIn(payload, "--mux") = p.multiplexer
      /\ FlagValueIn(payload, "--user") = c.user
      /\ FlagValueIn(payload, "--token") = c.token
  BY <1>4, <1>6, FlagsByName
<1>8. FlagValueIn(payload, "--remote-port") =
        IF p.remotePort = 0 THEN NoText ELSE <<ToString(p.remotePort)>>
  <2>1. p.type # "tcp" => p.remotePort = 0
    <3>1. ASSUME p.type # "tcp" PROVE "remotePort" \in ProxyFields \ OwnFields(p.type)
      <4>1. "remotePort" \in ProxyFields
        BY DEF ProxyFields, PortFields
      <4>2. "remotePort" \notin FieldsOfType(p.type)
        BY <3>1, FieldTypes DEF FieldsOfType, ProxyTypes
      <4> QED
        BY <4>1, <4>2 DEF OwnFields
    <3>2. Unset("remotePort") = 0
      BY DEF Unset, PortFields
    <3> QED
      BY <3>1, <3>2 DEF ProxyInv
  <2>2. value["--remote-port"] =
          IF p.type = "tcp" /\ p.remotePort # 0 THEN <<ToString(p.remotePort)>> ELSE NoText
    BY <1>3, ValuesByName
  <2> QED
    BY <1>4, <2>1, <2>2, FlagsByName
<1>9. /\ ListIn(payload, "--custom-domain") = p.customDomains
      /\ ListIn(payload, "--locations") = p.locations
      /\ ListIn(payload, "--allow-users") = p.allowUsers
  <2>1. \A flag \in FlagNames : ListIn(payload, flag) = ReadList(value[flag])
    BY <1>4 DEF ListIn, ReadList
  <2>2. /\ value["--custom-domain"] = JoinWith(p.customDomains, Comma)
        /\ value["--locations"] = JoinWith(p.locations, Comma)
        /\ value["--allow-users"] = JoinWith(p.allowUsers, Comma)
    BY <1>3, ValuesByName
  <2>3. /\ ReadList(JoinWith(p.customDomains, Comma)) = p.customDomains
        /\ ReadList(JoinWith(p.locations, Comma)) = p.locations
        /\ ReadList(JoinWith(p.allowUsers, Comma)) = p.allowUsers
    BY <1>2, ListIsRead DEF PlainlySent
  <2> QED
    BY <2>1, <2>2, <2>3, FlagsByName
<1>10. ASSUME NoCommaInMetadatas(p)
       PROVE  ToSet(ListIn(payload, "--metadatas")) =
                {<<key, "=">> \o p.metadatas[key] :
                   key \in IF c.metadatasEnabled THEN DOMAIN p.metadatas ELSE {}}
  <2>1. ListIn(payload, "--metadatas") = ReadList(value["--metadatas"])
    BY <1>4, FlagsByName DEF ListIn, ReadList
  <2>2. value["--metadatas"] = IF c.metadatasEnabled THEN MetaText(p.metadatas) ELSE NoText
    BY <1>3, ValuesByName
  <2>3. CASE c.metadatasEnabled
    <3>1. PICK metadatas : metadatas = p.metadatas
      OBVIOUS
    <3>2. \A key \in DOMAIN metadatas : key \in ItemPieces /\ metadatas[key] \in Seq(ItemPieces)
      <4>1. \A key \in DOMAIN metadatas : key \in WordPieces /\ metadatas[key] \in Seq(WordPieces)
        BY <1>2, <3>1 DEF PlainlySent, SentPieces
      <4>2. \A key \in DOMAIN metadatas : key # Comma /\ ~Contains(metadatas[key], Comma)
        BY <1>10, <3>1 DEF NoCommaInMetadatas
      <4>3. \A key \in DOMAIN metadatas : key \in ItemPieces
        BY <4>1, <4>2 DEF ItemPieces, Without
      <4> QED
        BY <4>1, <4>2, <4>3, TextWithout DEF ItemPieces
    <3>3. DOMAIN metadatas \subseteq ToSet(MetaKeys)
      BY <3>1 DEF ProxyInv, TextsInv
    <3>4. ToSet(ReadList(MetaText(metadatas))) =
            {<<key, "=">> \o metadatas[key] : key \in DOMAIN metadatas}
      BY <3>2, <3>3, PiecesOfWords, MetadatasAreRead DEF ItemPieces
    <3> QED
      BY <2>1, <2>2, <2>3, <3>1, <3>4
  <2>4. CASE ~c.metadatasEnabled
    <3>1. ListIn(payload, "--metadatas") = << >>
      BY <2>1, <2>2, <2>4 DEF ReadList
    <3> QED
      BY <2>4, <3>1 DEF ToSet
  <2> QED
    BY <2>3, <2>4
<1> QED
  BY <1>1, <1>5, <1>7, <1>8, <1>9, <1>10 DEF ReadsBack

(* frps reads back what was configured, whatever the files say: every      *)
(* proxy of a running client is the one that the words of its payload      *)
(* stand for, when the client had nothing to warn of (gen_extra,           *)
(* warn_unrepresentable).                                                  *)
THEOREM FrpsReadsTheProxy == Spec => []PayloadReadsBack
<1>1. LoadInv => PayloadReadsBack
  <2> SUFFICES ASSUME LoadInv, NEW p \in RunningProxies, Plain(p, config)
               PROVE  ReadsBack(p, config)
    BY DEF PayloadReadsBack
  <2>1. ProxyInv(p) /\ ConfigInv(config)
    BY DEF RunningProxies, LoadInv, ConfigInv
  <2> QED
    BY <2>1, PlainReadsBack
<1> QED
  BY LoadInvariant, <1>1, PTL

-----------------------------------------------------------------------------
(* The candidates of a proxy *)

(* Only a validated configuration runs.                                    *)
ValidInv == Running => Valid(config)

LEMMA ValidInvariant == Spec => []ValidInv
<1>1. Init => ValidInv
  BY DEF Init, ValidInv, Running
<1>2. LoadInv /\ ValidInv /\ [Next]_vars => ValidInv'
  <2> SUFFICES ASSUME LoadInv, ValidInv, [Next]_vars, outcome' = "running" PROVE Valid(config)'
    BY DEF ValidInv, Running
  <2>1. CASE TakeArgument
    <3>1. args'.ended \in {"run", "rejected", "printed"}
      BY ArgsInvStep DEF LoadInv, ArgsInv
    <3> QED
      BY <2>1, <3>1 DEF TakeArgument
  <2>2. CASE Start
    BY <2>2, Zenon DEF Start, Valid
  <2>3. CASE UNCHANGED vars \/ Stays
    BY <2>3, Zenon DEF Stays, vars, ValidInv, Running, Valid
  <2>4. CASE ~TakeArgument /\ ~Start /\ ~Stays /\ ~UNCHANGED vars
    BY <2>4 DEF Next, Step, ArgumentsEnd, LoadMainRejected, LoadMainIni, LoadMainToml,
                NextPattern, IncludeRejected, LoadIncluded, Overflow, FinishFile, Reject
  <2> QED
    BY <2>1, <2>2, <2>3, <2>4
<1> QED
  BY <1>1, <1>2, LoadInvariant, PTL DEF Spec

LEMMA RenamedProxyIsRenamed ==
  ASSUME NEW p, ProxyInv(p), NEW prefix
  PROVE  IsRenamed(RenamedProxy(p, prefix), p, prefix)
<1>1. PICK domains : domains = [i \in DOMAIN p.customDomains |-> <<prefix>> \o p.customDomains[i]]
  OBVIOUS
<1>2. RenamedProxy(p, prefix) =
        [[[p EXCEPT !.name = <<prefix>> \o p.name]
             EXCEPT !.subdomain = IF p.subdomain = NoText THEN p.subdomain
                                  ELSE <<prefix>> \o p.subdomain]
             EXCEPT !.customDomains = domains]
  BY <1>1 DEF RenamedProxy
<1>3. DOMAIN p = ProxyFields
  BY DEF ProxyInv
<1>4. PICK name, subdomain :
        /\ name = <<prefix>> \o p.name
        /\ subdomain = IF p.subdomain = NoText THEN p.subdomain ELSE <<prefix>> \o p.subdomain
  OBVIOUS
<1>5. PICK r : r = RenamedProxy(p, prefix)
  OBVIOUS
<1>6. r = [[[p EXCEPT !.name = name] EXCEPT !.subdomain = subdomain]
             EXCEPT !.customDomains = domains]
  BY <1>2, <1>4, <1>5
<1>7. /\ r.name = name /\ r.subdomain = subdomain /\ r.customDomains = domains
      /\ \A field \in ProxyFields \ {"name", "subdomain", "customDomains"} : r[field] = p[field]
  BY <1>3, <1>6 DEF ProxyFields, TextFields, ListFields
<1>8. r.type = p.type /\ r.remotePort = p.remotePort /\ r.locations = p.locations
      /\ r.httpUser = p.httpUser /\ r.httpPassword = p.httpPassword
      /\ r.hostHeaderRewrite = p.hostHeaderRewrite /\ r.secretKey = p.secretKey
      /\ r.allowUsers = p.allowUsers /\ r.multiplexer = p.multiplexer
      /\ r.metadatas = p.metadatas
  BY <1>7 DEF ProxyFields, TextFields, ListFields, PortFields
<1> QED
  BY <1>1, <1>4, <1>5, <1>7, <1>8 DEF IsRenamed, UnderPrefix

LEMMA PlainIsRenamed ==
  ASSUME NEW p, ProxyInv(p), NEW c, ConfigInv(c), Plain(p, c), ValidProxy(p),
         ~HasExName(p), NoValueIsNamingFlag(p, c), NEW prefix \in ExPieces
  PROVE  ApplyRenamePrefix(GenExtra(p, c), prefix) = GenExtra(RenamedProxy(p, prefix), c)
<1>1. PlainlySent(p, c, WordPieces)
  BY PlainIsSent
<1>2. PICK r : r = RenamedProxy(p, prefix) /\ IsRenamed(r, p, prefix)
  BY RenamedProxyIsRenamed
<1>3. p.name # NoText
  <2>1. Trim(NoText) = NoText
    BY DEF Trim, NoText
  <2> QED
    BY <2>1 DEF ValidProxy
<1>4. \A text \in {p.name, p.subdomain} \cup ToSet(p.customDomains) : Stripped(text)
  BY DEF HasExName, Stripped, NoText
<1>5. \A i \in DOMAIN p.customDomains : p.customDomains[i] \in ToSet(p.customDomains)
  BY DEF ToSet
<1>6. Naming = {<<flag>> : flag \in NamingFlags}
  BY DEF Naming, NameFlags, DomainFlag, NamingFlags
<1>7. <<p.type>> \notin Naming
  <2>1. p.type \notin NamingFlags
    BY FieldTypes DEF ProxyTypes, NamingFlags
  <2> QED
    BY <1>6, <2>1
<1>8. \A i \in DOMAIN Arguments(p, c) :
        <<Arguments(p, c)[i][1]>> \notin Naming => Arguments(p, c)[i][2] \notin Naming
  <2>1. \A flag : <<flag>> \notin Naming => flag \notin NamingFlags
    BY <1>6
  <2> QED
    BY <1>6, <2>1 DEF NoValueIsNamingFlag
<1>9. Stripped(p.name) /\ Stripped(p.subdomain)
      /\ \A i \in DOMAIN p.customDomains : Stripped(p.customDomains[i])
  BY <1>4, <1>5
<1>10. NoPrefixes(p) /\ OthersNameNothing(p, c)
  BY <1>7, <1>8, <1>9 DEF NoPrefixes, OthersNameNothing
<1>11. ApplyRenamePrefix(GenExtra(p, c), prefix) = GenExtra(r, c)
  <2>1. PICK Q : Q = WordPieces /\ Q = Without(Pieces, Space)
    BY DEF WordPieces
  <2>2. Space \in Pieces /\ ExPieces \subseteq Pieces
    BY PiecesOfWords
  <2>3. PlainlySent(p, c, Q)
    BY <1>1, <2>1
  <2> QED
    BY <1>2, <1>3, <1>10, <2>1, <2>2, <2>3, CandidateOfProxy
<1> QED
  BY <1>2, <1>11

(* The candidate that apply_rename_prefix rewrites from the text of a      *)
(* command is the command of the renamed proxy, whatever the files say, as *)
(* long as no other value looks like one of the flags it looks for; and it *)
(* is the same whatever candidates came before it (rename.rs).             *)
THEOREM TheCandidateIsTheRenamedProxy == Spec => []CandidateIsRenamedProxy
<1>1. LoadInv /\ ValidInv => CandidateIsRenamedProxy
  <2> SUFFICES ASSUME LoadInv, ValidInv, NEW p \in RunningProxies, NEW n \in DOMAIN ExPrefixes
               PROVE  /\ Plain(p, config) /\ ~HasExName(p) /\ NoValueIsNamingFlag(p, config) =>
                           ApplyRenamePrefix(GenExtra(p, config), ExPrefixes[n])
                             = GenExtra(RenamedProxy(p, ExPrefixes[n]), config)
                      /\ \A m \in DOMAIN ExPrefixes :
                           ApplyRenamePrefix(ApplyRenamePrefix(GenExtra(p, config), ExPrefixes[n]),
                                             ExPrefixes[m])
                             = ApplyRenamePrefix(GenExtra(p, config), ExPrefixes[m])
    BY Zenon DEF CandidateIsRenamedProxy
  <2>1. ProxyInv(p) /\ ConfigInv(config)
    BY DEF RunningProxies, LoadInv, ConfigInv
  <2>2. ValidProxy(p)
    BY DEF RunningProxies, ValidInv, Running, Valid
  <2>3. \A m \in DOMAIN ExPrefixes : ExPrefixes[m] \in ExPieces
    BY ExPiecesAssumption DEF ToSet
  <2>4. ASSUME Plain(p, config) /\ ~HasExName(p) /\ NoValueIsNamingFlag(p, config)
        PROVE  ApplyRenamePrefix(GenExtra(p, config), ExPrefixes[n])
                 = GenExtra(RenamedProxy(p, ExPrefixes[n]), config)
    <3>1. PICK prefix \in ExPieces : prefix = ExPrefixes[n]
      BY <2>3
    <3>2. ApplyRenamePrefix(GenExtra(p, config), prefix) = GenExtra(RenamedProxy(p, prefix), config)
      BY <2>1, <2>2, <2>4, PlainIsRenamed
    <3> QED
      BY <3>1, <3>2
  <2>5. ASSUME NEW m \in DOMAIN ExPrefixes
        PROVE  ApplyRenamePrefix(ApplyRenamePrefix(GenExtra(p, config), ExPrefixes[n]),
                                 ExPrefixes[m])
                 = ApplyRenamePrefix(GenExtra(p, config), ExPrefixes[m])
    <3>1. PICK payload : payload = GenExtra(p, config)
      OBVIOUS
    <3>2. payload \in Seq(Pieces)
      <4>1. SentPieces(p, config, Pieces)
        BY <2>1, ProxyIsSent
      <4>2. "=" \in Pieces /\ Comma \in Pieces /\ Space \in Pieces /\ FlagNames \subseteq Pieces
        BY DEF Pieces
      <4> QED
        BY <3>1, <4>1, <4>2, GenExtraType
    <3>3. PICK a \in ExPieces, b \in ExPieces : a = ExPrefixes[n] /\ b = ExPrefixes[m]
      BY <2>3
    <3>4. ApplyRenamePrefix(ApplyRenamePrefix(payload, a), b) = ApplyRenamePrefix(payload, b)
      BY <3>2, PrefixesNeverStack
    <3> QED
      BY <3>1, <3>3, <3>4
  <2> QED
    BY <2>4, <2>5
<1> QED
  BY LoadInvariant, ValidInvariant, <1>1, PTL

-----------------------------------------------------------------------------
(* The two front ends *)

LEMMA PiecesOfTheCommand ==
  ASSUME NEW p, ProxyInv(p), NEW c, ConfigInv(c), PlainCommand(p, c)
  PROVE  CommandPieces(p, c, WordPieces)
<1>1. OptionPieces \subseteq WordPieces
  <2>1. \A piece \in OptionPieces : piece # Space
    BY DEF OptionPieces, Space
  <2>2. OptionPieces \subseteq Pieces
    BY DEF OptionPieces, Pieces
  <2> QED
    BY <2>1, <2>2 DEF WordPieces, Without
<1>2. ToString(c.serverPort) \in WordPieces /\ ToString(p.localPort) \in WordPieces
  BY FieldTypes, PiecesOfWords DEF ConfigInv
<1>3. c.serverAddr \in Seq(Pieces) /\ c.sshKnownHosts \in Seq(Pieces)
  <2>1. c["serverAddr"] \in Seq(Pieces) /\ c["sshKnownHosts"] \in Seq(Pieces)
    BY DEF ConfigInv, TextKeys
  <2> QED
    BY <2>1
<1>4. ~Contains(c.serverAddr, Space) /\ ~Contains(c.sshKnownHosts, Space)
      /\ ~Contains(p.localIP, Space)
  BY DEF PlainCommand
<1>5. /\ c.serverAddr \in Seq(WordPieces) /\ c.sshKnownHosts \in Seq(WordPieces)
      /\ p.localIP \in Seq(WordPieces)
  BY <1>3, <1>4, FieldTypes, TextWithout DEF WordPieces
<1> QED
  BY <1>1, <1>2, <1>5 DEF CommandPieces

LEMMA TypesAreNoOptions ==
  ASSUME NEW type \in ProxyTypes
  PROVE  <<type>> \notin SshOptions
<1>1. type # "-p" /\ type # "-R" /\ type # "-o"
  BY DEF ProxyTypes
<1>2. <<type>>[1] = type /\ <<"-p">>[1] = "-p" /\ <<"-R">>[1] = "-R" /\ <<"-o">>[1] = "-o"
  OBVIOUS
<1>3. <<type>> # <<"-p">> /\ <<type>> # <<"-R">> /\ <<type>> # <<"-o">>
  BY <1>1, <1>2
<1> QED
  BY <1>3 DEF SshOptions

(* Both front ends ask frps for the same proxy, whatever the files say:    *)
(* what tiny-frpc-ssh has ssh execute (parse_to_native_ssh, shell_words)   *)
(* is the payload that tiny-frpc sends (gen_extra), when no value has a    *)
(* quote or a space in it.                                                 *)
THEOREM TheFrontEndsAgree == Spec => []FrontEndsAgree
<1>1. LoadInv => FrontEndsAgree
  <2> SUFFICES ASSUME LoadInv, NEW p \in RunningProxies,
                      Plain(p, config), PlainCommand(p, config)
               PROVE  SshExecutes(ShellWords(NativeCommand(p, config))) = GenExtra(p, config)
    BY DEF FrontEndsAgree
  <2>1. PICK c : c = config
    OBVIOUS
  <2>2. ProxyInv(p) /\ ConfigInv(c) /\ Plain(p, c) /\ PlainCommand(p, c)
    BY <2>1 DEF RunningProxies, LoadInv, ConfigInv
  <2>3. PICK Q : Q = WordPieces
    OBVIOUS
  <2>4. CommandPieces(p, c, Q) /\ PlainlySent(p, c, Q)
    BY <2>2, <2>3, PiecesOfTheCommand, PlainIsSent
  <2>5. Space \in Pieces /\ Q = Without(Pieces, Space) /\ FlagNames \subseteq Q
    BY <2>3, PiecesOfWords DEF WordPieces
  <2>6. p.type \in Q /\ <<p.type>> \notin SshOptions
    BY <2>2, <2>3, FieldTypes, PiecesOfWords, TypesAreNoOptions
  <2>7. ToSet(NativeCommand(p, c)) \cap Quotes = {}
    BY <2>2 DEF PlainCommand
  <2>8. SshExecutes(ShellWords(NativeCommand(p, c))) = GenExtra(p, c)
    BY <2>4, <2>5, <2>6, <2>7, SshGivesThePayload
  <2> QED
    BY <2>1, <2>8
<1> QED
  BY LoadInvariant, <1>1, PTL

-----------------------------------------------------------------------------
(* What files declare: the recursive functions exist                       *)

TakesLists(upTo, list, names, declared) ==
  upTo = [j \in 0 .. Len(names) |->
            IF j = 0 THEN list ELSE upTo[j - 1] \o declared[names[j]]]

LEMMA TakesListsExist ==
  ASSUME NEW list, NEW names, Len(names) \in Nat, NEW declared
  PROVE  \E upTo : TakesLists(upTo, list, names, declared)
<1> DEFINE Upto(q, n) == q = [j \in 0 .. n |->
                                IF j = 0 THEN list ELSE q[j - 1] \o declared[names[j]]]
           T == {n \in Nat : \E q : Upto(q, n)}
<1>1. 0 \in T
  <2> DEFINE q == [j \in 0 .. 0 |-> list]
  <2>1. Upto(q, 0)
    OBVIOUS
  <2> QED
    BY <2>1
<1>2. ASSUME NEW n \in Nat, n \in T PROVE n + 1 \in T
  <2>1. PICK q : Upto(q, n)
    BY <1>2
  <2> DEFINE r == [j \in 0 .. n + 1 |->
                     IF j = n + 1 THEN q[n] \o declared[names[n + 1]] ELSE q[j]]
  <2>2. \A j \in 0 .. n : r[j] = q[j]
    OBVIOUS
  <2>3. ASSUME NEW j \in 0 .. n + 1
        PROVE  r[j] = IF j = 0 THEN list ELSE r[j - 1] \o declared[names[j]]
    <3>1. CASE j = n + 1
      <4>1. j # 0 /\ j - 1 = n /\ r[n] = q[n]
        BY <3>1, <2>2
      <4> QED
        BY <3>1, <4>1
    <3>2. CASE j \in 0 .. n
      <4>1. q[j] = IF j = 0 THEN list ELSE q[j - 1] \o declared[names[j]]
        BY <2>1, <3>2
      <4>2. j # 0 => r[j - 1] = q[j - 1]
        BY <2>2, <3>2
      <4> HIDE DEF r
      <4> QED
        BY <2>2, <3>2, <4>1, <4>2
    <3> QED
      BY <3>1, <3>2
  <2>4. Upto(r, n + 1)
    BY <2>3
  <2> HIDE DEF r, Upto
  <2> QED
    BY <2>4
<1> HIDE DEF Upto
<1>3. Nat \subseteq T
  <2> HIDE DEF T
  <2> QED
    BY <1>1, <1>2, NumberInduction
<1>4. \E q : Upto(q, Len(names))
  BY <1>3
<1> QED
  BY <1>4 DEF TakesLists, Upto

TakesIncludes(upTo, items, c, included, declared) ==
  upTo = [k \in 0 .. Len(included) |->
            IF k = 0 THEN c[items] ELSE WithThoseOf(upTo[k - 1], included[k], declared)]

LEMMA TakesIncludesExist ==
  ASSUME NEW items, NEW c, NEW included, Len(included) \in Nat, NEW declared
  PROVE  \E upTo : TakesIncludes(upTo, items, c, included, declared)
<1> DEFINE Upto(q, n) ==
             q = [k \in 0 .. n |->
                    IF k = 0 THEN c[items] ELSE WithThoseOf(q[k - 1], included[k], declared)]
           T == {n \in Nat : \E q : Upto(q, n)}
<1>1. 0 \in T
  <2> DEFINE q == [k \in 0 .. 0 |-> c[items]]
  <2>1. Upto(q, 0)
    OBVIOUS
  <2> QED
    BY <2>1
<1>2. ASSUME NEW n \in Nat, n \in T PROVE n + 1 \in T
  <2>1. PICK q : Upto(q, n)
    BY <1>2
  <2> DEFINE r == [k \in 0 .. n + 1 |->
                     IF k = n + 1 THEN WithThoseOf(q[n], included[n + 1], declared) ELSE q[k]]
  <2>2. \A k \in 0 .. n : r[k] = q[k]
    OBVIOUS
  <2>3. ASSUME NEW k \in 0 .. n + 1
        PROVE  r[k] = IF k = 0 THEN c[items]
                      ELSE WithThoseOf(r[k - 1], included[k], declared)
    <3>1. CASE k = n + 1
      <4>1. k # 0 /\ k - 1 = n /\ r[n] = q[n]
        BY <3>1, <2>2
      <4> QED
        BY <3>1, <4>1
    <3>2. CASE k \in 0 .. n
      <4>1. q[k] = IF k = 0 THEN c[items] ELSE WithThoseOf(q[k - 1], included[k], declared)
        BY <2>1, <3>2
      <4>2. k # 0 => r[k - 1] = q[k - 1]
        BY <2>2, <3>2
      <4> HIDE DEF r
      <4> QED
        BY <2>2, <3>2, <4>1, <4>2
    <3> QED
      BY <3>1, <3>2
  <2>4. Upto(r, n + 1)
    BY <2>3
  <2> HIDE DEF r, Upto
  <2> QED
    BY <2>4
<1> HIDE DEF Upto
<1>3. Nat \subseteq T
  <2> HIDE DEF T
  <2> QED
    BY <1>1, <1>2, NumberInduction
<1>4. \E q : Upto(q, Len(included))
  BY <1>3
<1> QED
  BY <1>4 DEF TakesIncludes, Upto

(* The items of a file and of its includes, as the code leaves them, which *)
(* completes them at the end of each file, or as they are written.         *)
LevelItems(items, c, included, below, how) ==
  IF how = "completed"
  THEN AllCompleted(ItemsOf(items, c, included, below), items, c)
  ELSE ItemsOf(items, c, included, below)

(* What the files of a directory declare, with at most d of them on a path.*)
DeclaresAt(at, items, confs, included, how) ==
  at = [d \in 0 .. MaxDepth |->
          [name \in ToSet(FileOrder) |->
             IF d = 0 THEN << >>
             ELSE LevelItems(items, confs[name], included[name], at[d - 1], how)]]

LEMMA DeclaresAtExists ==
  ASSUME NEW items, NEW confs, NEW included, NEW how
  PROVE  \E at : DeclaresAt(at, items, confs, included, how)
<1> DEFINE Body(d, below) ==
             [name \in ToSet(FileOrder) |->
                IF d = 0 THEN << >>
                ELSE LevelItems(items, confs[name], included[name], below, how)]
           Upto(q, n) == q = [d \in 0 .. n |-> Body(d, q[d - 1])]
           T == {n \in Nat : \E q : Upto(q, n)}
<1>0. \A f, g : Body(0, f) = Body(0, g)
  OBVIOUS
<1> HIDE DEF Body
<1>1. 0 \in T
  <2> DEFINE q == [d \in 0 .. 0 |-> Body(0, << >>)]
  <2>1. \A d \in 0 .. 0 : d = 0
    OBVIOUS
  <2>2. Upto(q, 0)
    BY <1>0, <2>1
  <2> QED
    BY <2>2
<1>2. ASSUME NEW n \in Nat, n \in T PROVE n + 1 \in T
  <2>1. PICK q : Upto(q, n)
    BY <1>2
  <2> DEFINE r == [d \in 0 .. n + 1 |-> IF d = n + 1 THEN Body(n + 1, q[n]) ELSE q[d]]
  <2>2. \A d \in 0 .. n : r[d] = q[d]
    OBVIOUS
  <2>3. ASSUME NEW d \in 0 .. n + 1
        PROVE  r[d] = Body(d, r[d - 1])
    <3>1. CASE d = n + 1
      <4>1. d - 1 = n /\ r[n] = q[n] /\ r[d] = Body(n + 1, q[n])
        BY <3>1, <2>2
      <4> HIDE DEF r
      <4> QED
        BY <3>1, <4>1
    <3>2. CASE d = 0
      <4>1. q[d] = Body(0, q[d - 1])
        BY <2>1, <3>2
      <4> HIDE DEF r
      <4> QED
        BY <1>0, <2>2, <3>2, <4>1
    <3>3. CASE d \in 1 .. n
      <4>1. q[d] = Body(d, q[d - 1])
        BY <2>1, <3>3
      <4>2. r[d - 1] = q[d - 1] /\ r[d] = q[d]
        BY <2>2, <3>3
      <4> HIDE DEF r
      <4> QED
        BY <4>1, <4>2
    <3> QED
      BY <3>1, <3>2, <3>3
  <2>4. Upto(r, n + 1)
    BY <2>3
  <2> HIDE DEF r, Upto
  <2> QED
    BY <2>4
<1> HIDE DEF Upto
<1>3. Nat \subseteq T
  <2> HIDE DEF T
  <2> QED
    BY <1>1, <1>2, NumberInduction
<1>4. \E q : Upto(q, MaxDepth)
  BY <1>3, DepthAssumption
<1> QED
  BY <1>4 DEF DeclaresAt, Upto, Body

-----------------------------------------------------------------------------
(* The runs of the two recursive functions, and the value of each level    *)

ListRun(list, names, declared) == CHOOSE upTo : TakesLists(upTo, list, names, declared)

IncludeRun(items, c, included, declared) ==
  CHOOSE upTo : TakesIncludes(upTo, items, c, included, declared)

Levels(items, confs, included, how) ==
  CHOOSE at : DeclaresAt(at, items, confs, included, how)

LEMMA ListRunStarts ==
  ASSUME NEW list, NEW names, Len(names) \in Nat, NEW declared
  PROVE  /\ ListRun(list, names, declared)[0] = list
         /\ ListRun(list, names, declared)[Len(names)] = WithThoseOf(list, names, declared)
<1> DEFINE run == ListRun(list, names, declared)
<1>1. TakesLists(run, list, names, declared)
  BY TakesListsExist, Zenon DEF ListRun
<1>2. WithThoseOf(list, names, declared) = run[Len(names)]
  BY Zenon DEF WithThoseOf, ListRun, TakesLists
<1> HIDE DEF run
<1>3. run[0] = list
  BY <1>1 DEF TakesLists
<1> QED
  BY <1>2, <1>3 DEF run

RunGoesOn(list, names, declared, j) ==
  ListRun(list, names, declared)[j] =
    ListRun(list, names, declared)[j - 1] \o declared[names[j]]

LEMMA ListRunGoesOn ==
  ASSUME NEW list, NEW names, Len(names) \in Nat, NEW declared, NEW j \in 1 .. Len(names)
  PROVE  RunGoesOn(list, names, declared, j)
<1> DEFINE run == ListRun(list, names, declared)
<1>1. TakesLists(run, list, names, declared)
  BY TakesListsExist, Zenon DEF ListRun
<1> HIDE DEF run
<1>2. j \in 0 .. Len(names) /\ j # 0
  OBVIOUS
<1>3. run[j] = run[j - 1] \o declared[names[j]]
  BY <1>1, <1>2 DEF TakesLists
<1> QED
  BY <1>3 DEF run, RunGoesOn

LEMMA IncludeRunStarts ==
  ASSUME NEW items, NEW c, NEW included, Len(included) \in Nat, NEW declared
  PROVE  IncludeRun(items, c, included, declared)[0] = c[items]
<1> DEFINE run == IncludeRun(items, c, included, declared)
<1>1. TakesIncludes(run, items, c, included, declared)
  BY TakesIncludesExist, Zenon DEF IncludeRun
<1> HIDE DEF run
<1>2. run[0] = c[items]
  BY <1>1 DEF TakesIncludes
<1> QED
  BY <1>2 DEF run

LEMMA IncludeRunGoesOn ==
  ASSUME NEW items, NEW c, NEW included, Len(included) \in Nat, NEW declared,
         NEW k \in 1 .. Len(included)
  PROVE  IncludeRun(items, c, included, declared)[k] =
           WithThoseOf(IncludeRun(items, c, included, declared)[k - 1], included[k], declared)
<1> DEFINE run == IncludeRun(items, c, included, declared)
<1>1. TakesIncludes(run, items, c, included, declared)
  BY TakesIncludesExist, Zenon DEF IncludeRun
<1> HIDE DEF run
<1>2. k \in 0 .. Len(included) /\ k # 0
  OBVIOUS
<1>3. run[k] = WithThoseOf(run[k - 1], included[k], declared)
  BY <1>1, <1>2 DEF TakesIncludes
<1> QED
  BY <1>3 DEF run

LEMMA ItemsOfRun ==
  ASSUME NEW items, NEW c, NEW included, NEW declared
  PROVE  ItemsOf(items, c, included, declared) =
           IncludeRun(items, c, included, declared)[Len(included)]
BY Zenon DEF ItemsOf, IncludeRun, TakesIncludes

LEMMA LevelsGoUp ==
  ASSUME NEW items, NEW confs, NEW included, NEW how, NEW d \in 1 .. MaxDepth,
         NEW name \in ToSet(FileOrder)
  PROVE  Levels(items, confs, included, how)[d][name] =
           LevelItems(items, confs[name], included[name],
                      Levels(items, confs, included, how)[d - 1], how)
<1> DEFINE at == Levels(items, confs, included, how)
<1>1. DeclaresAt(at, items, confs, included, how)
  BY DeclaresAtExists, Zenon DEF Levels
<1> HIDE DEF at
<1>2. d \in 0 .. MaxDepth /\ d # 0
  BY DepthAssumption
<1>3. at[d] = [n \in ToSet(FileOrder) |->
                 LevelItems(items, confs[n], included[n], at[d - 1], how)]
  BY <1>1, <1>2 DEF DeclaresAt
<1>4. at[d][name] = LevelItems(items, confs[name], included[name], at[d - 1], how)
  BY <1>3
<1> QED
  BY <1>4 DEF at

LEMMA LevelsStart ==
  ASSUME NEW items, NEW confs, NEW included, NEW how, NEW name \in ToSet(FileOrder)
  PROVE  Levels(items, confs, included, how)[0][name] = << >>
<1> DEFINE at == Levels(items, confs, included, how)
<1>1. DeclaresAt(at, items, confs, included, how)
  BY DeclaresAtExists, Zenon DEF Levels
<1> HIDE DEF at
<1>2. 0 \in 0 .. MaxDepth
  BY DepthAssumption
<1>3. at[0] = [n \in ToSet(FileOrder) |-> << >>]
  BY <1>1, <1>2 DEF DeclaresAt
<1> QED
  BY <1>3 DEF at

LEMMA LevelsAreOfItems ==
  ASSUME NEW items, NEW confs, NEW included, NEW d \in 1 .. MaxDepth,
         NEW name \in ToSet(FileOrder)
  PROVE  /\ Levels(items, confs, included, "completed")[d][name] =
              AllCompleted(ItemsOf(items, confs[name], included[name],
                                   Levels(items, confs, included, "completed")[d - 1]),
                           items, confs[name])
         /\ Levels(items, confs, included, "written")[d][name] =
              ItemsOf(items, confs[name], included[name],
                      Levels(items, confs, included, "written")[d - 1])
<1>1. PICK at, as, c, list :
        /\ at = Levels(items, confs, included, "completed")
        /\ as = Levels(items, confs, included, "written")
        /\ c = confs[name] /\ list = included[name]
  OBVIOUS
<1>2. at[d][name] = LevelItems(items, c, list, at[d - 1], "completed")
  BY <1>1, LevelsGoUp
<1>3. as[d][name] = LevelItems(items, c, list, as[d - 1], "written")
  BY <1>1, LevelsGoUp
<1>4. LevelItems(items, c, list, at[d - 1], "completed") =
        AllCompleted(ItemsOf(items, c, list, at[d - 1]), items, c)
  BY DEF LevelItems
<1>5. LevelItems(items, c, list, as[d - 1], "written") = ItemsOf(items, c, list, as[d - 1])
  BY DEF LevelItems
<1> QED
  BY <1>1, <1>2, <1>3, <1>4, <1>5, Zenon

-----------------------------------------------------------------------------
(* A file that is being loaded *)

(* What is left of a sequence behind its first k elements.                 *)
IsTail(t, s, k) ==
  /\ IsSeq(t) /\ Len(t) = Len(s) - k
  /\ \A i \in 1 .. Len(t) : t[i] = s[i + k]

LEMMA TailIsAll ==
  ASSUME NEW s, IsSeq(s)
  PROVE  IsTail(s, s, 0)
BY SeqIsFunction DEF IsTail

LEMMA TailIsEmpty ==
  ASSUME NEW s, IsSeq(s), NEW k \in 0 .. Len(s), IsTail(<< >>, s, k)
  PROVE  k = Len(s)
<1>1. Len(<< >>) = 0 /\ Len(s) \in Nat
  BY SeqIsFunction
<1> QED
  BY <1>1 DEF IsTail

LEMMA TailIsNext ==
  ASSUME NEW s, IsSeq(s), NEW k \in 0 .. Len(s), NEW t, IsTail(t, s, k), t # << >>
  PROVE  /\ k + 1 \in 1 .. Len(s)
         /\ Head(t) = s[k + 1]
         /\ IsTail(Tail(t), s, k + 1)
<1> DEFINE S == ToSet(t)
<1>1. t \in Seq(S) /\ Len(t) \in Nat /\ Len(s) \in Nat
  BY SeqIsFunction DEF IsTail, IsSeq
<1> HIDE DEF S
<1>2. Len(t) \in Nat \ {0}
  BY <1>1
<1>3. /\ Tail(t) \in Seq(S) /\ Len(Tail(t)) = Len(t) - 1
      /\ \A i \in 1 .. Len(t) - 1 : Tail(t)[i] = t[i + 1]
      /\ Head(t) = t[1]
  BY <1>1
<1>4. Len(t) = Len(s) - k /\ \A i \in 1 .. Len(t) : t[i] = s[i + k]
  BY DEF IsTail
<1>5. k + 1 \in 1 .. Len(s) /\ 1 \in 1 .. Len(t)
  BY <1>1, <1>2, <1>4
<1>6. ASSUME NEW i \in 1 .. Len(t) - 1 PROVE Tail(t)[i] = s[i + (k + 1)]
  <2>1. i + 1 \in 1 .. Len(t) /\ (i + 1) + k = i + (k + 1)
    BY <1>1
  <2> QED
    BY <1>3, <1>4, <2>1
<1>7. IsSeq(Tail(t))
  BY <1>3, MembersAreSeqs
<1>8. Len(t) - 1 = Len(s) - (k + 1) /\ Head(t) = s[k + 1]
  <2>1. t[1] = s[1 + k] /\ 1 + k = k + 1
    BY <1>4, <1>5
  <2> QED
    BY <1>1, <1>3, <1>4, <2>1
<1> QED
  BY <1>3, <1>5, <1>6, <1>7, <1>8 DEF IsTail

ItemKinds == {"proxies", "visitors"}

(* One list of files for each pattern.                                     *)
ListsInv(c, lists) ==
  /\ IsSeq(c.includes) /\ IsSeq(lists) /\ Len(lists) = Len(c.includes)
  /\ \A k \in DOMAIN lists : IsSeq(lists[k])

(* The items of a frame are those of the file, and behind them those of    *)
(* the files of k patterns, the last of which has some left.               *)
TookUpTo(frame, c, lists, declared, k) ==
  IF k = 0
  THEN frame.todo = << >> /\ \A items \in ItemKinds : frame.config[items] = c[items]
  ELSE \E j \in 0 .. Len(lists[k]) :
         /\ IsTail(frame.todo, lists[k], j)
         /\ \A items \in ItemKinds :
              frame.config[items] =
                ListRun(IncludeRun(items, c, lists, declared[items])[k - 1],
                        lists[k], declared[items])[j]

Took(frame, c, lists, declared) ==
  /\ frame.config.user = c.user
  /\ frame.config.userDoublePrefix = c.userDoublePrefix
  /\ \E k \in 0 .. Len(c.includes) :
       IsTail(frame.patterns, c.includes, k) /\ TookUpTo(frame, c, lists, declared, k)

HasRunTo(frame, c, lists, declared, k, items) ==
  frame.config[items] = IncludeRun(items, c, lists, declared[items])[k]

(* With no file left, the pattern is done.                                 *)
LEMMA PatternIsDone ==
  ASSUME NEW frame, NEW c, NEW lists, NEW declared, ListsInv(c, lists),
         NEW k \in 0 .. Len(c.includes), TookUpTo(frame, c, lists, declared, k),
         frame.todo = << >>, NEW items \in ItemKinds
  PROVE  HasRunTo(frame, c, lists, declared, k, items)
<1>1. Len(lists) \in Nat /\ Len(lists) = Len(c.includes) /\ DOMAIN lists = 1 .. Len(lists)
  BY SeqIsFunction DEF ListsInv
<1>2. CASE k = 0
  <2>1. IncludeRun(items, c, lists, declared[items])[0] = c[items]
    BY <1>1, IncludeRunStarts
  <2> QED
    BY <1>2, <2>1 DEF TookUpTo, HasRunTo
<1>3. CASE k # 0
  <2>1. k \in 1 .. Len(lists) /\ IsSeq(lists[k])
    BY <1>1, <1>3 DEF ListsInv
  <2>2. PICK j \in 0 .. Len(lists[k]) :
          /\ IsTail(frame.todo, lists[k], j)
          /\ \A kind \in ItemKinds :
               frame.config[kind] =
                 ListRun(IncludeRun(kind, c, lists, declared[kind])[k - 1],
                         lists[k], declared[kind])[j]
    BY <1>3 DEF TookUpTo
  <2>3. j = Len(lists[k]) /\ Len(lists[k]) \in Nat
    BY <2>1, <2>2, TailIsEmpty, SeqIsFunction
  <2>4. PICK of, before, run, names :
          /\ of = declared[items] /\ names = lists[k]
          /\ run = IncludeRun(items, c, lists, of)
          /\ before = run[k - 1]
    OBVIOUS
  <2>5. run[k] = WithThoseOf(before, names, of)
    BY <1>1, <2>1, <2>4, IncludeRunGoesOn
  <2>6. ListRun(before, names, of)[Len(names)] = WithThoseOf(before, names, of)
    BY <2>3, <2>4, ListRunStarts
  <2>7. frame.config[items] = ListRun(before, names, of)[Len(names)]
    BY <2>2, <2>3, <2>4
  <2> QED
    BY <2>4, <2>5, <2>6, <2>7 DEF HasRunTo
<1> QED
  BY <1>2, <1>3

(* parse() has read a file and expanded nothing yet.                       *)
LEMMA FileIsTaken ==
  ASSUME NEW frame, NEW c, NEW lists, NEW declared, ListsInv(c, lists),
         \A key \in ConfigKeys \ {"includes"} : frame.config[key] = c[key],
         frame.patterns = c.includes, frame.todo = << >>
  PROVE  Took(frame, c, lists, declared)
<1>1. IsTail(frame.patterns, c.includes, 0)
  BY TailIsAll DEF ListsInv
<1>2. TookUpTo(frame, c, lists, declared, 0)
  BY DEF TookUpTo, ItemKinds, ConfigKeys
<1>3. 0 \in 0 .. Len(c.includes)
  BY SeqIsFunction DEF ListsInv
<1> QED
  BY <1>1, <1>2, <1>3 DEF Took, ConfigKeys

(* The next pattern is expanded: its files are the next list.              *)
LEMMA PatternIsTaken ==
  ASSUME NEW frame, NEW c, NEW lists, NEW declared, ListsInv(c, lists),
         FrameInv(frame), Took(frame, c, lists, declared),
         frame.todo = << >>, frame.patterns # << >>
  PROVE  \E k \in DOMAIN lists :
           /\ Head(frame.patterns) = c.includes[k]
           /\ Took([frame EXCEPT !.patterns = Tail(@), !.todo = lists[k]],
                   c, lists, declared)
<1>1. PICK k \in 0 .. Len(c.includes) :
        IsTail(frame.patterns, c.includes, k) /\ TookUpTo(frame, c, lists, declared, k)
  BY DEF Took
<1>2. ASSUME NEW items \in ItemKinds
      PROVE  HasRunTo(frame, c, lists, declared, k, items)
  BY <1>1, PatternIsDone
<1>3. /\ Len(c.includes) \in Nat /\ IsSeq(c.includes)
      /\ DOMAIN lists = 1 .. Len(c.includes)
  BY SeqIsFunction DEF ListsInv
<1>4. /\ k + 1 \in DOMAIN lists
      /\ Head(frame.patterns) = c.includes[k + 1]
      /\ IsTail(Tail(frame.patterns), c.includes, k + 1)
  BY <1>1, <1>3, TailIsNext
<1> DEFINE next == [frame EXCEPT !.patterns = Tail(@), !.todo = lists[k + 1]]
<1>5. /\ next.config = frame.config /\ next.patterns = Tail(frame.patterns)
      /\ next.todo = lists[k + 1]
  BY DEF FrameInv
<1> HIDE DEF next
<1>6. IsSeq(lists[k + 1]) /\ Len(lists[k + 1]) \in Nat
  BY <1>4, SeqIsFunction DEF ListsInv
<1>7. IsTail(next.todo, lists[k + 1], 0)
  BY <1>5, <1>6, TailIsAll
<1>8. ASSUME NEW items \in ItemKinds
      PROVE  next.config[items] =
               ListRun(IncludeRun(items, c, lists, declared[items])[(k + 1) - 1],
                       lists[k + 1], declared[items])[0]
  <2>1. PICK of, before, names :
          /\ of = declared[items] /\ names = lists[k + 1]
          /\ before = IncludeRun(items, c, lists, of)[k]
    OBVIOUS
  <2>2. ListRun(before, names, of)[0] = before
    BY <1>6, <2>1, ListRunStarts
  <2>3. (k + 1) - 1 = k
    BY <1>3
  <2>4. next.config[items] = before
    BY <1>2, <1>5, <2>1 DEF HasRunTo
  <2> QED
    BY <2>1, <2>2, <2>3, <2>4
<1>9. k + 1 # 0 /\ 0 \in 0 .. Len(lists[k + 1]) /\ k + 1 \in 0 .. Len(c.includes)
  BY <1>3, <1>4, <1>6
<1>10. TookUpTo(next, c, lists, declared, k + 1)
  BY <1>7, <1>8, <1>9 DEF TookUpTo
<1>11. Took(next, c, lists, declared)
  BY <1>4, <1>5, <1>9, <1>10 DEF Took
<1> QED
  BY <1>4, <1>11 DEF next

(* What a file declares, once it has taken the files of all patterns.      *)
LEMMA FileIsDone ==
  ASSUME NEW frame, NEW c, NEW lists, NEW declared, ListsInv(c, lists),
         FrameInv(frame), Took(frame, c, lists, declared),
         frame.todo = << >>, frame.patterns = << >>
  PROVE  \A items \in ItemKinds :
           Complete(frame.config)[items] =
             LevelItems(items, c, lists, declared[items], "completed")
<1>1. PICK k \in 0 .. Len(c.includes) :
        IsTail(frame.patterns, c.includes, k) /\ TookUpTo(frame, c, lists, declared, k)
  BY DEF Took
<1>2. ASSUME NEW items \in ItemKinds
      PROVE  HasRunTo(frame, c, lists, declared, k, items)
  BY <1>1, PatternIsDone
<1>3. k = Len(lists)
  BY <1>1, TailIsEmpty DEF ListsInv
<1>4. DOMAIN frame.config = ConfigKeys
  BY KeysOfConfig DEF FrameInv, ConfigInv
<1>5. ASSUME NEW items \in ItemKinds
      PROVE  Complete(frame.config)[items] = AllCompleted(frame.config[items], items, c)
  <2>1. CASE items = "proxies"
    BY <1>4, <2>1 DEF Complete, AllCompleted, CompleteItem, ConfigKeys, Took
  <2>2. CASE items = "visitors"
    BY <1>4, <2>2 DEF Complete, AllCompleted, CompleteItem, ConfigKeys, Took
  <2> QED
    BY <2>1, <2>2 DEF ItemKinds
<1>6. ASSUME NEW items \in ItemKinds
      PROVE  Complete(frame.config)[items] =
               LevelItems(items, c, lists, declared[items], "completed")
  <2>1. PICK of : of = declared[items]
    OBVIOUS
  <2>2. LevelItems(items, c, lists, of, "completed") =
          AllCompleted(IncludeRun(items, c, lists, of)[Len(lists)], items, c)
    BY ItemsOfRun, Zenon DEF LevelItems
  <2> QED
    BY <1>2, <1>3, <1>5, <2>1, <2>2 DEF HasRunTo
<1> QED
  BY <1>6

(* A file that is done gives its items to the one that includes it.        *)
LEMMA ItemsAreTaken ==
  ASSUME NEW frame, NEW c, NEW lists, NEW declared, ListsInv(c, lists),
         FrameInv(frame), Took(frame, c, lists, declared), frame.todo # << >>,
         NEW done, ConfigInv(done), ItemsInv(done),
         \A items \in ItemKinds : done[items] = declared[items][Head(frame.todo)]
  PROVE  Took(WithItemsOf(frame, done), c, lists, declared)
<1>1. PICK k \in 0 .. Len(c.includes) :
        IsTail(frame.patterns, c.includes, k) /\ TookUpTo(frame, c, lists, declared, k)
  BY DEF Took
<1>2. k # 0
  BY <1>1 DEF TookUpTo
<1>3. PICK j \in 0 .. Len(lists[k]) :
        /\ IsTail(frame.todo, lists[k], j)
        /\ \A items \in ItemKinds :
             frame.config[items] =
               ListRun(IncludeRun(items, c, lists, declared[items])[k - 1],
                       lists[k], declared[items])[j]
  BY <1>1, <1>2 DEF TookUpTo
<1>4. IsSeq(lists[k]) /\ Len(lists[k]) \in Nat
  <2>1. k \in DOMAIN lists
    BY <1>2, SeqIsFunction DEF ListsInv
  <2> QED
    BY <2>1, SeqIsFunction DEF ListsInv
<1>5. /\ j + 1 \in 1 .. Len(lists[k])
      /\ Head(frame.todo) = lists[k][j + 1]
      /\ IsTail(Tail(frame.todo), lists[k], j + 1)
  BY <1>3, <1>4, TailIsNext
<1> DEFINE next == WithItemsOf(frame, done)
<1>6. DOMAIN frame.config = ConfigKeys
  BY KeysOfConfig DEF FrameInv, ConfigInv
<1>7. /\ next.patterns = frame.patterns /\ next.todo = Tail(frame.todo)
      /\ \A items \in ItemKinds : next.config[items] = frame.config[items] \o done[items]
      /\ next.config.user = frame.config.user
      /\ next.config.userDoublePrefix = frame.config.userDoublePrefix
  BY <1>6 DEF FrameInv, WithItemsOf, ConfigKeys, ItemKinds
<1> HIDE DEF next
<1>8. ASSUME NEW items \in ItemKinds
      PROVE  next.config[items] =
               ListRun(IncludeRun(items, c, lists, declared[items])[k - 1],
                       lists[k], declared[items])[j + 1]
  <2>1. PICK of, before, names :
          /\ of = declared[items] /\ names = lists[k]
          /\ before = IncludeRun(items, c, lists, of)[k - 1]
    OBVIOUS
  <2>2. PICK i : i = j + 1 /\ i - 1 = j /\ Len(names) \in Nat /\ i \in 1 .. Len(names)
    BY <1>4, <1>5, <2>1
  <2>3. ListRun(before, names, of)[i] = ListRun(before, names, of)[i - 1] \o of[names[i]]
    <3>1. RunGoesOn(before, names, of, i)
      BY <2>2, ListRunGoesOn
    <3> QED
      BY <3>1, Zenon DEF RunGoesOn
  <2>4. frame.config[items] = ListRun(before, names, of)[j]
    BY <1>3, <2>1
  <2>5. done[items] = of[names[j + 1]]
    BY <1>5, <2>1
  <2>6. next.config[items] = ListRun(before, names, of)[j] \o of[names[i]]
    BY <1>7, <2>2, <2>4, <2>5, Zenon
  <2>7. next.config[items] = ListRun(before, names, of)[j + 1]
    BY <2>2, <2>3, <2>6, Zenon
  <2> QED
    BY <2>1, <2>7, Zenon
<1>9. j + 1 \in 0 .. Len(lists[k])
  BY <1>4, <1>5
<1>10. TookUpTo(next, c, lists, declared, k)
  BY <1>2, <1>5, <1>7, <1>8, <1>9 DEF TookUpTo
<1> QED
  BY <1>1, <1>7, <1>10 DEF Took, next

-----------------------------------------------------------------------------
(* The items of a running client *)

(* What each file says alone, and the files its patterns name.             *)
Confs == [name \in ToSet(FileOrder) |-> ConfigOf(name)]
Lists == [name \in ToSet(FileOrder) |-> IncludesOf(name)]

LEMMA FilesDecide ==
  ASSUME UNCHANGED files
  PROVE  UNCHANGED <<Confs, Lists>>
<1>1. UNCHANGED Confs
  BY DEF Confs, ConfigOf
<1>2. UNCHANGED Lists
  BY DEF Lists, IncludesOf, ConfigOf, Named, IsFile
<1> QED
  BY <1>1, <1>2

LEMMA IncludesAreSeqs ==
  ASSUME NEW root, TomlAccepted(root), \A key \in DOMAIN root : TypedSetting(root[key])
  PROVE  IsSeq(TomlConfig(root).includes)
<1> DEFINE patterns == TomlConfig(root)["includes"]
<1>1. patterns = ValueOr(root, "includes", "texts", << >>)
  BY RootSettings DEF ConfigKeys, RootParsers, DefaultConfig
<1> HIDE DEF patterns
<1>2. CASE "includes" \in DOMAIN root
  <2> DEFINE texts == root["includes"].holds
  <2>1. RootParsers["includes"] = "texts"
    BY DEF RootParsers
  <2>2. root["includes"].kind = "array"
    BY <1>2, <2>1 DEF TomlAccepted, TableAccepted, Accepts
  <2>3. IsSeq(texts)
    BY <1>2, <2>2 DEF TypedSetting, WellTyped, IsSeq
  <2>4. patterns = [i \in DOMAIN texts |-> texts[i].holds]
    BY <1>1, <1>2 DEF ValueOr, Parsed
  <2> HIDE DEF texts
  <2>5. patterns = [i \in 1 .. Len(texts) |-> patterns[i]] /\ Len(texts) \in Nat
    BY <2>3, <2>4, SeqIsFunction
  <2>6. IsSeq(patterns)
    BY <2>5, FunctionIsSeq
  <2> QED
    BY <2>6 DEF patterns
<1>3. CASE "includes" \notin DOMAIN root
  <2>1. patterns = << >>
    BY <1>1, <1>3 DEF ValueOr
  <2> QED
    BY <2>1, EmptyIsSeq DEF patterns
<1> QED
  BY <1>2, <1>3

LEMMA ListsTyped ==
  ASSUME FilesTyped, NEW name \in DOMAIN files, name \in ToSet(FileOrder),
         ParsesAsToml(files[name])
  PROVE  ListsInv(Confs[name], Lists[name])
<1> DEFINE c == TomlConfig(files[name].root)
           patterns == c.includes
           lists == [k \in DOMAIN patterns |-> Named(patterns[k])]
<1>1. Confs[name] = c /\ Lists[name] = lists
  BY DEF Confs, Lists, IncludesOf, ConfigOf
<1>2. IsSeq(patterns)
  BY IncludesAreSeqs DEF FilesTyped, TypedFile, ParsesAsToml
<1>3. ASSUME NEW pattern PROVE IsSeq(Named(pattern))
  <2>1. Named(pattern) \in Seq(ToSet(FileOrder))
    BY FilesAssumption, OnlyMembers DEF Named
  <2> QED
    BY <2>1, MembersAreSeqs
<1> HIDE DEF c
<1>4. Len(patterns) \in Nat /\ DOMAIN patterns = 1 .. Len(patterns)
  BY <1>2, SeqIsFunction
<1>5. lists = [k \in 1 .. Len(patterns) |-> lists[k]]
  BY <1>4
<1>6. IsSeq(lists) /\ Len(lists) = Len(patterns)
  <2> HIDE DEF lists
  <2> QED
    BY <1>4, <1>5, FunctionIsSeq
<1>7. \A k \in DOMAIN lists : IsSeq(lists[k])
  BY <1>3
<1> HIDE DEF lists
<1> QED
  BY <1>1, <1>2, <1>6, <1>7 DEF ListsInv

(* What the files that a file on level d + 1 includes declare.             *)
DeclaredOn(confs, lists, d) ==
  [items \in ItemKinds |-> Levels(items, confs, lists, "completed")[d]]

TookAs(dir, frame, name, confs, lists, d) ==
  /\ name \in DOMAIN dir
  /\ ParsesAsToml(dir[name])
  /\ Took(frame, confs[name], lists[name], DeclaredOn(confs, lists, d))

(* A file is on the stack for the main file, or for the next one to do of  *)
(* the file below it.                                                      *)
NameAt(i) == IF i = 1 THEN args.config ELSE Head(stack[i - 1].todo)

FrameTook(i) == TookAs(files, stack[i], NameAt(i), Confs, Lists, MaxDepth - i)

(* The invariant: the frame of each file has the items of the file itself  *)
(* and of the files it is through with, in their order and as complete as  *)
(* these are when they are done; what is left of its patterns, and of the  *)
(* matches of the last of them, is their rest.                             *)
DeclareInv ==
  /\ DOMAIN files \subseteq ToSet(FileOrder)
  /\ outcome = "loading" =>
       /\ \A i \in 1 .. Len(stack) : FrameTook(i)
       /\ \A i \in 1 .. Len(stack) - 1 : stack[i].todo # << >>
  /\ outcome \in {"loaded", "running"} /\ ~LooksLikeIni(MainFile) =>
       /\ args.config \in DOMAIN files
       /\ \A items \in ItemKinds :
            config[items] = Levels(items, Confs, Lists, "completed")[MaxDepth][args.config]

(* A file that is not the topmost one of the stack is left as it is.       *)
LEMMA FrameIsKept ==
  ASSUME UNCHANGED <<files, args>>, NEW i \in Nat \ {0}, FrameTook(i),
         stack'[i] = stack[i], i # 1 => stack'[i - 1].todo = stack[i - 1].todo
  PROVE  FrameTook(i)'
<1>1. UNCHANGED <<Confs, Lists>>
  BY FilesDecide
<1>2. NameAt(i)' = NameAt(i)
  BY DEF NameAt
<1> QED
  BY <1>1, <1>2 DEF FrameTook

LEMMA FrameTakes ==
  ASSUME NEW file
  PROVE  /\ Frame(file).patterns = TomlConfig(file.root).includes
         /\ Frame(file).todo = << >>
         /\ \A key \in ConfigKeys \ {"includes"} :
              Frame(file).config[key] = TomlConfig(file.root)[key]
BY KeysOfConfig DEF Frame, TomlConfig

(* The call of parse for a file: its frame is taken.                       *)
LEMMA CallIsTaken ==
  ASSUME FilesTyped, DOMAIN files \subseteq ToSet(FileOrder), NEW name \in DOMAIN files,
         ParsesAsToml(files[name]), NEW d
  PROVE  TookAs(files, Frame(files[name]), name, Confs, Lists, d)
<1>1. Confs[name] = TomlConfig(files[name].root)
  BY DEF Confs, ConfigOf
<1>2. ListsInv(Confs[name], Lists[name])
  BY ListsTyped
<1>3. PICK frame, c, lists, declared :
        /\ frame = Frame(files[name]) /\ c = Confs[name] /\ lists = Lists[name]
        /\ declared = DeclaredOn(Confs, Lists, d)
  OBVIOUS
<1>4. /\ frame.patterns = c.includes /\ frame.todo = << >>
      /\ \A key \in ConfigKeys \ {"includes"} : frame.config[key] = c[key]
  BY <1>1, <1>3, FrameTakes
<1>5. Took(frame, c, lists, declared)
  BY <1>2, <1>3, <1>4, FileIsTaken
<1> QED
  BY <1>3, <1>5 DEF TookAs

DoneAs(frame, items, confs, lists, d, name) ==
  Complete(frame.config)[items] = Levels(items, confs, lists, "completed")[d][name]

(* The end of parse for a file: the items are what the file declares.      *)
LEMMA DoneDeclares ==
  ASSUME FilesTyped, DOMAIN files \subseteq ToSet(FileOrder), NEW frame, NEW name,
         NEW d \in 1 .. MaxDepth, TookAs(files, frame, name, Confs, Lists, d - 1),
         FrameInv(frame), frame.todo = << >>, frame.patterns = << >>,
         NEW items \in ItemKinds
  PROVE  DoneAs(frame, items, Confs, Lists, d, name)
<1>1. name \in ToSet(FileOrder) /\ ListsInv(Confs[name], Lists[name])
  BY ListsTyped DEF TookAs
<1>2. PICK c, lists, declared :
        /\ c = Confs[name] /\ lists = Lists[name]
        /\ declared = DeclaredOn(Confs, Lists, d - 1)
  OBVIOUS
<1>3. Took(frame, c, lists, declared) /\ ListsInv(c, lists)
  BY <1>1, <1>2 DEF TookAs
<1>4. Complete(frame.config)[items] = LevelItems(items, c, lists, declared[items], "completed")
  BY <1>3, FileIsDone
<1>5. declared[items] = Levels(items, Confs, Lists, "completed")[d - 1]
  BY <1>2 DEF DeclaredOn
<1>6. PICK confs, included : confs = Confs /\ included = Lists
  OBVIOUS
<1>7. Levels(items, confs, included, "completed")[d][name] =
        LevelItems(items, confs[name], included[name],
                   Levels(items, confs, included, "completed")[d - 1], "completed")
  BY <1>1, LevelsGoUp
<1> QED
  BY <1>2, <1>4, <1>5, <1>6, <1>7 DEF DoneAs

LEMMA PatternStep ==
  ASSUME LoadInv, DeclareInv, IncludesAreNamed, NextPattern
  PROVE  DeclareInv'
<1>1. outcome = "loading" /\ UNCHANGED <<files, args>> /\ Top.todo = << >> /\ Top.patterns # << >>
  BY DEF NextPattern, Reject, commandLine
<1>2. Len(stack) \in 1 .. MaxDepth /\ FrameInv(Top) /\ IsSeq(stack) /\ DOMAIN stack = 1 .. Len(stack)
  BY <1>1, TopFrame, SeqIsFunction DEF LoadInv
<1>3. CASE Reject
  BY <1>1, <1>3 DEF Reject, DeclareInv
<1>4. CASE ~Reject
  <2> DEFINE matches == ExpandPattern(Head(Top.patterns))
             frame == [Top EXCEPT !.patterns = Tail(@), !.todo = matches]
             n == Len(stack)
  <2>1. stack' = WithTop(frame) /\ UNCHANGED <<files, args, outcome>>
    BY <1>4 DEF NextPattern, commandLine
  <2>2. matches = Named(Head(Top.patterns))
    BY <1>1 DEF IncludesAreNamed
  <2> HIDE DEF matches
  <2>3. TookAs(files, Top, NameAt(n), Confs, Lists, MaxDepth - n)
    BY <1>1, <1>2, DepthAssumption DEF DeclareInv, FrameTook, Top
  <2>4. PICK name, c, lists, declared :
          /\ name = NameAt(n) /\ c = Confs[name] /\ lists = Lists[name]
          /\ declared = DeclaredOn(Confs, Lists, MaxDepth - n)
    OBVIOUS
  <2>5. /\ name \in DOMAIN files /\ ParsesAsToml(files[name]) /\ Took(Top, c, lists, declared)
        /\ name \in ToSet(FileOrder)
    BY <2>3, <2>4 DEF TookAs, DeclareInv
  <2>6. ListsInv(c, lists)
    BY <2>4, <2>5, ListsTyped DEF LoadInv
  <2>7. PICK k \in DOMAIN lists :
          /\ Head(Top.patterns) = c.includes[k]
          /\ Took([Top EXCEPT !.patterns = Tail(@), !.todo = lists[k]], c, lists, declared)
    BY <1>1, <1>2, <2>5, <2>6, PatternIsTaken
  <2>8. lists[k] = Named(c.includes[k])
    BY <2>4, <2>5, <2>7 DEF Lists, Confs, IncludesOf, ConfigOf
  <2>9. Took(frame, c, lists, declared)
    BY <2>2, <2>7, <2>8
  <2> HIDE DEF frame
  <2>10. TookAs(files, frame, name, Confs, Lists, MaxDepth - n)
    BY <2>4, <2>5, <2>9 DEF TookAs
  <2>11. /\ Len(stack') = n
         /\ \A i \in 1 .. n : stack'[i] = IF i = n THEN frame ELSE stack[i]
    BY <1>2, <2>1, SeqIsFunction, FunctionIsSeq DEF WithTop
  <2>12. UNCHANGED <<Confs, Lists>>
    BY <2>1, FilesDecide
  <2> HIDE DEF n
  <2>15. n \in Nat
    BY <1>2, DepthAssumption DEF n
  <2>16. ASSUME NEW i \in 1 .. n, i # 1 PROVE stack'[i - 1] = stack[i - 1]
    <3>1. i - 1 \in 1 .. n /\ i - 1 # n
      BY <2>15, <2>16
    <3> QED
      BY <2>11, <3>1
  <2>13. ASSUME NEW i \in 1 .. n PROVE FrameTook(i)'
    <3>1. CASE i = n
      <4>1. NameAt(i)' = NameAt(i)
        BY <2>1, <2>16, <3>1 DEF NameAt
      <4>2. stack'[i] = frame
        BY <2>11, <3>1
      <4> QED
        BY <2>1, <2>4, <2>10, <2>12, <3>1, <4>1, <4>2 DEF FrameTook
    <3>2. CASE i # n
      <4>1. stack'[i] = stack[i] /\ (i # 1 => stack'[i - 1].todo = stack[i - 1].todo)
        BY <2>11, <2>16, <3>2
      <4>2. FrameTook(i) /\ i \in Nat \ {0}
        BY <1>1, <2>15 DEF DeclareInv, n
      <4> QED
        BY <2>1, <4>1, <4>2, FrameIsKept
    <3> QED
      BY <3>1, <3>2
  <2>14. ASSUME NEW i \in 1 .. n - 1 PROVE stack'[i].todo # << >>
    <3>1. i \in 1 .. n /\ i # n
      BY <2>15
    <3>2. stack[i].todo # << >>
      BY <1>1 DEF DeclareInv, n
    <3> QED
      BY <2>11, <3>1, <3>2
  <2> QED
    BY <1>1, <2>1, <2>11, <2>13, <2>14 DEF DeclareInv, n
<1> QED
  BY <1>3, <1>4

LEMMA CallStep ==
  ASSUME LoadInv, DeclareInv, LoadIncluded
  PROVE  DeclareInv'
<1> DEFINE n == Len(stack)
<1>1. /\ outcome = "loading" /\ UNCHANGED <<files, args, outcome>> /\ Top.todo # << >>
      /\ stack' = Append(stack, Frame(Included))
      /\ Head(Top.todo) \in DOMAIN files /\ ParsesAsToml(Included)
  BY DEF LoadIncluded, IncludeParses, IsFile, commandLine
<1>2. n \in 1 .. MaxDepth /\ IsSeq(stack) /\ DOMAIN stack = 1 .. n
  BY <1>1, TopFrame, SeqIsFunction DEF LoadInv
<1>3. /\ Len(stack') = n + 1 /\ stack'[n + 1] = Frame(Included)
      /\ \A i \in 1 .. n : stack'[i] = stack[i]
  BY <1>1, <1>2, AppendIsSeq
<1>4. ASSUME NEW i, i = n + 1 PROVE NameAt(i)' = Head(Top.todo)
  <2>1. n \in 1 .. n /\ i # 1 /\ i - 1 = n
    BY <1>2, <1>4, DepthAssumption
  <2>2. stack'[i - 1] = Top
    BY <1>3, <2>1 DEF Top
  <2> QED
    BY <2>1, <2>2 DEF NameAt
<1>5. ASSUME NEW i \in 1 .. n + 1 PROVE FrameTook(i)'
  <2>1. CASE i = n + 1
    <3>1. PICK name : name = Head(Top.todo)
      OBVIOUS
    <3>2. PICK d : d = MaxDepth - i
      OBVIOUS
    <3>3. TookAs(files, Frame(files[name]), name, Confs, Lists, d)
      BY <1>1, <3>1, CallIsTaken DEF LoadInv, DeclareInv, Included
    <3>4. UNCHANGED <<Confs, Lists>>
      BY <1>1, FilesDecide
    <3>5. stack'[i] = Frame(files[name]) /\ NameAt(i)' = name
      BY <1>3, <1>4, <2>1, <3>1, Zenon DEF Included
    <3> QED
      BY <1>1, <3>2, <3>3, <3>4, <3>5 DEF FrameTook
  <2>2. CASE i # n + 1
    <3>1. /\ i \in 1 .. n /\ stack'[i] = stack[i]
          /\ i # 1 => stack'[i - 1].todo = stack[i - 1].todo
      BY <1>2, <1>3, <2>2
    <3> QED
      BY <1>1, <3>1, FrameIsKept DEF DeclareInv
  <2> QED
    BY <2>1, <2>2
<1>6. ASSUME NEW i \in 1 .. n PROVE stack'[i].todo # << >>
  BY <1>1, <1>2, <1>3 DEF DeclareInv, Top
<1> QED
  BY <1>1, <1>2, <1>3, <1>5, <1>6 DEF DeclareInv

LEMMA FinishStep ==
  ASSUME LoadInv, DeclareInv, FinishFile
  PROVE  DeclareInv'
<1>1. /\ outcome = "loading" /\ Top.todo = << >> /\ Top.patterns = << >>
      /\ UNCHANGED <<files, args>>
  BY DEF FinishFile, commandLine
<1>2. /\ Len(stack) \in 1 .. MaxDepth /\ Len(stack) \in Nat /\ MaxDepth \in Nat
      /\ FrameInv(Top) /\ IsSeq(stack)
  BY <1>1, TopFrame, DepthAssumption DEF LoadInv
<1>3. UNCHANGED <<Confs, Lists>>
  BY <1>1, FilesDecide
<1>4. PICK name, n, d : /\ n = Len(stack) /\ name = NameAt(n)
                        /\ d = MaxDepth - n + 1 /\ d \in 1 .. MaxDepth /\ d - 1 = MaxDepth - n
  BY <1>2
<1>5. TookAs(files, Top, name, Confs, Lists, d - 1)
  BY <1>1, <1>2, <1>4 DEF DeclareInv, FrameTook, Top
<1>6. ASSUME NEW items \in ItemKinds
      PROVE  Complete(Top.config)[items] = Levels(items, Confs, Lists, "completed")[d][name]
  <2>1. PICK frame : frame = Top
    OBVIOUS
  <2>2. DoneAs(frame, items, Confs, Lists, d, name)
    BY <1>1, <1>2, <1>4, <1>5, <2>1, DoneDeclares DEF LoadInv, DeclareInv
  <2> QED
    BY <2>1, <2>2 DEF DoneAs
<1>7. CASE n = 1
  <2>1. config' = Complete(Top.config) /\ outcome' = "loaded"
    BY <1>4, <1>7 DEF FinishFile
  <2>2. name = args.config /\ d = MaxDepth /\ args.config \in DOMAIN files
    BY <1>2, <1>4, <1>5, <1>7 DEF NameAt, TookAs
  <2>3. \A items \in ItemKinds :
          config'[items] = Levels(items, Confs, Lists, "completed")[MaxDepth][args.config]
    BY <1>6, <2>1, <2>2
  <2> QED
    BY <1>1, <1>3, <2>1, <2>2, <2>3 DEF DeclareInv
<1>8. CASE n # 1
  <2> DEFINE parent == stack[Len(stack) - 1]
             done == Complete(Top.config)
             frame == WithItemsOf(parent, done)
             below == SubSeq(stack, 1, Len(stack) - 2)
  <2>1. /\ stack' = Append(below, frame) /\ UNCHANGED <<files, args, outcome>>
    BY <1>4, <1>8 DEF FinishFile, WithItemsOf, commandLine
  <2>2. PICK m : m = n - 1 /\ m \in 1 .. Len(stack) /\ m - 1 \in 0 .. Len(stack)
                 /\ m \in 1 .. n - 1 /\ m \in Nat /\ m + 1 = n
    BY <1>2, <1>4, <1>8
  <2>3. parent = stack[m] /\ below = SubSeq(stack, 1, m - 1)
    BY <1>4, <2>2
  <2>4. FrameInv(parent) /\ parent.todo # << >> /\ FrameTook(m)
    BY <1>1, <1>4, <2>2, <2>3 DEF LoadInv, DeclareInv
  <2>5. ConfigInv(done) /\ ItemsInv(done)
    BY <1>2, CompleteTyped DEF FrameInv
  <2>6. name = Head(parent.todo)
    BY <1>4, <1>8, <2>3 DEF NameAt
  <2> HIDE DEF parent, done, frame, below
  <2>7. PICK e : e = MaxDepth - m /\ e = d
    BY <1>2, <1>4, <2>2
  <2>8. TookAs(files, parent, NameAt(m), Confs, Lists, e)
    BY <2>3, <2>4, <2>7 DEF FrameTook
  <2>9. TookAs(files, frame, NameAt(m), Confs, Lists, e)
    <3>1. PICK up, of, c, lists, declared :
            /\ up = parent /\ of = NameAt(m) /\ c = Confs[of] /\ lists = Lists[of]
            /\ declared = DeclaredOn(Confs, Lists, e)
      OBVIOUS
    <3>2. of \in DOMAIN files /\ ParsesAsToml(files[of]) /\ Took(up, c, lists, declared)
      BY <2>8, <3>1 DEF TookAs
    <3>3. ListsInv(c, lists)
      BY <3>1, <3>2, ListsTyped DEF LoadInv, DeclareInv
    <3>4. ASSUME NEW items \in ItemKinds PROVE done[items] = declared[items][Head(up.todo)]
      BY <1>6, <2>6, <2>7, <3>1 DEF DeclaredOn, done
    <3>5. Took(WithItemsOf(up, done), c, lists, declared)
      BY <2>4, <2>5, <3>1, <3>2, <3>3, <3>4, ItemsAreTaken
    <3> QED
      BY <3>1, <3>2, <3>5 DEF TookAs, frame
  <2>10. /\ IsSeq(below) /\ Len(below) = m - 1
         /\ \A i \in 1 .. m - 1 : below[i] = stack[i]
    <3>1. PICK l : l = m - 1 /\ l \in 0 .. Len(stack)
      BY <2>2
    <3>2. IsSeq(SubSeq(stack, 1, l)) /\ Len(SubSeq(stack, 1, l)) = l
          /\ \A i \in 1 .. l : SubSeq(stack, 1, l)[i] = stack[i]
      BY <1>2, <3>1, BelowIsSeq
    <3> QED
      BY <2>3, <3>1, <3>2
  <2>11. /\ Len(stack') = m /\ stack'[m] = frame
         /\ \A i \in 1 .. m - 1 : stack'[i] = stack[i]
    <3>1. /\ Len(stack') = (m - 1) + 1 /\ stack'[(m - 1) + 1] = frame
          /\ \A i \in DOMAIN below : stack'[i] = below[i]
      BY <2>1, <2>10, AppendIsSeq
    <3>2. DOMAIN below = 1 .. m - 1
      BY <2>10, SeqIsFunction
    <3>3. (m - 1) + 1 = m
      BY <2>2
    <3> QED
      BY <2>10, <3>1, <3>2, <3>3
  <2>12. ASSUME NEW i \in 1 .. m, i # 1 PROVE stack'[i - 1] = stack[i - 1]
    <3>1. i - 1 \in 1 .. m - 1
      BY <2>2, <2>12
    <3> QED
      BY <2>11, <3>1
  <2>13. ASSUME NEW i \in 1 .. m PROVE FrameTook(i)'
    <3>1. CASE i = m
      <4>1. NameAt(i)' = NameAt(m)
        BY <2>1, <2>12, <3>1 DEF NameAt
      <4> QED
        BY <1>3, <2>1, <2>7, <2>9, <2>11, <3>1, <4>1 DEF FrameTook
    <3>2. CASE i # m
      <4>1. stack'[i] = stack[i] /\ (i # 1 => stack'[i - 1].todo = stack[i - 1].todo)
        <5>1. i \in 1 .. m - 1
          BY <2>2, <3>2
        <5> QED
          BY <2>11, <2>12, <5>1
      <4>2. FrameTook(i) /\ i \in Nat \ {0}
        <5>1. i \in 1 .. Len(stack) /\ i \in Nat \ {0}
          BY <1>2, <1>4, <2>2
        <5> QED
          BY <1>1, <5>1 DEF DeclareInv
      <4> QED
        BY <2>1, <4>1, <4>2, FrameIsKept
    <3> QED
      BY <3>1, <3>2
  <2>14. ASSUME NEW i \in 1 .. m - 1 PROVE stack'[i].todo # << >>
    <3>1. i \in 1 .. Len(stack) - 1
      BY <1>2, <1>4, <2>2
    <3> QED
      BY <1>1, <2>11, <3>1 DEF DeclareInv
  <2> QED
    BY <1>1, <2>1, <2>11, <2>13, <2>14 DEF DeclareInv
<1> QED
  BY <1>7, <1>8

LEMMA DeclareInvStep == LoadInv /\ DeclareInv /\ IncludesAreNamed /\ [Next]_vars => DeclareInv'
<1> SUFFICES ASSUME LoadInv, DeclareInv, IncludesAreNamed, [Next]_vars PROVE DeclareInv'
  OBVIOUS
<1> USE DEF commandLine
<1>1. CASE TakeArgument
  <2>1. ArgsInv'
    BY ArgsInvStep DEF LoadInv
  <2>2. outcome' \notin {"loading", "loaded", "running"} /\ UNCHANGED files
    BY <1>1, <2>1 DEF TakeArgument, ArgsInv
  <2> QED
    BY <2>2 DEF DeclareInv
<1>2. CASE ArgumentsEnd
  BY <1>2 DEF ArgumentsEnd, DeclareInv
<1>3. CASE LoadMainRejected \/ IncludeRejected
  BY <1>3 DEF LoadMainRejected, IncludeRejected, Reject, DeclareInv
<1>4. CASE LoadMainIni
  BY <1>4 DEF LoadMainIni, DeclareInv, MainFile
<1>5. CASE LoadMainToml
  <2>1. /\ stack' = <<Frame(MainFile)>> /\ outcome' = "loading" /\ UNCHANGED <<files, args>>
        /\ args.config \in DOMAIN files /\ ParsesAsToml(MainFile)
    BY <1>5 DEF LoadMainToml, MainLoads, IsFile
  <2>2. Len(stack') = 1 /\ stack'[1] = Frame(MainFile)
    BY <2>1
  <2>3. PICK name, d : name = args.config /\ d = MaxDepth - 1
    OBVIOUS
  <2>4. TookAs(files, Frame(files[name]), name, Confs, Lists, d)
    BY <2>1, <2>3, CallIsTaken DEF LoadInv, DeclareInv, MainFile
  <2>5. UNCHANGED <<Confs, Lists>>
    BY <2>1, FilesDecide
  <2>6. FrameTook(1)'
    BY <2>1, <2>2, <2>3, <2>4, <2>5 DEF FrameTook, NameAt, MainFile
  <2>7. \A i \in 1 .. 1 : i = 1
    OBVIOUS
  <2>8. 1 .. Len(stack') - 1 = {}
    BY <2>2
  <2> QED
    BY <2>1, <2>2, <2>6, <2>7, <2>8 DEF DeclareInv
<1>6. CASE NextPattern
  BY <1>6, PatternStep
<1>7. CASE LoadIncluded
  BY <1>7, CallStep
<1>8. CASE Overflow
  BY <1>8 DEF Overflow, DeclareInv
<1>9. CASE FinishFile
  BY <1>9, FinishStep
<1>10. CASE Start
  <2>1. /\ outcome = "loaded" /\ config' = ApplyOverrides(args, config)
        /\ outcome' \in {"running", "rejected"} /\ UNCHANGED <<files, args>>
    BY <1>10 DEF Start
  <2>2. \A items \in ItemKinds : config'[items] = config[items]
    BY <2>1, OverridesTyped DEF LoadInv, ItemKinds, ConfigKeys, Overridden
  <2>3. UNCHANGED <<Confs, Lists, MainFile>>
    BY <2>1, FilesDecide DEF MainFile
  <2> QED
    BY <2>1, <2>2, <2>3 DEF DeclareInv
<1>11. CASE UNCHANGED vars
  <2>1. UNCHANGED <<files, args, stack, config, outcome>>
    BY <1>11 DEF vars
  <2>2. UNCHANGED <<Confs, Lists, MainFile>>
    BY <2>1, FilesDecide DEF MainFile
  <2>3. \A i : FrameTook(i)' <=> FrameTook(i)
    BY <2>1, <2>2 DEF FrameTook, NameAt
  <2> QED
    BY <2>1, <2>2, <2>3 DEF DeclareInv
<1> QED
  BY <1>1, <1>2, <1>3, <1>4, <1>5, <1>6, <1>7, <1>8, <1>9, <1>10, <1>11
     DEF Next, Step, Stays

LEMMA WrittenIsTheTopLevel ==
  ASSUME NEW items
  PROVE  Written(items) = Levels(items, Confs, Lists, "written")[MaxDepth][args.config]
<1> DEFINE Body(at) ==
             [d \in 0 .. MaxDepth |->
                [name \in ToSet(FileOrder) |->
                   IF d = 0 THEN << >>
                   ELSE ItemsOf(items, ConfigOf(name), IncludesOf(name), at[d - 1])]]
<1>1. ASSUME NEW at PROVE Body(at) = [d \in 0 .. MaxDepth |->
          [name \in ToSet(FileOrder) |->
             IF d = 0 THEN << >>
             ELSE LevelItems(items, Confs[name], Lists[name], at[d - 1], "written")]]
  <2>1. \A name \in ToSet(FileOrder) :
          Confs[name] = ConfigOf(name) /\ Lists[name] = IncludesOf(name)
    BY DEF Confs, Lists
  <2>2. ASSUME NEW d, NEW name \in ToSet(FileOrder)
        PROVE  ItemsOf(items, ConfigOf(name), IncludesOf(name), at[d - 1]) =
                 LevelItems(items, Confs[name], Lists[name], at[d - 1], "written")
    <3>1. PICK c, included, below :
            c = Confs[name] /\ included = Lists[name] /\ below = at[d - 1]
      OBVIOUS
    <3>2. LevelItems(items, c, included, below, "written") = ItemsOf(items, c, included, below)
      BY DEF LevelItems
    <3> QED
      BY <2>1, <3>1, <3>2, Zenon
  <2> QED
    BY <2>2, Zenon
<1>2. Written(items) = (CHOOSE at : at = Body(at))[MaxDepth][args.config]
  BY Zenon DEF Written
<1> HIDE DEF Body
<1>3. ASSUME NEW at PROVE DeclaresAt(at, items, Confs, Lists, "written") <=> at = Body(at)
  BY <1>1, Zenon DEF DeclaresAt
<1>4. (CHOOSE at : at = Body(at)) = CHOOSE at : DeclaresAt(at, items, Confs, Lists, "written")
  BY <1>3, Zenon
<1> QED
  BY <1>2, <1>4, Zenon DEF Levels

-----------------------------------------------------------------------------
(* From the end to the beginning                                           *)

(* What holds behind the end, and wherever it holds of all that follows,   *)
(* holds everywhere.                                                       *)
LEMMA BackwardInduction ==
  ASSUME NEW n \in Nat, NEW T,
         \A i \in Nat : i > n => i \in T,
         \A i \in 0 .. n : (\A j \in Nat : j > i => j \in T) => i \in T
  PROVE  Nat \subseteq T
<1> DEFINE U == {k \in Nat : \A i \in Nat : i + k > n => i \in T}
<1>1. 0 \in U
  OBVIOUS
<1>2. ASSUME NEW k \in Nat, k \in U PROVE k + 1 \in U
  <2> SUFFICES ASSUME NEW i \in Nat, i + (k + 1) > n PROVE i \in T
    OBVIOUS
  <2>1. \A j \in Nat : j > i => j \in T
    BY <1>2
  <2>2. CASE i > n
    BY <2>2
  <2>3. CASE i \in 0 .. n
    BY <2>1, <2>3
  <2> QED
    BY <2>2, <2>3
<1>3. Nat \subseteq U
  <2> HIDE DEF U
  <2> QED
    BY <1>1, <1>2, NumberInduction
<1> SUFFICES ASSUME NEW i \in Nat PROVE i \in T
  OBVIOUS
<1>4. n + 1 \in U
  BY <1>3
<1> QED
  BY <1>4

-----------------------------------------------------------------------------
(* The scan of a class *)

Negated(pattern, start) == start < Len(pattern) /\ pattern[start + 1] \in {"^", "!"}

FirstMember(pattern, start) == IF Negated(pattern, start) THEN start + 2 ELSE start + 1

IsRange(pattern, i) ==
  /\ i + 2 <= Len(pattern)
  /\ pattern[i + 1] = "-"
  /\ pattern[i + 2] # "]"

ScanAt(pattern, first, candidates, closed, i) ==
  IF i > Len(pattern) THEN [closed |-> FALSE, hit |-> FALSE, next |-> i]
  ELSE IF pattern[i] = "]" /\ i # first
  THEN [closed |-> TRUE, hit |-> FALSE, next |-> i + 1]
  ELSE IF IsRange(pattern, i)
  THEN [closed[i + 3] EXCEPT !.hit =
          @ \/ \E ch \in candidates : InRange(ch, pattern[i], pattern[i + 2])]
  ELSE [closed[i + 1] EXCEPT !.hit = @ \/ pattern[i] \in candidates]

Scans(closed, pattern, first, candidates) ==
  closed = [i \in Nat |-> ScanAt(pattern, first, candidates, closed, i)]

ClassScan(pattern, first, candidates) == CHOOSE closed : Scans(closed, pattern, first, candidates)

LEMMA ScanLooksAhead ==
  ASSUME NEW pattern, NEW first, NEW candidates, NEW q, NEW r, NEW i \in Nat,
         \A j \in Nat : j > i /\ i <= Len(pattern) => q[j] = r[j]
  PROVE  ScanAt(pattern, first, candidates, q, i) = ScanAt(pattern, first, candidates, r, i)
<1>1. i <= Len(pattern) => q[i + 3] = r[i + 3] /\ q[i + 1] = r[i + 1]
  OBVIOUS
<1> QED
  BY <1>1 DEF ScanAt

LEMMA ClassScanExists ==
  ASSUME NEW pattern, Len(pattern) \in Nat, NEW first, NEW candidates
  PROVE  \E closed : Scans(closed, pattern, first, candidates)
<1> DEFINE Value(q, i) == ScanAt(pattern, first, candidates, q, i)
           T == {k \in Nat : \E q : \A i \in Nat : i + k > Len(pattern) => q[i] = Value(q, i)}
<1>1. 0 \in T
  <2> DEFINE q == [i \in Nat |-> Value(<< >>, i)]
  <2>1. ASSUME NEW i \in Nat, i > Len(pattern) PROVE q[i] = Value(q, i)
    BY <2>1 DEF ScanAt
  <2> HIDE DEF q, Value
  <2> QED
    BY <2>1
<1>2. ASSUME NEW k \in Nat, k \in T PROVE k + 1 \in T
  <2> HIDE DEF Value
  <2>1. PICK q : \A i \in Nat : i + k > Len(pattern) => q[i] = Value(q, i)
    BY <1>2
  <2> DEFINE r == [i \in Nat |-> Value(q, i)]
  <2>2. ASSUME NEW i \in Nat, i + (k + 1) > Len(pattern) PROVE r[i] = Value(r, i)
    <3>1. \A j \in Nat : j > i => q[j] = r[j]
      BY <2>1, <2>2
    <3> HIDE DEF r
    <3>2. Value(q, i) = Value(r, i)
      BY <3>1, ScanLooksAhead DEF Value
    <3> QED
      BY <3>2 DEF r
  <2> HIDE DEF r
  <2> QED
    BY <2>2
<1> HIDE DEF Value
<1>3. Nat \subseteq T
  <2> HIDE DEF T
  <2> QED
    BY <1>1, <1>2, NumberInduction
<1>4. PICK q : \A i \in Nat : q[i] = Value(q, i)
  <2>1. Len(pattern) + 1 \in T
    <3> HIDE DEF T
    <3> QED
      BY <1>3
  <2> QED
    BY <2>1
<1> DEFINE r == [i \in Nat |-> Value(q, i)]
<1>5. ASSUME NEW i \in Nat PROVE Value(q, i) = Value(r, i)
  <2>1. \A j \in Nat : q[j] = r[j]
    BY <1>4
  <2> HIDE DEF r
  <2> QED
    BY <2>1, ScanLooksAhead DEF Value
<1>6. r = [i \in Nat |-> Value(r, i)]
  BY <1>5
<1> HIDE DEF r
<1> QED
  BY <1>6 DEF Scans, Value

LEMMA ScanEquation ==
  ASSUME NEW pattern, Len(pattern) \in Nat, NEW first, NEW candidates, NEW i \in Nat
  PROVE  ClassScan(pattern, first, candidates)[i] =
           ScanAt(pattern, first, candidates, ClassScan(pattern, first, candidates), i)
<1> DEFINE closed == ClassScan(pattern, first, candidates)
<1>1. Scans(closed, pattern, first, candidates)
  BY ClassScanExists, Zenon DEF ClassScan
<1> HIDE DEF closed
<1>2. closed[i] = ScanAt(pattern, first, candidates, closed, i)
  BY <1>1 DEF Scans
<1> QED
  BY <1>2 DEF closed

ScanOf(pattern, start, candidates) ==
  ClassScan(pattern, FirstMember(pattern, start), candidates)[FirstMember(pattern, start)]

ClassOf(candidates, scan, negated) ==
  [closed |-> scan.closed, matched |-> candidates # {} /\ scan.hit # negated, next |-> scan.next]

LEMMA MatchClassScans ==
  ASSUME NEW pattern, NEW start, NEW candidates
  PROVE  MatchClass(pattern, start, candidates) =
           ClassOf(candidates, ScanOf(pattern, start, candidates), Negated(pattern, start))
BY Zenon DEF MatchClass, ClassOf, ScanOf, ClassScan, Scans, ScanAt, IsRange, FirstMember, Negated

(* A scan goes forward.                                                    *)
ScanTyped(scan, i) ==
  /\ scan \in [closed : BOOLEAN, hit : BOOLEAN, next : Nat]
  /\ scan.next >= i
  /\ scan.closed => scan.next > i

LEMMA EndsAreTyped ==
  ASSUME NEW c \in BOOLEAN, NEW k \in Nat, NEW n \in Nat, n >= k, c => n > k
  PROVE  ScanTyped([closed |-> c, hit |-> FALSE, next |-> n], k)
<1> DEFINE t == [closed |-> c, hit |-> FALSE, next |-> n]
<1>1. t \in [closed : BOOLEAN, hit : BOOLEAN, next : Nat]
  OBVIOUS
<1>2. t.closed = c /\ t.next = n
  OBVIOUS
<1> HIDE DEF t
<1>3. t.next >= k /\ (t.closed => t.next > k)
  BY <1>2
<1> QED
  BY <1>1, <1>3 DEF ScanTyped, t

LEMMA HitsStayTyped ==
  ASSUME NEW s, NEW b \in BOOLEAN, NEW k \in Nat, NEW j \in Nat, k < j, ScanTyped(s, j)
  PROVE  ScanTyped([s EXCEPT !.hit = b], k)
<1> DEFINE t == [s EXCEPT !.hit = b]
<1>1. t = [closed |-> s.closed, hit |-> b, next |-> s.next]
  BY DEF ScanTyped
<1>2. s.closed \in BOOLEAN /\ s.next \in Nat /\ s.next >= j /\ (s.closed => s.next > j)
  BY DEF ScanTyped
<1>3. t.closed = s.closed /\ t.next = s.next
  BY <1>1
<1> QED
  BY <1>1, <1>2, <1>3 DEF ScanTyped

LEMMA ScanGoesForward ==
  ASSUME NEW pattern, Len(pattern) \in Nat, NEW first, NEW candidates, NEW i \in Nat
  PROVE  ScanTyped(ClassScan(pattern, first, candidates)[i], i)
<1> DEFINE scan == ClassScan(pattern, first, candidates)
           T == {k \in Nat : ScanTyped(scan[k], k)}
<1>0. \A k \in Nat : scan[k] = ScanAt(pattern, first, candidates, scan, k)
  BY ScanEquation
<1> HIDE DEF scan
<1>1. ASSUME NEW k \in Nat, k > Len(pattern) PROVE k \in T
  <2>1. scan[k] = [closed |-> FALSE, hit |-> FALSE, next |-> k]
    BY <1>0, <1>1 DEF ScanAt
  <2>2. k >= k /\ FALSE \in BOOLEAN
    OBVIOUS
  <2>3. ScanTyped([closed |-> FALSE, hit |-> FALSE, next |-> k], k)
    BY <2>2, EndsAreTyped, Zenon
  <2>4. ScanTyped(scan[k], k)
    BY <2>1, <2>3, Zenon
  <2> QED
    BY <2>4
<1>2. ASSUME NEW k \in 0 .. Len(pattern), \A j \in Nat : j > k => j \in T PROVE k \in T
  <2>0. scan[k] = ScanAt(pattern, first, candidates, scan, k) /\ ~(k > Len(pattern))
    BY <1>0
  <2>1. ScanTyped(scan[k + 1], k + 1) /\ ScanTyped(scan[k + 3], k + 3)
    BY <1>2
  <2>2. CASE pattern[k] = "]" /\ k # first
    <3>1. scan[k] = [closed |-> TRUE, hit |-> FALSE, next |-> k + 1]
      BY <2>0, <2>2 DEF ScanAt
    <3>2. k + 1 \in Nat /\ k + 1 > k /\ k + 1 >= k /\ k \in Nat /\ TRUE \in BOOLEAN
      OBVIOUS
    <3>3. ScanTyped([closed |-> TRUE, hit |-> FALSE, next |-> k + 1], k)
      BY <3>2, EndsAreTyped, Zenon
    <3>4. ScanTyped(scan[k], k)
      BY <3>1, <3>3, Zenon
    <3> QED
      BY <3>4
  <2>3. CASE ~(pattern[k] = "]" /\ k # first) /\ IsRange(pattern, k)
    <3> DEFINE s == scan[k + 3]
    <3>1. scan[k] = [s EXCEPT !.hit =
                       @ \/ \E ch \in candidates : InRange(ch, pattern[k], pattern[k + 2])]
      BY <2>0, <2>3, Zenon DEF ScanAt
    <3>2. ScanTyped(s, k + 3)
      BY <2>1
    <3> HIDE DEF s
    <3>3. PICK b \in BOOLEAN : scan[k] = [s EXCEPT !.hit = b]
      BY <3>1, <3>2 DEF ScanTyped
    <3>4. k < k + 3 /\ k + 3 \in Nat
      OBVIOUS
    <3>5. ScanTyped(scan[k], k)
      BY <3>2, <3>3, <3>4, HitsStayTyped
    <3> QED
      BY <3>5
  <2>4. CASE ~(pattern[k] = "]" /\ k # first) /\ ~IsRange(pattern, k)
    <3> DEFINE s == scan[k + 1]
    <3>1. scan[k] = [s EXCEPT !.hit = @ \/ pattern[k] \in candidates]
      BY <2>0, <2>4, Zenon DEF ScanAt
    <3>2. ScanTyped(s, k + 1)
      BY <2>1
    <3> HIDE DEF s
    <3>3. PICK b \in BOOLEAN : scan[k] = [s EXCEPT !.hit = b]
      BY <3>1, <3>2 DEF ScanTyped
    <3>4. k < k + 1 /\ k + 1 \in Nat
      OBVIOUS
    <3>5. ScanTyped(scan[k], k)
      BY <3>2, <3>3, <3>4, HitsStayTyped
    <3> QED
      BY <3>5
  <2> QED
    BY <2>2, <2>3, <2>4
<1>3. Nat \subseteq T
  <2> HIDE DEF T
  <2> QED
    BY <1>1, <1>2, BackwardInduction
<1> QED
  BY <1>3 DEF scan

(* The dashes that make a range, and the characters next to none of them.  *)
Dashes(pattern, first, last) == {i \in first + 1 .. last - 1 : pattern[i] = "-"}

Singles(pattern, first, last) ==
  {i \in first .. last : \A d \in Dashes(pattern, first, last) : i \notin d - 1 .. d + 1}

Spanned(pattern, d) == {ch \in Characters : InRange(ch, pattern[d - 1], pattern[d + 1])}

LEMMA MembersBySpans ==
  ASSUME NEW pattern, NEW first, NEW last, NEW ch
  PROVE  ch \in Members(pattern, first, last) <=>
           \/ \E i \in Singles(pattern, first, last) : ch = pattern[i]
           \/ \E d \in Dashes(pattern, first, last) : ch \in Spanned(pattern, d)
BY DEF Members, Singles, Dashes, Spanned

LEMMA NoMembers ==
  ASSUME NEW pattern, NEW e \in Nat
  PROVE  Members(pattern, e, e - 1) = {}
<1>1. Singles(pattern, e, e - 1) = {} /\ Dashes(pattern, e, e - 1) = {}
  BY DEF Singles, Dashes
<1> QED
  BY <1>1, MembersBySpans

LEMMA LiteralMember ==
  ASSUME NEW pattern, NEW i \in Nat, NEW last \in Nat, i <= last,
         pattern[i + 1] = "-" => i + 2 > last,
         NEW ch
  PROVE  ch \in Members(pattern, i, last) <=>
           ch = pattern[i] \/ ch \in Members(pattern, i + 1, last)
<1>1. Dashes(pattern, i, last) = Dashes(pattern, i + 1, last)
  <2>1. ASSUME NEW d \in Dashes(pattern, i, last) PROVE d \in Dashes(pattern, i + 1, last)
    <3>1. d \in i + 1 .. last - 1 /\ pattern[d] = "-"
      BY <2>1 DEF Dashes
    <3>2. d # i + 1
      BY <3>1
    <3> QED
      BY <3>1, <3>2 DEF Dashes
  <2> QED
    BY <2>1 DEF Dashes
<1>2. Singles(pattern, i, last) = {i} \cup Singles(pattern, i + 1, last)
  <2>1. \A d \in Dashes(pattern, i + 1, last) : i \notin d - 1 .. d + 1
    BY DEF Dashes
  <2> QED
    BY <1>1, <2>1 DEF Singles
<1> QED
  BY <1>1, <1>2, MembersBySpans

LEMMA RangeOfMembers ==
  ASSUME NEW pattern, NEW i \in Nat, NEW last \in Nat, i + 2 <= last,
         pattern[i + 1] = "-",
         \A j \in i + 1 .. last : pattern[j] = "-" => j = i + 1 \/ j > i + 3,
         NEW ch
  PROVE  ch \in Members(pattern, i, last) <=>
           ch \in Spanned(pattern, i + 1) \/ ch \in Members(pattern, i + 3, last)
<1>1. Dashes(pattern, i, last) = {i + 1} \cup Dashes(pattern, i + 3, last)
  <2>1. ASSUME NEW d \in Dashes(pattern, i, last)
        PROVE  d \in {i + 1} \cup Dashes(pattern, i + 3, last)
    <3>1. d \in i + 1 .. last - 1 /\ pattern[d] = "-"
      BY <2>1 DEF Dashes
    <3>2. d = i + 1 \/ d > i + 3
      BY <3>1
    <3> QED
      BY <3>1, <3>2 DEF Dashes
  <2> QED
    BY <2>1 DEF Dashes
<1>2. Singles(pattern, i, last) = Singles(pattern, i + 3, last)
  <2> DEFINE later == Dashes(pattern, i + 3, last)
  <2>1. \A d \in later : d \in Int /\ d >= i + 4
    BY DEF Dashes
  <2> HIDE DEF later
  <2>2. ASSUME NEW k \in i .. last
        PROVE  (\A d \in {i + 1} \cup later : k \notin d - 1 .. d + 1)
                 <=> k >= i + 3 /\ \A d \in later : k \notin d - 1 .. d + 1
    <3>1. k \notin (i + 1) - 1 .. (i + 1) + 1 <=> k >= i + 3
      OBVIOUS
    <3> QED
      BY <3>1
  <2> QED
    BY <1>1, <2>2 DEF Singles, later
<1> QED
  BY <1>1, <1>2, MembersBySpans

-----------------------------------------------------------------------------
(* A class matches its members                                             *)

(* A class ends where its end is, and no two of its dashes are close.      *)
ClassIs(pattern, start, end) ==
  /\ end \in ClassEnds(pattern, start)
  /\ \A i, j \in start .. end :
       pattern[i] = "-" /\ pattern[j] = "-" /\ i < j => i + 2 < j

LEMMA ClassEndsAre ==
  ASSUME NEW pattern, NEW start, NEW end
  PROVE  end \in ClassEnds(pattern, start) <=>
           /\ end \in FirstMember(pattern, start) + 1 .. Len(pattern)
           /\ pattern[end] = "]"
           /\ \A i \in FirstMember(pattern, start) + 1 .. end - 1 : pattern[i] # "]"
BY Zenon DEF ClassEnds, FirstMember, Negated

(* What is known of a scan when only these members are left.               *)
Scanned(scan, end, candidates, members) ==
  scan = [closed |-> TRUE, hit |-> \E ch \in candidates : ch \in members, next |-> end + 1]

ScanRecords == [closed : BOOLEAN, hit : BOOLEAN, next : Nat]

IsScan(s) == s \in ScanRecords

LEMMA HitIsSet ==
  ASSUME NEW g \in BOOLEAN, NEW s, IsScan(s)
  PROVE  [s EXCEPT !.hit = g] = [closed |-> s.closed, hit |-> g, next |-> s.next]
BY DEF IsScan, ScanRecords

LEMMA HitIsKept ==
  ASSUME NEW h \in BOOLEAN, NEW b \in BOOLEAN, NEW n \in Nat, NEW s,
         s = [closed |-> TRUE, hit |-> h, next |-> n]
  PROVE  [s EXCEPT !.hit = @ \/ b] = [closed |-> TRUE, hit |-> h \/ b, next |-> n]
<1>1. IsScan(s)
  BY DEF IsScan, ScanRecords
<1>2. s.hit = h /\ s.closed = TRUE /\ s.next = n
  OBVIOUS
<1>3. \E g : g = (s.hit \/ b) /\ [s EXCEPT !.hit = @ \/ b] = [s EXCEPT !.hit = g]
  BY Zenon
<1>4. PICK g : g = (s.hit \/ b) /\ [s EXCEPT !.hit = @ \/ b] = [s EXCEPT !.hit = g]
  BY <1>3, Zenon
<1>5. g \in BOOLEAN /\ g = (h \/ b)
  BY <1>2, <1>4
<1>6. [s EXCEPT !.hit = g] = [closed |-> s.closed, hit |-> g, next |-> s.next]
  BY <1>1, <1>5, HitIsSet, Zenon
<1>7. [s EXCEPT !.hit = @ \/ b] = [closed |-> TRUE, hit |-> g, next |-> n]
  BY <1>2, <1>4, <1>6, Zenon
<1> QED
  BY <1>5, <1>7, Zenon

LEMMA HitIsScanned ==
  ASSUME NEW s, NEW end \in Nat, NEW candidates, NEW members, NEW b \in BOOLEAN, NEW all,
         Scanned(s, end, candidates, members),
         (\E ch \in candidates : ch \in all) <=> ((\E ch \in candidates : ch \in members) \/ b)
  PROVE  Scanned([s EXCEPT !.hit = @ \/ b], end, candidates, all)
<1> DEFINE h == \E ch \in candidates : ch \in members
           g == \E ch \in candidates : ch \in all
<1>1. s = [closed |-> TRUE, hit |-> h, next |-> end + 1]
  BY DEF Scanned
<1>2. h \in BOOLEAN /\ g \in BOOLEAN /\ (g <=> (h \/ b))
  BY Zenon
<1>5. end + 1 \in Nat
  OBVIOUS
<1> HIDE DEF h, g
<1>3. [s EXCEPT !.hit = @ \/ b] = [closed |-> TRUE, hit |-> h \/ b, next |-> end + 1]
  BY <1>1, <1>2, <1>5, HitIsKept, Zenon
<1>6. g = (h \/ b)
  BY <1>2
<1>4. [s EXCEPT !.hit = @ \/ b] = [closed |-> TRUE, hit |-> g, next |-> end + 1]
  BY <1>6, <1>3, Zenon
<1> QED
  BY <1>4, Zenon DEF Scanned, g

LEMMA ScanFindsMembers ==
  ASSUME NEW pattern, Len(pattern) \in Nat, NEW start \in Nat, NEW end, NEW candidates,
         candidates \subseteq Characters, ClassIs(pattern, start, end)
  PROVE  Scanned(ScanOf(pattern, start, candidates), end, candidates,
                 Members(pattern, FirstMember(pattern, start), end - 1))
<1> DEFINE first == FirstMember(pattern, start)
           scan == ClassScan(pattern, first, candidates)
           Left(i) == Members(pattern, i, end - 1)
           T == {i \in Nat : i \in first .. end => Scanned(scan[i], end, candidates, Left(i))}
<1>1. first \in Nat /\ first > start
  BY DEF FirstMember
<1>2. /\ end \in first + 1 .. Len(pattern)
      /\ pattern[end] = "]"
      /\ \A i \in first + 1 .. end - 1 : pattern[i] # "]"
  BY ClassEndsAre, Zenon DEF ClassIs
<1>3. \A i, j \in first .. end :
        pattern[i] = "-" /\ pattern[j] = "-" /\ i < j => i + 2 < j
  BY <1>1, <1>2 DEF ClassIs
<1>4. \A i \in Nat : scan[i] = ScanAt(pattern, first, candidates, scan, i)
  BY ScanEquation
<1> HIDE DEF first, scan, Left
<1>5. end \in Nat
  BY <1>1, <1>2
<1>6. ASSUME NEW i \in Nat, i > end PROVE i \in T
  BY <1>1, <1>5, <1>6
<1>7. ASSUME NEW i \in 0 .. end, \A j \in Nat : j > i => j \in T PROVE i \in T
  <2> SUFFICES ASSUME i \in first .. end PROVE Scanned(scan[i], end, candidates, Left(i))
    BY <1>5
  <2>0. i \in Nat /\ ~(i > Len(pattern)) /\ scan[i] = ScanAt(pattern, first, candidates, scan, i)
    BY <1>1, <1>2, <1>4
  <2>1. CASE i = end
    <3>1. Left(i) = {}
      BY <1>5, <2>1, NoMembers DEF Left
    <3>2. scan[i] = [closed |-> TRUE, hit |-> FALSE, next |-> end + 1]
      BY <1>1, <1>2, <2>0, <2>1 DEF ScanAt
    <3>3. (\E ch \in candidates : ch \in Left(i)) = FALSE
      BY <3>1
    <3> QED
      BY <3>2, <3>3, Zenon DEF Scanned
  <2>2. CASE i # end /\ IsRange(pattern, i)
    <3> DEFINE b == \E ch \in candidates : InRange(ch, pattern[i], pattern[i + 2])
    <3>1. i + 2 <= end - 1 /\ pattern[i + 1] = "-"
      BY <1>1, <1>2, <2>2 DEF IsRange
    <3>2. \A j \in i + 1 .. end - 1 : pattern[j] = "-" => j = i + 1 \/ j > i + 3
      BY <1>1, <1>2, <1>3, <3>1
    <3>3. i + 3 \in first .. end /\ i + 3 > i /\ i + 3 \in Nat
      BY <1>1, <1>5, <3>1
    <3>4. Scanned(scan[i + 3], end, candidates, Left(i + 3))
      BY <1>7, <3>3
    <3>5. ~(pattern[i] = "]" /\ i # first)
      BY <1>1, <1>2, <2>2
    <3>6. scan[i] = [scan[i + 3] EXCEPT !.hit = @ \/ b]
      BY <2>0, <2>2, <3>5, Zenon DEF ScanAt
    <3>7. ASSUME NEW ch \in candidates
          PROVE  ch \in Left(i) <=> InRange(ch, pattern[i], pattern[i + 2]) \/ ch \in Left(i + 3)
      <4>1. ch \in Members(pattern, i, end - 1)
              <=> ch \in Spanned(pattern, i + 1) \/ ch \in Members(pattern, i + 3, end - 1)
        BY <1>5, <2>0, <3>1, <3>2, RangeOfMembers
      <4>2. ch \in Spanned(pattern, i + 1) <=> InRange(ch, pattern[i], pattern[i + 2])
        <5>1. (i + 1) - 1 = i /\ (i + 1) + 1 = i + 2
          OBVIOUS
        <5> QED
          BY <5>1 DEF Spanned
      <4> QED
        BY <4>1, <4>2, Zenon DEF Left
    <3>8. (\E ch \in candidates : ch \in Left(i))
            <=> ((\E ch \in candidates : ch \in Left(i + 3)) \/ b)
      BY <3>7, Zenon
    <3>9. b \in BOOLEAN
      BY Zenon
    <3> HIDE DEF b
    <3>10. Scanned([scan[i + 3] EXCEPT !.hit = @ \/ b], end, candidates, Left(i))
      BY <1>5, <3>4, <3>8, <3>9, HitIsScanned
    <3> QED
      BY <3>6, <3>10, Zenon
  <2>3. CASE i # end /\ ~IsRange(pattern, i)
    <3> DEFINE b == pattern[i] \in candidates
    <3>1. i <= end - 1 /\ (pattern[i + 1] = "-" => i + 2 > end - 1)
      BY <1>1, <1>2, <2>3 DEF IsRange
    <3>3. i + 1 \in first .. end /\ i + 1 > i /\ i + 1 \in Nat
      BY <1>1, <1>5, <3>1
    <3>4. Scanned(scan[i + 1], end, candidates, Left(i + 1))
      BY <1>7, <3>3
    <3>5. ~(pattern[i] = "]" /\ i # first)
      BY <1>1, <1>2, <2>3
    <3>6. scan[i] = [scan[i + 1] EXCEPT !.hit = @ \/ b]
      BY <2>0, <2>3, <3>5, Zenon DEF ScanAt
    <3>7. ASSUME NEW ch \in candidates
          PROVE  ch \in Left(i) <=> ch = pattern[i] \/ ch \in Left(i + 1)
      BY <1>5, <2>0, <3>1, LiteralMember DEF Left
    <3>8. (\E ch \in candidates : ch \in Left(i))
            <=> ((\E ch \in candidates : ch \in Left(i + 1)) \/ b)
      BY <3>7, Zenon
    <3>9. b \in BOOLEAN
      OBVIOUS
    <3> HIDE DEF b
    <3>10. Scanned([scan[i + 1] EXCEPT !.hit = @ \/ b], end, candidates, Left(i))
      BY <1>5, <3>4, <3>8, <3>9, HitIsScanned
    <3> QED
      BY <3>6, <3>10, Zenon
  <2> QED
    BY <2>1, <2>2, <2>3
<1>8. Nat \subseteq T
  <2> HIDE DEF T
  <2> QED
    BY <1>5, <1>6, <1>7, BackwardInduction
<1>9. Scanned(scan[first], end, candidates, Left(first))
  BY <1>1, <1>2, <1>8
<1> QED
  BY <1>9, Zenon DEF first, scan, Left, ScanOf

(* A class that is closed, and whose ranges are apart, stands for its      *)
(* members, or for all other characters.                                   *)
LEMMA ClassMatchesMembers ==
  ASSUME NEW pattern, Len(pattern) \in Nat, NEW start \in Nat, NEW end, NEW candidates,
         candidates \subseteq Characters, ClassIs(pattern, start, end)
  PROVE  /\ MatchClass(pattern, start, candidates).closed = TRUE
         /\ MatchClass(pattern, start, candidates).next = end + 1
         /\ MatchClass(pattern, start, candidates).matched <=>
              /\ candidates # {}
              /\ (\E ch \in candidates :
                     ch \in Members(pattern, FirstMember(pattern, start), end - 1))
                   # Negated(pattern, start)
<1> DEFINE hit == \E ch \in candidates :
                    ch \in Members(pattern, FirstMember(pattern, start), end - 1)
           scan == ScanOf(pattern, start, candidates)
           class == MatchClass(pattern, start, candidates)
           negated == Negated(pattern, start)
<1>1. scan = [closed |-> TRUE, hit |-> hit, next |-> end + 1]
  <2>1. Scanned(scan, end, candidates, Members(pattern, FirstMember(pattern, start), end - 1))
    BY ScanFindsMembers
  <2> QED
    BY <2>1, Zenon DEF Scanned
<1>2. class = ClassOf(candidates, scan, negated)
  BY MatchClassScans
<1> HIDE DEF scan, hit, class, negated
<1>3. scan.closed = TRUE /\ scan.hit = hit /\ scan.next = end + 1
  BY <1>1
<1>4. /\ class.closed = scan.closed
      /\ class.matched = (candidates # {} /\ scan.hit # negated)
      /\ class.next = scan.next
  BY <1>2 DEF ClassOf
<1>5. /\ class.closed = TRUE
      /\ class.next = end + 1
      /\ class.matched <=> (candidates # {} /\ hit # negated)
  BY <1>3, <1>4, Zenon
<1> QED
  BY <1>5, Zenon DEF hit, class, negated

-----------------------------------------------------------------------------
(* The matcher                                                             *)

At(name, n) == IF n <= Len(name) THEN {name[n]} ELSE {}

AfterStars(pattern, p) ==
  CHOOSE q \in p + 1 .. Len(pattern) + 1 :
    /\ \A i \in p .. q - 1 : pattern[i] = "*"
    /\ q <= Len(pattern) => pattern[q] # "*"

MatchAt(pattern, name, matches, p, n) ==
  IF p > Len(pattern) THEN n = Len(name) + 1
  ELSE CASE pattern[p] = "*" ->
              \E m \in n .. Len(name) + 1 :
                /\ \A i \in n .. m - 1 : name[i] \notin Separators
                /\ matches[<<AfterStars(pattern, p), m>>]
         [] pattern[p] = "?" ->
              /\ At(name, n) # {} /\ At(name, n) \cap Separators = {}
              /\ matches[<<p + 1, n + 1>>]
         [] pattern[p] = "[" ->
              LET class == MatchClass(pattern, p, At(name, n))
              IN  IF class.closed
                  THEN class.matched /\ matches[<<class.next, n + 1>>]
                  ELSE At(name, n) = {"["}
         [] OTHER -> At(name, n) = {pattern[p]} /\ matches[<<p + 1, n + 1>>]

IsMatching(matches, pattern, name) ==
  matches = [place \in Nat \X Nat |-> MatchAt(pattern, name, matches, place[1], place[2])]

Matching(pattern, name) == CHOOSE matches : IsMatching(matches, pattern, name)

LEMMA MatchingStarts ==
  ASSUME NEW pattern, NEW name
  PROVE  WildcardMatch(pattern, name) = Matching(pattern, name)[<<1, 1>>]
BY Zenon DEF WildcardMatch, Matching, IsMatching, MatchAt, At, AfterStars

LEMMA StarsEnd ==
  ASSUME NEW pattern, Len(pattern) \in Nat, NEW p \in Nat, p <= Len(pattern),
         pattern[p] = "*"
  PROVE  /\ AfterStars(pattern, p) \in p + 1 .. Len(pattern) + 1
         /\ \A i \in p .. AfterStars(pattern, p) - 1 : pattern[i] = "*"
         /\ AfterStars(pattern, p) <= Len(pattern) => pattern[AfterStars(pattern, p)] # "*"
<1> DEFINE S == {q \in p + 1 .. Len(pattern) + 1 : q <= Len(pattern) => pattern[q] # "*"}
           Ends(q) == /\ \A i \in p .. q - 1 : pattern[i] = "*"
                      /\ q <= Len(pattern) => pattern[q] # "*"
<1>1. Len(pattern) + 1 \in S /\ S \subseteq Nat
  OBVIOUS
<1>2. PICK q \in S : \A r \in S : q <= r
  <2> HIDE DEF S
  <2>1. S # {}
    BY <1>1
  <2> QED
    BY <1>1, <2>1, LeastNumber
<1>3. \A i \in p .. q - 1 : pattern[i] = "*"
  <2> SUFFICES ASSUME NEW i \in p .. q - 1, pattern[i] # "*" PROVE FALSE
    OBVIOUS
  <2>1. i \in S
    OBVIOUS
  <2> HIDE DEF S
  <2> QED
    BY <1>2, <2>1
<1>4. q \in p + 1 .. Len(pattern) + 1 /\ Ends(q)
  BY <1>3
<1>5. AfterStars(pattern, p) = CHOOSE x \in p + 1 .. Len(pattern) + 1 : Ends(x)
  BY Zenon DEF AfterStars
<1> HIDE DEF Ends
<1>6. AfterStars(pattern, p) \in p + 1 .. Len(pattern) + 1 /\ Ends(AfterStars(pattern, p))
  BY <1>4, <1>5, Zenon
<1> QED
  BY <1>6, Zenon DEF Ends

(* A class that is closed goes forward.                                    *)
LEMMA ClassGoesForward ==
  ASSUME NEW pattern, Len(pattern) \in Nat, NEW p \in Nat, NEW candidates,
         MatchClass(pattern, p, candidates).closed
  PROVE  /\ MatchClass(pattern, p, candidates).next \in Nat
         /\ MatchClass(pattern, p, candidates).next > p
<1> DEFINE scan == ScanOf(pattern, p, candidates)
           class == MatchClass(pattern, p, candidates)
<1>1. FirstMember(pattern, p) \in Nat /\ FirstMember(pattern, p) > p
  BY DEF FirstMember
<1>2. ScanTyped(scan, FirstMember(pattern, p))
  BY <1>1, ScanGoesForward DEF ScanOf
<1>3. class = ClassOf(candidates, scan, Negated(pattern, p))
  BY MatchClassScans
<1> HIDE DEF scan, class
<1>4. class.closed = scan.closed /\ class.next = scan.next
  BY <1>3 DEF ClassOf
<1>5. scan.next \in Nat /\ (scan.closed => scan.next > FirstMember(pattern, p))
  BY <1>2 DEF ScanTyped
<1>6. class.next \in Nat /\ (class.closed => class.next > p)
  BY <1>1, <1>4, <1>5
<1> QED
  BY <1>6 DEF class

(* What a match depends on is a match further on in the pattern.           *)
LEMMA MatchLooksAhead ==
  ASSUME NEW pattern, Len(pattern) \in Nat, NEW name, Len(name) \in Nat, NEW q, NEW r,
         NEW p \in Nat, NEW n \in Nat,
         \A j \in Nat : \A m \in Nat : j > p => q[<<j, m>>] = r[<<j, m>>]
  PROVE  MatchAt(pattern, name, q, p, n) = MatchAt(pattern, name, r, p, n)
<1>1. CASE p > Len(pattern)
  BY <1>1 DEF MatchAt
<1>2. CASE p <= Len(pattern) /\ pattern[p] = "*"
  <2> DEFINE after == AfterStars(pattern, p)
  <2>1. after \in Nat /\ after > p
    BY <1>2, StarsEnd
  <2> HIDE DEF after
  <2>2. \A m \in n .. Len(name) + 1 : q[<<after, m>>] = r[<<after, m>>]
    BY <2>1
  <2>3. ~(p > Len(pattern))
    BY <1>2
  <2>4. ASSUME NEW f
        PROVE  MatchAt(pattern, name, f, p, n) =
                 \E m \in n .. Len(name) + 1 :
                   (\A i \in n .. m - 1 : name[i] \notin Separators) /\ f[<<after, m>>]
    BY <1>2, <2>3, Zenon DEF MatchAt, after
  <2>5. (\E m \in n .. Len(name) + 1 :
           (\A i \in n .. m - 1 : name[i] \notin Separators) /\ q[<<after, m>>])
        <=> \E m \in n .. Len(name) + 1 :
              (\A i \in n .. m - 1 : name[i] \notin Separators) /\ r[<<after, m>>]
    BY <2>2, Zenon
  <2> QED
    BY <2>4, <2>5
<1>3. CASE p <= Len(pattern) /\ pattern[p] = "?"
  <2>1. q[<<p + 1, n + 1>>] = r[<<p + 1, n + 1>>]
    OBVIOUS
  <2> QED
    BY <1>3, <2>1 DEF MatchAt
<1>4. CASE p <= Len(pattern) /\ pattern[p] = "["
  <2> DEFINE class == MatchClass(pattern, p, At(name, n))
  <2>1. class.closed => q[<<class.next, n + 1>>] = r[<<class.next, n + 1>>]
    BY ClassGoesForward
  <2>2. ~(p > Len(pattern)) /\ pattern[p] # "*" /\ pattern[p] # "?"
    BY <1>4
  <2>3. ASSUME NEW f
        PROVE  MatchAt(pattern, name, f, p, n) =
                 IF class.closed THEN class.matched /\ f[<<class.next, n + 1>>]
                 ELSE At(name, n) = {"["}
    BY <1>4, <2>2, Zenon DEF MatchAt
  <2> HIDE DEF class
  <2> QED
    BY <2>1, <2>3
<1>5. CASE p <= Len(pattern) /\ pattern[p] \notin {"*", "?", "["}
  <2>1. q[<<p + 1, n + 1>>] = r[<<p + 1, n + 1>>]
    OBVIOUS
  <2> QED
    BY <1>5, <2>1 DEF MatchAt
<1> QED
  BY <1>1, <1>2, <1>3, <1>4, <1>5

LEMMA MatchingExists ==
  ASSUME NEW pattern, Len(pattern) \in Nat, NEW name, Len(name) \in Nat
  PROVE  \E matches : IsMatching(matches, pattern, name)
<1> DEFINE Value(q, p, n) == MatchAt(pattern, name, q, p, n)
           Pass(q) == [place \in Nat \X Nat |-> Value(q, place[1], place[2])]
           T == {k \in Nat : \E q : \A p \in Nat : \A n \in Nat :
                               p + k > Len(pattern) => q[<<p, n>>] = Value(q, p, n)}
<1>0. ASSUME NEW q, NEW p \in Nat, NEW n \in Nat PROVE Pass(q)[<<p, n>>] = Value(q, p, n)
  <2> HIDE DEF Value
  <2> QED
    OBVIOUS
<1>1. 0 \in T
  <2>1. ASSUME NEW p \in Nat, NEW n \in Nat, p > Len(pattern)
        PROVE  Pass(<< >>)[<<p, n>>] = Value(Pass(<< >>), p, n)
    <3>1. ASSUME NEW f PROVE Value(f, p, n) = (n = Len(name) + 1)
      BY <2>1 DEF MatchAt
    <3> HIDE DEF Value, Pass
    <3> QED
      BY <1>0, <3>1
  <2> HIDE DEF Pass, Value
  <2>2. \A p \in Nat : \A n \in Nat : p + 0 > Len(pattern) =>
          Pass(<< >>)[<<p, n>>] = Value(Pass(<< >>), p, n)
    BY <2>1
  <2> QED
    BY <2>2
<1>2. ASSUME NEW k \in Nat, k \in T PROVE k + 1 \in T
  <2> HIDE DEF Value, Pass
  <2>1. PICK q : \A p \in Nat : \A n \in Nat :
                   p + k > Len(pattern) => q[<<p, n>>] = Value(q, p, n)
    BY <1>2
  <2>2. ASSUME NEW p \in Nat, NEW n \in Nat, p + (k + 1) > Len(pattern)
        PROVE  Pass(q)[<<p, n>>] = Value(Pass(q), p, n)
    <3>1. \A j \in Nat : \A m \in Nat : j > p => q[<<j, m>>] = Pass(q)[<<j, m>>]
      BY <1>0, <2>1, <2>2
    <3>2. Value(q, p, n) = Value(Pass(q), p, n)
      BY <3>1, MatchLooksAhead DEF Value
    <3> QED
      BY <1>0, <3>2
  <2> DEFINE r == Pass(q)
  <2>3. \A p \in Nat : \A n \in Nat :
          p + (k + 1) > Len(pattern) => r[<<p, n>>] = Value(r, p, n)
    BY <2>2
  <2> HIDE DEF r
  <2>4. k + 1 \in Nat
    OBVIOUS
  <2> QED
    BY <2>3, <2>4, Zenon
<1> HIDE DEF Value, Pass
<1>3. Nat \subseteq T
  <2> HIDE DEF T
  <2> QED
    BY <1>1, <1>2, NumberInduction
<1>4. PICK q : \A p \in Nat : \A n \in Nat : q[<<p, n>>] = Value(q, p, n)
  <2>1. Len(pattern) + 1 \in T
    <3> HIDE DEF T
    <3> QED
      BY <1>3
  <2>2. PICK q : \A p \in Nat : \A n \in Nat :
                   p + (Len(pattern) + 1) > Len(pattern) => q[<<p, n>>] = Value(q, p, n)
    BY <2>1
  <2>3. \A p \in Nat : p + (Len(pattern) + 1) > Len(pattern)
    OBVIOUS
  <2>4. \A p \in Nat : \A n \in Nat : q[<<p, n>>] = Value(q, p, n)
    BY <2>2, <2>3
  <2> QED
    BY <2>4
<1>5. \A p \in Nat : \A n \in Nat : Value(q, p, n) = Value(Pass(q), p, n)
  <2>1. \A p \in Nat : \A n \in Nat : q[<<p, n>>] = Pass(q)[<<p, n>>]
    BY <1>0, <1>4
  <2> QED
    BY <2>1, MatchLooksAhead DEF Value
<1>6. Pass(q) = Pass(Pass(q))
  <2>1. \A place \in Nat \X Nat :
          Value(q, place[1], place[2]) = Value(Pass(q), place[1], place[2])
    BY <1>5
  <2> QED
    BY <2>1 DEF Pass
<1>7. ASSUME NEW f PROVE f = Pass(f) => IsMatching(f, pattern, name)
  BY DEF IsMatching, Pass, Value
<1> QED
  BY <1>6, <1>7

LEMMA MatchingEquation ==
  ASSUME NEW pattern, Len(pattern) \in Nat, NEW name, Len(name) \in Nat,
         NEW p \in Nat, NEW n \in Nat
  PROVE  Matching(pattern, name)[<<p, n>>] =
           MatchAt(pattern, name, Matching(pattern, name), p, n)
<1> DEFINE matches == Matching(pattern, name)
<1>1. IsMatching(matches, pattern, name)
  BY MatchingExists, Zenon DEF Matching
<1> HIDE DEF matches
<1>2. <<p, n>> \in Nat \X Nat /\ <<p, n>>[1] = p /\ <<p, n>>[2] = n
  OBVIOUS
<1>3. matches[<<p, n>>] = MatchAt(pattern, name, matches, <<p, n>>[1], <<p, n>>[2])
  BY <1>1, <1>2, Zenon DEF IsMatching
<1> QED
  BY <1>2, <1>3, Zenon DEF matches

-----------------------------------------------------------------------------
(* What a pattern denotes                                                  *)

Item(many, chars) == [many |-> many, chars |-> chars]

ItemsAt(pattern, from, p) ==
  IF p > Len(pattern) THEN << >>
  ELSE IF pattern[p] = "*"
  THEN <<[many |-> TRUE, chars |-> Characters \ Separators]>> \o from[p + 1]
  ELSE IF pattern[p] = "?"
  THEN <<[many |-> FALSE, chars |-> Characters \ Separators]>> \o from[p + 1]
  ELSE IF pattern[p] = "[" /\ ClassEnds(pattern, p) # {}
  THEN LET end == CHOOSE e \in ClassEnds(pattern, p) : TRUE
           negated == pattern[p + 1] \in {"^", "!"}
           chars == Members(pattern, IF negated THEN p + 2 ELSE p + 1, end - 1)
       IN  <<[many |-> FALSE, chars |-> IF negated THEN Characters \ chars ELSE chars]>>
           \o from[end + 1]
  ELSE <<[many |-> FALSE, chars |-> {pattern[p]}]>> \o from[p + 1]

AreItems(from, pattern) == from = [p \in Nat |-> ItemsAt(pattern, from, p)]

ItemsFrom(pattern) == CHOOSE from : AreItems(from, pattern)

LEMMA ItemsStart ==
  ASSUME NEW pattern
  PROVE  Items(pattern) = ItemsFrom(pattern)[1]
BY Zenon DEF Items, ItemsFrom, AreItems, ItemsAt

ClassEnd(pattern, p) == CHOOSE e \in ClassEnds(pattern, p) : TRUE

LEMMA ClassEndsBehind ==
  ASSUME NEW pattern, Len(pattern) \in Nat, NEW p \in Nat, ClassEnds(pattern, p) # {}
  PROVE  /\ ClassEnd(pattern, p) \in ClassEnds(pattern, p)
         /\ ClassEnd(pattern, p) \in Nat /\ ClassEnd(pattern, p) > p
<1>1. ClassEnd(pattern, p) \in ClassEnds(pattern, p)
  BY Zenon DEF ClassEnd
<1>2. ClassEnd(pattern, p) \in FirstMember(pattern, p) + 1 .. Len(pattern)
  BY <1>1, ClassEndsAre, Zenon
<1>3. FirstMember(pattern, p) \in Nat /\ FirstMember(pattern, p) > p
  BY DEF FirstMember
<1> QED
  BY <1>1, <1>2, <1>3

LEMMA ItemsLookAhead ==
  ASSUME NEW pattern, Len(pattern) \in Nat, NEW q, NEW r, NEW p \in Nat,
         \A j \in Nat : j > p => q[j] = r[j]
  PROVE  ItemsAt(pattern, q, p) = ItemsAt(pattern, r, p)
<1>1. q[p + 1] = r[p + 1]
  OBVIOUS
<1>2. ClassEnds(pattern, p) # {} =>
        q[(CHOOSE e \in ClassEnds(pattern, p) : TRUE) + 1]
          = r[(CHOOSE e \in ClassEnds(pattern, p) : TRUE) + 1]
  <2>1. ClassEnds(pattern, p) # {} => q[ClassEnd(pattern, p) + 1] = r[ClassEnd(pattern, p) + 1]
    BY ClassEndsBehind
  <2> QED
    BY <2>1, Zenon DEF ClassEnd
<1> QED
  BY <1>1, <1>2, Zenon DEF ItemsAt

LEMMA ItemsExist ==
  ASSUME NEW pattern, Len(pattern) \in Nat
  PROVE  \E from : AreItems(from, pattern)
<1> DEFINE Value(q, p) == ItemsAt(pattern, q, p)
           Pass(q) == [p \in Nat |-> Value(q, p)]
           T == {k \in Nat : \E q : \A p \in Nat : p + k > Len(pattern) => q[p] = Value(q, p)}
<1>0. ASSUME NEW q, NEW p \in Nat PROVE Pass(q)[p] = Value(q, p)
  <2> HIDE DEF Value
  <2> QED
    OBVIOUS
<1>1. 0 \in T
  <2>1. ASSUME NEW p \in Nat, p > Len(pattern)
        PROVE  Pass(<< >>)[p] = Value(Pass(<< >>), p)
    <3>1. ASSUME NEW f PROVE Value(f, p) = << >>
      BY <2>1 DEF ItemsAt
    <3> HIDE DEF Value, Pass
    <3> QED
      BY <1>0, <3>1
  <2> HIDE DEF Pass, Value
  <2>2. \A p \in Nat : p + 0 > Len(pattern) => Pass(<< >>)[p] = Value(Pass(<< >>), p)
    BY <2>1
  <2> QED
    BY <2>2
<1>2. ASSUME NEW k \in Nat, k \in T PROVE k + 1 \in T
  <2> HIDE DEF Value, Pass
  <2>1. PICK q : \A p \in Nat : p + k > Len(pattern) => q[p] = Value(q, p)
    BY <1>2
  <2>2. ASSUME NEW p \in Nat, p + (k + 1) > Len(pattern)
        PROVE  Pass(q)[p] = Value(Pass(q), p)
    <3>1. \A j \in Nat : j > p => q[j] = Pass(q)[j]
      BY <1>0, <2>1, <2>2
    <3>2. Value(q, p) = Value(Pass(q), p)
      BY <3>1, ItemsLookAhead DEF Value
    <3> QED
      BY <1>0, <3>2
  <2> DEFINE r == Pass(q)
  <2>3. \A p \in Nat : p + (k + 1) > Len(pattern) => r[p] = Value(r, p)
    BY <2>2
  <2> HIDE DEF r
  <2>4. k + 1 \in Nat
    OBVIOUS
  <2> QED
    BY <2>3, <2>4, Zenon
<1> HIDE DEF Value, Pass
<1>3. Nat \subseteq T
  <2> HIDE DEF T
  <2> QED
    BY <1>1, <1>2, NumberInduction
<1>4. PICK q : \A p \in Nat : q[p] = Value(q, p)
  <2>1. Len(pattern) + 1 \in T
    <3> HIDE DEF T
    <3> QED
      BY <1>3
  <2>2. PICK q : \A p \in Nat : p + (Len(pattern) + 1) > Len(pattern) => q[p] = Value(q, p)
    BY <2>1
  <2>3. \A p \in Nat : p + (Len(pattern) + 1) > Len(pattern)
    OBVIOUS
  <2>4. \A p \in Nat : q[p] = Value(q, p)
    BY <2>2, <2>3
  <2> QED
    BY <2>4
<1>5. \A p \in Nat : Value(q, p) = Value(Pass(q), p)
  <2>1. \A p \in Nat : q[p] = Pass(q)[p]
    BY <1>0, <1>4
  <2> QED
    BY <2>1, ItemsLookAhead DEF Value
<1>6. Pass(q) = Pass(Pass(q))
  BY <1>5 DEF Pass
<1>7. ASSUME NEW f PROVE f = Pass(f) => AreItems(f, pattern)
  BY DEF AreItems, Pass, Value
<1> QED
  BY <1>6, <1>7

LEMMA ItemsEquation ==
  ASSUME NEW pattern, Len(pattern) \in Nat, NEW p \in Nat
  PROVE  ItemsFrom(pattern)[p] = ItemsAt(pattern, ItemsFrom(pattern), p)
<1> DEFINE from == ItemsFrom(pattern)
<1>1. AreItems(from, pattern)
  BY ItemsExist, Zenon DEF ItemsFrom
<1> HIDE DEF from
<1>2. from[p] = ItemsAt(pattern, from, p)
  BY <1>1, Zenon DEF AreItems
<1> QED
  BY <1>2 DEF from

(* One item more.                                                          *)
OneItem(item, items) == <<item>> \o items

LEMMA OneItemMore ==
  ASSUME NEW item, NEW items, IsSeq(items)
  PROVE  /\ IsSeq(OneItem(item, items))
         /\ Len(OneItem(item, items)) = Len(items) + 1
         /\ OneItem(item, items)[1] = item
         /\ \A i \in 1 .. Len(items) : OneItem(item, items)[i + 1] = items[i]
<1> DEFINE S == ToSet(items) \cup {item}
           all == OneItem(item, items)
<1>1. items \in Seq(S) /\ item \in S
  BY DEF IsSeq
<1> HIDE DEF S
<1>2. /\ all \in Seq(S)
      /\ Len(all) = Len(items) + 1
      /\ all[1] = item
      /\ \A i \in 1 .. Len(items) : all[i + 1] = items[i]
  BY <1>1 DEF OneItem
<1> QED
  BY <1>2, MembersAreSeqs

LEMMA ItemsAreSeqs ==
  ASSUME NEW pattern, Len(pattern) \in Nat, NEW p \in Nat
  PROVE  IsSeq(ItemsFrom(pattern)[p])
<1> DEFINE from == ItemsFrom(pattern)
           T == {k \in Nat : IsSeq(from[k])}
<1>0. \A k \in Nat : from[k] = ItemsAt(pattern, from, k)
  BY ItemsEquation
<1> HIDE DEF from
<1>1. ASSUME NEW k \in Nat, k > Len(pattern) PROVE k \in T
  <2>1. from[k] = << >>
    BY <1>0, <1>1 DEF ItemsAt
  <2> QED
    BY <2>1, EmptyIsSeq
<1>2. ASSUME NEW k \in 0 .. Len(pattern), \A j \in Nat : j > k => j \in T PROVE k \in T
  <2>1. k \in Nat /\ ~(k > Len(pattern)) /\ IsSeq(from[k + 1])
    BY <1>2
  <2>2. ClassEnds(pattern, k) # {} => IsSeq(from[ClassEnd(pattern, k) + 1])
    BY <1>2, ClassEndsBehind
  <2>3. \E item, j : from[k] = OneItem(item, from[j]) /\ IsSeq(from[j])
    BY <1>0, <2>1, <2>2, Zenon DEF ItemsAt, OneItem, ClassEnd
  <2>4. IsSeq(from[k])
    BY <2>3, OneItemMore
  <2> QED
    BY <2>1, <2>4
<1>3. Nat \subseteq T
  <2> HIDE DEF T
  <2> QED
    BY <1>1, <1>2, BackwardInduction
<1> QED
  BY <1>3 DEF from

-----------------------------------------------------------------------------
(* Cuts                                                                    *)

Fits(item, name, from, to) ==
  /\ from <= to
  /\ item.many \/ to = from + 1
  /\ \A j \in from + 1 .. to : name[j] \in item.chars

IsCut(cut, items, name, n) ==
  /\ cut \in [0 .. Len(items) -> 0 .. Len(name)]
  /\ cut[0] = n - 1 /\ cut[Len(items)] = Len(name)
  /\ \A i \in DOMAIN items : Fits(items[i], name, cut[i - 1], cut[i])

(* The name from its n-th character on is what the items stand for.        *)
Denotes(items, name, n) == \E cut : IsCut(cut, items, name, n)

LEMMA PatternIsDenoted ==
  ASSUME NEW pattern, NEW name
  PROVE  PatternDenotes(pattern, name) <=> Denotes(Items(pattern), name, 1)
<1>1. 1 - 1 = 0
  OBVIOUS
<1> QED
  BY <1>1, Zenon DEF PatternDenotes, Denotes, IsCut, Fits

LEMMA NothingLeft ==
  ASSUME NEW name, Len(name) \in Nat, NEW n \in Nat
  PROVE  Denotes(<< >>, name, n) <=> n = Len(name) + 1
<1>1. Len(<< >>) = 0 /\ DOMAIN << >> = {}
  OBVIOUS
<1>2. ASSUME NEW cut, IsCut(cut, << >>, name, n) PROVE n = Len(name) + 1
  BY <1>1, <1>2 DEF IsCut
<1>3. ASSUME n = Len(name) + 1 PROVE Denotes(<< >>, name, n)
  <2> DEFINE cut == [i \in 0 .. 0 |-> Len(name)]
  <2>1. IsCut(cut, << >>, name, n)
    BY <1>1, <1>3 DEF IsCut
  <2> QED
    BY <2>1 DEF Denotes
<1> QED
  BY <1>2, <1>3 DEF Denotes

LEMMA CutOff ==
  ASSUME NEW item, NEW items, IsSeq(items), NEW name, Len(name) \in Nat,
         NEW n \in 1 .. Len(name) + 1
  PROVE  Denotes(OneItem(item, items), name, n) <=>
           \E m \in n .. Len(name) + 1 :
             Fits(item, name, n - 1, m - 1) /\ Denotes(items, name, m)
<1> DEFINE all == OneItem(item, items)
           L == Len(items)
<1>1. /\ L \in Nat /\ DOMAIN items = 1 .. L
      /\ Len(all) = L + 1 /\ DOMAIN all = 1 .. L + 1
      /\ all[1] = item /\ \A i \in 1 .. L : all[i + 1] = items[i]
  BY OneItemMore, SeqIsFunction
<1> HIDE DEF all, L
<1>2. ASSUME NEW cut, IsCut(cut, all, name, n)
      PROVE  \E m \in n .. Len(name) + 1 :
               Fits(item, name, n - 1, m - 1) /\ Denotes(items, name, m)
  <2> DEFINE m == cut[1] + 1
             later == [i \in 0 .. L |-> cut[i + 1]]
  <2>1. /\ cut \in [0 .. L + 1 -> 0 .. Len(name)]
        /\ cut[0] = n - 1 /\ cut[L + 1] = Len(name)
        /\ \A i \in 1 .. L + 1 : Fits(all[i], name, cut[i - 1], cut[i])
    BY <1>1, <1>2 DEF IsCut
  <2>2. cut[1] \in 0 .. Len(name)
    BY <1>1, <2>1
  <2>3. Fits(item, name, n - 1, cut[1])
    <3>1. 1 \in 1 .. L + 1 /\ 1 - 1 = 0
      BY <1>1
    <3>2. Fits(all[1], name, cut[1 - 1], cut[1])
      BY <2>1, <3>1
    <3> QED
      BY <1>1, <2>1, <3>1, <3>2
  <2>4. n - 1 <= cut[1]
    BY <2>3 DEF Fits
  <2>5. m \in n .. Len(name) + 1 /\ m - 1 = cut[1]
    BY <2>2, <2>4
  <2>6. IsCut(later, items, name, m)
    <3>1. later \in [0 .. L -> 0 .. Len(name)]
      BY <1>1, <2>1
    <3>2. later[0] = m - 1 /\ later[L] = Len(name)
      BY <1>1, <2>1, <2>5
    <3>3. ASSUME NEW i \in 1 .. L PROVE Fits(items[i], name, later[i - 1], later[i])
      <4>1. i + 1 \in 1 .. L + 1 /\ (i + 1) - 1 = i /\ i - 1 \in 0 .. L /\ i \in 0 .. L
        BY <1>1
      <4>2. Fits(all[i + 1], name, cut[i], cut[i + 1])
        BY <2>1, <4>1
      <4>3. later[i] = cut[i + 1] /\ later[i - 1] = cut[i]
        BY <4>1
      <4> QED
        BY <1>1, <4>2, <4>3
    <3> HIDE DEF later, m
    <3> QED
      BY <1>1, <3>1, <3>2, <3>3 DEF IsCut, L
  <2> HIDE DEF m, later
  <2>7. Denotes(items, name, m)
    BY <2>6 DEF Denotes
  <2> QED
    BY <2>3, <2>5, <2>7
<1>3. ASSUME NEW m \in n .. Len(name) + 1, Fits(item, name, n - 1, m - 1),
             NEW later, IsCut(later, items, name, m)
      PROVE  Denotes(all, name, n)
  <2> DEFINE cut == [i \in 0 .. L + 1 |-> IF i = 0 THEN n - 1 ELSE later[i - 1]]
  <2>1. /\ later \in [0 .. L -> 0 .. Len(name)]
        /\ later[0] = m - 1 /\ later[L] = Len(name)
        /\ \A i \in 1 .. L : Fits(items[i], name, later[i - 1], later[i])
    BY <1>1, <1>3 DEF IsCut, L
  <2>2. cut \in [0 .. L + 1 -> 0 .. Len(name)]
    <3>1. ASSUME NEW i \in 0 .. L + 1 PROVE cut[i] \in 0 .. Len(name)
      <4>1. CASE i = 0
        BY <4>1
      <4>2. CASE i # 0
        <5>1. i - 1 \in 0 .. L
          BY <1>1, <4>2
        <5> QED
          BY <2>1, <4>2, <5>1
      <4> QED
        BY <4>1, <4>2
    <3> QED
      BY <3>1
  <2>3. cut[0] = n - 1 /\ cut[L + 1] = Len(name) /\ cut[1] = m - 1
    BY <1>1, <2>1
  <2>4. ASSUME NEW i \in 1 .. L + 1 PROVE Fits(all[i], name, cut[i - 1], cut[i])
    <3>1. CASE i = 1
      <4>1. i - 1 = 0
        BY <3>1
      <4> QED
        BY <1>1, <1>3, <2>3, <3>1, <4>1
    <3>2. CASE i # 1
      <4>1. /\ i - 1 \in 1 .. L /\ (i - 1) + 1 = i /\ i \in 0 .. L + 1 /\ i # 0
            /\ i - 1 \in 0 .. L + 1 /\ i - 1 # 0
        BY <1>1, <3>2
      <4>2. Fits(items[i - 1], name, later[(i - 1) - 1], later[i - 1])
        BY <2>1, <4>1
      <4>3. cut[i] = later[i - 1] /\ cut[i - 1] = later[(i - 1) - 1]
        BY <4>1
      <4>4. all[i] = items[i - 1]
        BY <1>1, <4>1
      <4> QED
        BY <4>2, <4>3, <4>4
    <3> QED
      BY <3>1, <3>2
  <2> HIDE DEF cut
  <2>5. IsCut(cut, all, name, n)
    BY <1>1, <2>2, <2>3, <2>4 DEF IsCut
  <2> QED
    BY <2>5 DEF Denotes
<1> QED
  BY <1>2, <1>3, Zenon DEF Denotes, all

(* A single character of the name.                                         *)
LEMMA CharacterCut ==
  ASSUME NEW chars, NEW items, IsSeq(items), NEW name, Len(name) \in Nat,
         NEW n \in 1 .. Len(name) + 1
  PROVE  Denotes(OneItem(Item(FALSE, chars), items), name, n) <=>
           n <= Len(name) /\ name[n] \in chars /\ Denotes(items, name, n + 1)
<1> DEFINE item == Item(FALSE, chars)
<1>1. item.many = FALSE /\ item.chars = chars
  BY DEF Item
<1> HIDE DEF item
<1>2. ASSUME NEW m \in n .. Len(name) + 1
      PROVE  Fits(item, name, n - 1, m - 1) <=> m = n + 1 /\ name[n] \in chars
  <2>1. CASE m = n + 1
    <3>1. m - 1 = n /\ (n - 1) + 1 = n
      BY <2>1
    <3>2. Fits(item, name, n - 1, m - 1) <=> \A j \in n .. n : name[j] \in chars
      BY <1>1, <3>1 DEF Fits
    <3>3. n .. n = {n}
      OBVIOUS
    <3> QED
      BY <2>1, <3>2, <3>3
  <2>2. CASE m # n + 1
    BY <1>1, <2>2 DEF Fits
  <2> QED
    BY <2>1, <2>2
<1>3. Denotes(OneItem(item, items), name, n) <=>
        \E m \in n .. Len(name) + 1 :
          Fits(item, name, n - 1, m - 1) /\ Denotes(items, name, m)
  BY CutOff
<1>4. n + 1 \in n .. Len(name) + 1 <=> n <= Len(name)
  OBVIOUS
<1>5. Denotes(OneItem(item, items), name, n) <=>
        n <= Len(name) /\ name[n] \in chars /\ Denotes(items, name, n + 1)
  BY <1>2, <1>3, <1>4
<1> QED
  BY <1>5 DEF item

(* No separator stands between these places.                               *)
NoSeparator(name, n, m) == \A i \in n .. m - 1 : name[i] \notin Separators

LEMMA StarCut ==
  ASSUME NEW items, IsSeq(items), NEW name \in Seq(Characters), NEW n \in 1 .. Len(name) + 1
  PROVE  Denotes(OneItem(Item(TRUE, Characters \ Separators), items), name, n) <=>
           \E m \in n .. Len(name) + 1 : NoSeparator(name, n, m) /\ Denotes(items, name, m)
<1> DEFINE item == Item(TRUE, Characters \ Separators)
<1>0. Len(name) \in Nat /\ \A i \in 1 .. Len(name) : name[i] \in Characters
  OBVIOUS
<1>1. item.many = TRUE /\ item.chars = Characters \ Separators
  BY DEF Item
<1> HIDE DEF item
<1>2. ASSUME NEW m \in n .. Len(name) + 1
      PROVE  Fits(item, name, n - 1, m - 1) <=> NoSeparator(name, n, m)
  <2>1. n - 1 <= m - 1 /\ (n - 1) + 1 = n
    OBVIOUS
  <2>2. \A i \in n .. m - 1 : name[i] \in Characters
    BY <1>0
  <2> QED
    BY <1>1, <2>1, <2>2 DEF Fits, NoSeparator
<1>3. Denotes(OneItem(item, items), name, n) <=>
        \E m \in n .. Len(name) + 1 :
          Fits(item, name, n - 1, m - 1) /\ Denotes(items, name, m)
  BY <1>0, CutOff
<1>4. Denotes(OneItem(item, items), name, n) <=>
        \E m \in n .. Len(name) + 1 : NoSeparator(name, n, m) /\ Denotes(items, name, m)
  BY <1>2, <1>3, Zenon
<1> QED
  BY <1>4 DEF item

LEMMA OneStar ==
  ASSUME NEW pattern, Len(pattern) \in Nat, NEW p \in Nat, p <= Len(pattern),
         pattern[p] = "*", p + 1 <= Len(pattern) => pattern[p + 1] # "*"
  PROVE  AfterStars(pattern, p) = p + 1
<1>1. /\ AfterStars(pattern, p) \in p + 1 .. Len(pattern) + 1
      /\ \A i \in p .. AfterStars(pattern, p) - 1 : pattern[i] = "*"
  BY StarsEnd
<1>2. ASSUME AfterStars(pattern, p) # p + 1 PROVE FALSE
  <2>1. p + 1 \in p .. AfterStars(pattern, p) - 1 /\ p + 1 <= Len(pattern)
    BY <1>1, <1>2
  <2> QED
    BY <1>1, <2>1
<1> QED
  BY <1>2

LEMMA TwoStars ==
  ASSUME NEW pattern, Len(pattern) \in Nat, NEW p \in Nat, p + 1 <= Len(pattern),
         pattern[p] = "*", pattern[p + 1] = "*"
  PROVE  AfterStars(pattern, p) = AfterStars(pattern, p + 1)
<1> DEFINE a == AfterStars(pattern, p)
           b == AfterStars(pattern, p + 1)
<1>1. /\ a \in p + 1 .. Len(pattern) + 1
      /\ \A i \in p .. a - 1 : pattern[i] = "*"
      /\ a <= Len(pattern) => pattern[a] # "*"
  BY StarsEnd
<1>2. /\ b \in (p + 1) + 1 .. Len(pattern) + 1
      /\ \A i \in p + 1 .. b - 1 : pattern[i] = "*"
      /\ b <= Len(pattern) => pattern[b] # "*"
  BY StarsEnd
<1> HIDE DEF a, b
<1>3. ~(a < b)
  <2> SUFFICES ASSUME a < b PROVE FALSE
    OBVIOUS
  <2>1. a \in p + 1 .. b - 1 /\ a <= Len(pattern)
    BY <1>1, <1>2
  <2> QED
    BY <1>1, <1>2, <2>1
<1>4. ~(b < a)
  <2> SUFFICES ASSUME b < a PROVE FALSE
    OBVIOUS
  <2>1. b \in p .. a - 1 /\ b <= Len(pattern)
    BY <1>1, <1>2
  <2> QED
    BY <1>1, <1>2, <2>1
<1>5. a = b
  BY <1>1, <1>2, <1>3, <1>4
<1> QED
  BY <1>5 DEF a, b

LEMMA OneClassEnd ==
  ASSUME NEW pattern, Len(pattern) \in Nat, NEW p \in Nat,
         NEW e \in ClassEnds(pattern, p), NEW f \in ClassEnds(pattern, p)
  PROVE  e = f
<1>1. /\ e \in FirstMember(pattern, p) + 1 .. Len(pattern)
      /\ pattern[e] = "]"
      /\ \A i \in FirstMember(pattern, p) + 1 .. e - 1 : pattern[i] # "]"
  BY ClassEndsAre, Zenon
<1>2. /\ f \in FirstMember(pattern, p) + 1 .. Len(pattern)
      /\ pattern[f] = "]"
      /\ \A i \in FirstMember(pattern, p) + 1 .. f - 1 : pattern[i] # "]"
  BY ClassEndsAre, Zenon
<1>3. FirstMember(pattern, p) \in Nat
  BY DEF FirstMember
<1>4. ~(e < f)
  BY <1>1, <1>2, <1>3
<1>5. ~(f < e)
  BY <1>1, <1>2, <1>3
<1> QED
  BY <1>1, <1>2, <1>3, <1>4, <1>5

LEMMA WellFormedClass ==
  ASSUME NEW pattern, IsSeq(pattern), WellFormed(pattern), NEW p \in 1 .. Len(pattern),
         pattern[p] = "["
  PROVE  ClassIs(pattern, p, ClassEnd(pattern, p))
<1>1. p \in DOMAIN pattern /\ Len(pattern) \in Nat /\ p \in Nat
  BY SeqIsFunction
<1>2. PICK end \in ClassEnds(pattern, p) : ClassIs(pattern, p, end)
  BY <1>1, Zenon DEF WellFormed, ClassIs
<1>3. ClassEnd(pattern, p) \in ClassEnds(pattern, p)
  BY <1>1, <1>2, ClassEndsBehind
<1>4. ClassEnd(pattern, p) = end
  BY <1>1, <1>2, <1>3, OneClassEnd
<1> QED
  BY <1>2, <1>4

-----------------------------------------------------------------------------
(* The matcher and the pattern                                             *)

(* What both say of the pattern from p on.                                 *)
Agrees(pattern, name, p) ==
  \A n \in 1 .. Len(name) + 1 :
    Matching(pattern, name)[<<p, n>>] <=> Denotes(ItemsFrom(pattern)[p], name, n)

LEMMA AgreeAtTheEnd ==
  ASSUME NEW pattern, Len(pattern) \in Nat, NEW name, Len(name) \in Nat, NEW p \in Nat,
         p > Len(pattern)
  PROVE  Agrees(pattern, name, p)
<1> SUFFICES ASSUME NEW n \in 1 .. Len(name) + 1
             PROVE  Matching(pattern, name)[<<p, n>>] <=> Denotes(ItemsFrom(pattern)[p], name, n)
  BY DEF Agrees
<1>1. Matching(pattern, name)[<<p, n>>] <=> n = Len(name) + 1
  <2>1. n \in Nat
    OBVIOUS
  <2>2. Matching(pattern, name)[<<p, n>>] =
          MatchAt(pattern, name, Matching(pattern, name), p, n)
    BY <2>1, MatchingEquation
  <2> QED
    BY <2>2, Zenon DEF MatchAt
<1>2. ItemsFrom(pattern)[p] = << >>
  BY ItemsEquation DEF ItemsAt
<1>3. Denotes(<< >>, name, n) <=> n = Len(name) + 1
  BY NothingLeft
<1> QED
  BY <1>1, <1>2, <1>3

LEMMA AgreeOnStar ==
  ASSUME NEW pattern, Len(pattern) \in Nat, NEW name \in Seq(Characters),
         NEW p \in 1 .. Len(pattern), pattern[p] = "*", Agrees(pattern, name, p + 1)
  PROVE  Agrees(pattern, name, p)
<1> DEFINE matches == Matching(pattern, name)
           from == ItemsFrom(pattern)
           after == AfterStars(pattern, p)
           Runs(n, m) == NoSeparator(name, n, m)
           D(n) == Denotes(from[p + 1], name, n)
<1> SUFFICES ASSUME NEW n \in 1 .. Len(name) + 1
             PROVE  matches[<<p, n>>] <=> Denotes(from[p], name, n)
  BY DEF Agrees
<1>0. p \in Nat /\ ~(p > Len(pattern)) /\ Len(name) \in Nat /\ p + 1 \in Nat
  OBVIOUS
<1>1. ASSUME NEW q \in Nat, q <= Len(pattern), pattern[q] = "*", NEW k \in Nat
      PROVE  matches[<<q, k>>] <=>
               \E m \in k .. Len(name) + 1 : Runs(k, m) /\ matches[<<AfterStars(pattern, q), m>>]
  <2>1. ~(q > Len(pattern))
    BY <1>0, <1>1
  <2>2. matches[<<q, k>>] = MatchAt(pattern, name, matches, q, k)
    BY <1>0, <1>1, MatchingEquation
  <2> HIDE DEF matches
  <2> QED
    BY <1>1, <2>1, <2>2, Zenon DEF MatchAt, NoSeparator
<1>2. from[p] = OneItem(Item(TRUE, Characters \ Separators), from[p + 1])
  <2>1. from[p] = ItemsAt(pattern, from, p)
    BY <1>0, ItemsEquation
  <2> HIDE DEF from
  <2> QED
    BY <1>0, <2>1, Zenon DEF ItemsAt, OneItem, Item
<1>3. IsSeq(from[p + 1])
  BY <1>0, ItemsAreSeqs
<1>4. Denotes(from[p], name, n) <=> \E m \in n .. Len(name) + 1 : Runs(n, m) /\ D(m)
  BY <1>2, <1>3, StarCut
<1>5. \A m \in 1 .. Len(name) + 1 : D(m) <=> matches[<<p + 1, m>>]
  BY DEF Agrees
<1>6. matches[<<p, n>>] <=> \E m \in n .. Len(name) + 1 : Runs(n, m) /\ matches[<<after, m>>]
  BY <1>0, <1>1
<1> HIDE DEF matches, from, after, D, Runs
<1>7. CASE p + 1 <= Len(pattern) => pattern[p + 1] # "*"
  <2>1. after = p + 1
    BY <1>0, <1>7, OneStar DEF after
  <2>2. \A m \in n .. Len(name) + 1 : m \in 1 .. Len(name) + 1
    BY <1>0
  <2> QED
    BY <1>4, <1>5, <1>6, <2>1, <2>2, Zenon
<1>8. CASE p + 1 <= Len(pattern) /\ pattern[p + 1] = "*"
  <2>1. after = AfterStars(pattern, p + 1)
    BY <1>0, <1>8, TwoStars DEF after
  <2>2. \A k \in 1 .. Len(name) + 1 :
          D(k) <=> \E m \in k .. Len(name) + 1 : Runs(k, m) /\ matches[<<after, m>>]
    <3> SUFFICES ASSUME NEW k \in 1 .. Len(name) + 1
                 PROVE  D(k) <=> \E m \in k .. Len(name) + 1 : Runs(k, m) /\ matches[<<after, m>>]
      OBVIOUS
    <3>1. k \in Nat
      BY <1>0
    <3>2. matches[<<p + 1, k>>] <=>
            \E m \in k .. Len(name) + 1 :
              Runs(k, m) /\ matches[<<AfterStars(pattern, p + 1), m>>]
      BY <1>0, <1>1, <1>8, <3>1
    <3> QED
      BY <1>5, <2>1, <3>2, Zenon
  <2>3. ASSUME matches[<<p, n>>] PROVE Denotes(from[p], name, n)
    <3>1. n \in n .. Len(name) + 1 /\ Runs(n, n) /\ n \in 1 .. Len(name) + 1
      BY <1>0 DEF Runs, NoSeparator
    <3>2. D(n)
      BY <1>6, <2>2, <2>3, <3>1
    <3> QED
      BY <1>4, <3>1, <3>2
  <2>4. ASSUME Denotes(from[p], name, n) PROVE matches[<<p, n>>]
    <3>1. PICK k \in n .. Len(name) + 1 : Runs(n, k) /\ D(k)
      BY <1>4, <2>4
    <3>2. PICK m \in k .. Len(name) + 1 : Runs(k, m) /\ matches[<<after, m>>]
      BY <1>0, <2>2, <3>1
    <3>3. Runs(n, m)
      <4>1. \A i \in n .. m - 1 : i \in n .. k - 1 \/ i \in k .. m - 1
        BY <1>0
      <4> QED
        BY <3>1, <3>2, <4>1 DEF Runs, NoSeparator
    <3>4. m \in n .. Len(name) + 1
      BY <1>0
    <3> QED
      BY <1>6, <3>2, <3>3, <3>4
  <2> QED
    BY <2>3, <2>4
<1> QED
  BY <1>7, <1>8

LEMMA AgreeOnClass ==
  ASSUME NEW pattern, IsSeq(pattern), WellFormed(pattern), NEW name \in Seq(Characters),
         NEW p \in 1 .. Len(pattern), pattern[p] = "[",
         \A j \in Nat : j > p => Agrees(pattern, name, j)
  PROVE  Agrees(pattern, name, p)
<1> DEFINE matches == Matching(pattern, name)
           from == ItemsFrom(pattern)
           end == ClassEnd(pattern, p)
           members == Members(pattern, FirstMember(pattern, p), end - 1)
           negated == Negated(pattern, p)
           chars == IF negated THEN Characters \ members ELSE members
<1> SUFFICES ASSUME NEW n \in 1 .. Len(name) + 1
             PROVE  matches[<<p, n>>] <=> Denotes(from[p], name, n)
  BY DEF Agrees
<1>0. /\ Len(pattern) \in Nat /\ p \in Nat /\ ~(p > Len(pattern)) /\ n \in Nat
      /\ Len(name) \in Nat /\ \A i \in 1 .. Len(name) : name[i] \in Characters
  BY SeqIsFunction
<1>1. ClassIs(pattern, p, end)
  BY WellFormedClass
<1>2. end \in ClassEnds(pattern, p) /\ ClassEnds(pattern, p) # {} /\ end \in Nat /\ end > p
  BY <1>0, <1>1, ClassEndsBehind DEF ClassIs
<1>3. negated <=> pattern[p + 1] \in {"^", "!"}
  <2>1. end \in FirstMember(pattern, p) + 1 .. Len(pattern)
    BY <1>2, ClassEndsAre, Zenon
  <2>2. p < Len(pattern)
    BY <1>0, <2>1 DEF FirstMember
  <2> QED
    BY <2>2 DEF Negated
<1>4. from[p] = OneItem(Item(FALSE, chars), from[end + 1])
  <2>1. from[p] = ItemsAt(pattern, from, p)
    BY <1>0, ItemsEquation
  <2>2. ~(p > Len(pattern)) /\ pattern[p] # "*" /\ pattern[p] # "?"
    BY <1>0
  <2>3. FirstMember(pattern, p) = IF pattern[p + 1] \in {"^", "!"} THEN p + 2 ELSE p + 1
    BY <1>3, Zenon DEF FirstMember
  <2>4. chars = IF pattern[p + 1] \in {"^", "!"} THEN Characters \ members ELSE members
    BY <1>3, Zenon
  <2>5. members = Members(pattern, IF pattern[p + 1] \in {"^", "!"} THEN p + 2 ELSE p + 1, end - 1)
    BY <2>3, Zenon
  <2> HIDE DEF from, chars, members
  <2>6. from[p] = <<[many |-> FALSE,
                     chars |-> IF pattern[p + 1] \in {"^", "!"}
                               THEN Characters \ Members(pattern,
                                      IF pattern[p + 1] \in {"^", "!"} THEN p + 2 ELSE p + 1, end - 1)
                               ELSE Members(pattern,
                                      IF pattern[p + 1] \in {"^", "!"} THEN p + 2 ELSE p + 1, end - 1)]>>
                    \o from[end + 1]
    BY <1>2, <2>1, <2>2, Zenon DEF ItemsAt, ClassEnd
  <2> QED
    BY <2>4, <2>5, <2>6, Zenon DEF OneItem, Item
<1>5. IsSeq(from[end + 1])
  BY <1>0, <1>2, ItemsAreSeqs
<1>6. Denotes(from[p], name, n) <=>
        n <= Len(name) /\ name[n] \in chars /\ Denotes(from[end + 1], name, n + 1)
  <2> HIDE DEF from, chars, end
  <2>1. Denotes(OneItem(Item(FALSE, chars), from[end + 1]), name, n) <=>
          n <= Len(name) /\ name[n] \in chars /\ Denotes(from[end + 1], name, n + 1)
    BY <1>0, <1>5, CharacterCut
  <2> QED
    BY <1>4, <2>1, Zenon
<1>7. n <= Len(name) =>
        (Denotes(from[end + 1], name, n + 1) <=> matches[<<end + 1, n + 1>>])
  <2>1. Agrees(pattern, name, end + 1)
    BY <1>0, <1>2
  <2> QED
    BY <1>0, <2>1 DEF Agrees
<1> DEFINE class == MatchClass(pattern, p, At(name, n))
<1>8. matches[<<p, n>>] <=>
        IF class.closed THEN class.matched /\ matches[<<class.next, n + 1>>]
        ELSE At(name, n) = {"["}
  <2>1. matches[<<p, n>>] = MatchAt(pattern, name, matches, p, n)
    BY <1>0, MatchingEquation
  <2>2. ~(p > Len(pattern)) /\ pattern[p] # "*" /\ pattern[p] # "?"
    BY <1>0
  <2> HIDE DEF matches, class
  <2> QED
    BY <2>1, <2>2, Zenon DEF MatchAt, class
<1>9. /\ class.closed = TRUE /\ class.next = end + 1
      /\ class.matched <=> /\ At(name, n) # {}
                           /\ (\E ch \in At(name, n) : ch \in members) # negated
  <2>1. At(name, n) \subseteq Characters
    BY <1>0 DEF At
  <2> QED
    <3>1. Len(pattern) \in Nat /\ p \in Nat /\ ClassIs(pattern, p, end)
      BY <1>0, <1>1
    <3> HIDE DEF end, class, members, negated
    <3>2. /\ MatchClass(pattern, p, At(name, n)).closed = TRUE
          /\ MatchClass(pattern, p, At(name, n)).next = end + 1
          /\ MatchClass(pattern, p, At(name, n)).matched <=>
               /\ At(name, n) # {}
               /\ (\E ch \in At(name, n) :
                      ch \in Members(pattern, FirstMember(pattern, p), end - 1))
                    # Negated(pattern, p)
      BY <2>1, <3>1, ClassMatchesMembers, Zenon
    <3> QED
      BY <3>2, Zenon DEF class, members, negated
<1>10. class.matched <=> n <= Len(name) /\ name[n] \in chars
  <2>1. negated \in BOOLEAN
    BY DEF Negated
  <2>2. CASE n <= Len(name)
    <3>1. At(name, n) = {name[n]} /\ name[n] \in Characters
      BY <1>0, <2>2 DEF At
    <3> HIDE DEF negated, members, class, chars
    <3>2. (\E ch \in At(name, n) : ch \in members) <=> name[n] \in members
      BY <3>1
    <3>3. class.matched <=> (\E ch \in At(name, n) : ch \in members) # negated
      BY <1>9, <3>1
    <3>4. CASE negated = TRUE
      BY <2>2, <3>1, <3>2, <3>3, <3>4 DEF chars
    <3>5. CASE negated = FALSE
      BY <2>2, <3>1, <3>2, <3>3, <3>5 DEF chars
    <3> QED
      BY <2>1, <3>4, <3>5
  <2>3. CASE ~(n <= Len(name))
    <3>1. At(name, n) = {}
      BY <2>3 DEF At
    <3> QED
      BY <1>9, <2>3, <3>1
  <2> QED
    BY <2>2, <2>3
<1> HIDE DEF matches, from, end, chars, class
<1> QED
  BY <1>6, <1>7, <1>8, <1>9, <1>10

LEMMA AgreeOnCharacter ==
  ASSUME NEW pattern, Len(pattern) \in Nat, NEW name \in Seq(Characters),
         NEW p \in 1 .. Len(pattern), pattern[p] \notin {"*", "["},
         Agrees(pattern, name, p + 1)
  PROVE  Agrees(pattern, name, p)
<1> DEFINE matches == Matching(pattern, name)
           from == ItemsFrom(pattern)
           chars == IF pattern[p] = "?" THEN Characters \ Separators ELSE {pattern[p]}
<1> SUFFICES ASSUME NEW n \in 1 .. Len(name) + 1
             PROVE  matches[<<p, n>>] <=> Denotes(from[p], name, n)
  BY DEF Agrees
<1>0. /\ p \in Nat /\ ~(p > Len(pattern)) /\ n \in Nat /\ p + 1 \in Nat
      /\ Len(name) \in Nat /\ \A i \in 1 .. Len(name) : name[i] \in Characters
  OBVIOUS
<1>1. from[p] = OneItem(Item(FALSE, chars), from[p + 1])
  <2>1. from[p] = ItemsAt(pattern, from, p)
    BY <1>0, ItemsEquation
  <2> HIDE DEF from
  <2>2. CASE pattern[p] = "?"
    BY <1>0, <2>1, <2>2 DEF ItemsAt, OneItem, Item
  <2>3. CASE pattern[p] # "?"
    <3>1. pattern[p] # "*" /\ ~(pattern[p] = "[" /\ ClassEnds(pattern, p) # {})
      OBVIOUS
    <3> QED
      BY <1>0, <2>1, <2>3, <3>1, Zenon DEF ItemsAt, OneItem, Item
  <2> QED
    BY <2>2, <2>3
<1>2. IsSeq(from[p + 1])
  BY <1>0, ItemsAreSeqs
<1>3. Denotes(from[p], name, n) <=>
        n <= Len(name) /\ name[n] \in chars /\ Denotes(from[p + 1], name, n + 1)
  <2> HIDE DEF from, chars
  <2>1. Denotes(OneItem(Item(FALSE, chars), from[p + 1]), name, n) <=>
          n <= Len(name) /\ name[n] \in chars /\ Denotes(from[p + 1], name, n + 1)
    BY <1>0, <1>2, CharacterCut
  <2> QED
    BY <1>1, <2>1, Zenon
<1>4. n <= Len(name) =>
        (Denotes(from[p + 1], name, n + 1) <=> matches[<<p + 1, n + 1>>])
  BY <1>0 DEF Agrees
<1>5. matches[<<p, n>>] <=> n <= Len(name) /\ name[n] \in chars /\ matches[<<p + 1, n + 1>>]
  <2>1. matches[<<p, n>>] = MatchAt(pattern, name, matches, p, n)
    BY <1>0, MatchingEquation
  <2> HIDE DEF matches
  <2>2. n <= Len(name) => At(name, n) = {name[n]} /\ name[n] \in Characters
    BY <1>0 DEF At
  <2>3. ~(n <= Len(name)) => At(name, n) = {}
    BY DEF At
  <2>4. CASE pattern[p] = "?"
    <3>1. matches[<<p, n>>] <=> /\ At(name, n) # {} /\ At(name, n) \cap Separators = {}
                                /\ matches[<<p + 1, n + 1>>]
      BY <1>0, <2>1, <2>4 DEF MatchAt
    <3>2. At(name, n) # {} /\ At(name, n) \cap Separators = {} <=>
            n <= Len(name) /\ name[n] \in chars
      BY <2>2, <2>3, <2>4
    <3> QED
      BY <3>1, <3>2, Zenon
  <2>5. CASE pattern[p] # "?"
    <3>1. matches[<<p, n>>] <=> At(name, n) = {pattern[p]} /\ matches[<<p + 1, n + 1>>]
      BY <1>0, <2>1, <2>5 DEF MatchAt
    <3>2. At(name, n) = {pattern[p]} <=> n <= Len(name) /\ name[n] \in chars
      BY <2>2, <2>3, <2>5
    <3> QED
      BY <3>1, <3>2, Zenon
  <2> QED
    BY <2>4, <2>5
<1> HIDE DEF matches, from, chars
<1> QED
  BY <1>3, <1>4, <1>5

(* The matcher finds what the pattern names.                               *)
LEMMA MatcherFindsThePattern ==
  ASSUME NEW pattern, IsSeq(pattern), WellFormed(pattern), NEW name \in Seq(Characters)
  PROVE  WildcardMatch(pattern, name) <=> PatternDenotes(pattern, name)
<1> DEFINE T == {p \in Nat : p = 0 \/ Agrees(pattern, name, p)}
<1>1. Len(pattern) \in Nat /\ Len(name) \in Nat
  BY SeqIsFunction
<1>2. ASSUME NEW p \in Nat, p > Len(pattern) PROVE p \in T
  BY <1>1, <1>2, AgreeAtTheEnd
<1>3. ASSUME NEW p \in 0 .. Len(pattern), \A j \in Nat : j > p => j \in T PROVE p \in T
  <2>1. CASE p = 0
    BY <2>1
  <2>2. CASE p # 0
    <3>1. p \in Nat /\ p \in 1 .. Len(pattern) /\ p + 1 \in Nat /\ p + 1 > p
      BY <1>1, <2>2
    <3>2. \A j \in Nat : j > p => Agrees(pattern, name, j)
      BY <1>3, <3>1
    <3>3. Agrees(pattern, name, p + 1)
      BY <3>1, <3>2
    <3>4. CASE pattern[p] = "*"
      BY <1>1, <3>1, <3>3, <3>4, AgreeOnStar
    <3>5. CASE pattern[p] = "["
      BY <3>1, <3>2, <3>5, AgreeOnClass
    <3>6. CASE pattern[p] \notin {"*", "["}
      BY <1>1, <3>1, <3>3, <3>6, AgreeOnCharacter
    <3> QED
      BY <3>1, <3>4, <3>5, <3>6
  <2> QED
    BY <2>1, <2>2
<1>4. Nat \subseteq T
  <2> HIDE DEF T
  <2> QED
    BY <1>1, <1>2, <1>3, BackwardInduction
<1>5. Agrees(pattern, name, 1)
  BY <1>4
<1>6. Matching(pattern, name)[<<1, 1>>] <=> Denotes(ItemsFrom(pattern)[1], name, 1)
  BY <1>1, <1>5 DEF Agrees
<1> QED
  BY <1>6, MatchingStarts, ItemsStart, PatternIsDenoted, Zenon

-----------------------------------------------------------------------------
(* The files that the patterns name, and what they declare                 *)

(* What is left of the patterns of a frame are patterns of its file.       *)
LEMMA PatternsAreOfTheFile ==
  ASSUME LoadInv, DeclareInv, outcome = "loading", Top.patterns # << >>
  PROVE  \E name \in DOMAIN files :
           /\ ParsesAsToml(files[name])
           /\ \E k \in DOMAIN TomlConfig(files[name].root).includes :
                Head(Top.patterns) = TomlConfig(files[name].root).includes[k]
<1> DEFINE n == Len(stack)
<1>1. n \in 1 .. MaxDepth
  BY TopFrame
<1>2. TookAs(files, Top, NameAt(n), Confs, Lists, MaxDepth - n)
  BY <1>1, DepthAssumption DEF DeclareInv, FrameTook, Top
<1>3. PICK name, c, lists, declared :
        /\ name = NameAt(n) /\ c = Confs[name] /\ lists = Lists[name]
        /\ declared = DeclaredOn(Confs, Lists, MaxDepth - n)
  OBVIOUS
<1>4. /\ name \in DOMAIN files /\ ParsesAsToml(files[name]) /\ name \in ToSet(FileOrder)
      /\ Took(Top, c, lists, declared)
  BY <1>2, <1>3 DEF TookAs, DeclareInv
<1>5. ListsInv(c, lists)
  BY <1>3, <1>4, ListsTyped DEF LoadInv
<1>6. c = TomlConfig(files[name].root)
  BY <1>3, <1>4 DEF Confs, ConfigOf
<1>7. PICK k \in 0 .. Len(c.includes) : IsTail(Top.patterns, c.includes, k)
  BY <1>4 DEF Took
<1>8. IsSeq(c.includes)
  BY <1>5 DEF ListsInv
<1>9. k + 1 \in DOMAIN c.includes /\ Head(Top.patterns) = c.includes[k + 1]
  BY <1>7, <1>8, TailIsNext, SeqIsFunction
<1> QED
  BY <1>4, <1>6, <1>9

LEMMA IncludedPatternsAreTexts ==
  ASSUME FilesTyped, NEW name \in DOMAIN files, ParsesAsToml(files[name]),
         NEW k \in DOMAIN TomlConfig(files[name].root).includes
  PROVE  IsSeq(TomlConfig(files[name].root).includes[k])
<1> DEFINE root == files[name].root
           texts == root["includes"].holds
<1>1. TomlConfig(root)["includes"] = ValueOr(root, "includes", "texts", << >>)
  BY RootSettings DEF ConfigKeys, RootParsers, DefaultConfig
<1>2. TomlAccepted(root) /\ \A key \in DOMAIN root : TypedSetting(root[key])
  BY DEF FilesTyped, TypedFile, ParsesAsToml
<1> HIDE DEF root
<1>3. "includes" \in DOMAIN root
  <2>1. CASE "includes" \notin DOMAIN root
    <3>1. TomlConfig(root)["includes"] = << >>
      BY <1>1, <2>1 DEF ValueOr
    <3> QED
      BY <3>1 DEF root
  <2> QED
    BY <2>1
<1>4. RootParsers["includes"] = "texts"
  BY DEF RootParsers
<1>5. /\ root["includes"].kind = "array"
      /\ \A i \in DOMAIN texts : IsString(texts[i])
  BY <1>2, <1>3, <1>4 DEF TomlAccepted, TableAccepted, Accepts
<1>6. TomlConfig(root)["includes"] = [i \in DOMAIN texts |-> texts[i].holds]
  BY <1>1, <1>3 DEF ValueOr, Parsed
<1>7. k \in DOMAIN texts
  BY <1>6 DEF root
<1>8. WellTyped(texts[k])
  BY <1>2, <1>3, <1>5, <1>7 DEF TypedSetting, TypedItem, Places
<1>9. texts[k].holds \in Seq(STRING)
  BY <1>5, <1>7, <1>8 DEF WellTyped, IsString, AnyText
<1>10. IsSeq(texts[k].holds)
  BY <1>9, MembersAreSeqs
<1> HIDE DEF texts
<1>11. TomlConfig(root)["includes"][k] = texts[k].holds
  BY <1>6, <1>7
<1> QED
  BY <1>10, <1>11 DEF root

LEMMA WellFormedNamesAreFound ==
  ASSUME LoadInv, DeclareInv, PatternsAreWellFormed
  PROVE  IncludesAreNamed
<1> SUFFICES ASSUME outcome = "loading", Top.patterns # << >>
             PROVE  ExpandPattern(Head(Top.patterns)) = Named(Head(Top.patterns))
  BY DEF IncludesAreNamed
<1> DEFINE pattern == Head(Top.patterns)
<1>1. PICK name \in DOMAIN files :
        /\ ParsesAsToml(files[name])
        /\ \E k \in DOMAIN TomlConfig(files[name].root).includes :
             pattern = TomlConfig(files[name].root).includes[k]
  BY PatternsAreOfTheFile
<1>2. IsSeq(pattern)
  BY <1>1, IncludedPatternsAreTexts DEF LoadInv
<1>3. WellFormed(pattern)
  BY <1>1 DEF PatternsAreWellFormed, ParsesAsToml
<1>4. DOMAIN files \subseteq Seq(Characters)
  BY FilesAssumption DEF DeclareInv
<1> HIDE DEF pattern
<1>5. \A found \in DOMAIN files :
        WildcardMatch(pattern, found) <=> PatternDenotes(pattern, found)
  BY <1>2, <1>3, <1>4, MatcherFindsThePattern
<1>6. {found \in DOMAIN files : IsFile(found) /\ WildcardMatch(pattern, found)}
        = {found \in DOMAIN files : IsFile(found) /\ PatternDenotes(pattern, found)}
  BY <1>5, Zenon
<1> QED
  BY <1>6, Zenon DEF ExpandPattern, Named, pattern

(* No step of the program writes a file.                                   *)
LEMMA FilesStay == [Next]_vars => UNCHANGED files
<1> SUFFICES ASSUME [Next]_vars PROVE UNCHANGED files
  OBVIOUS
<1>1. CASE TakeArgument \/ ArgumentsEnd \/ Start
  BY <1>1, Zenon DEF TakeArgument, ArgumentsEnd, Start
<1>2. CASE LoadMainRejected \/ LoadMainIni \/ LoadMainToml
  BY <1>2 DEF LoadMainRejected, LoadMainIni, LoadMainToml, Reject
<1>3. CASE NextPattern
  BY <1>3 DEF NextPattern, Reject
<1>4. CASE IncludeRejected \/ LoadIncluded \/ Overflow
  BY <1>4 DEF IncludeRejected, LoadIncluded, Overflow, Reject
<1>5. CASE FinishFile
  BY <1>5 DEF FinishFile
<1>6. CASE UNCHANGED vars
  BY <1>6 DEF vars
<1> QED
  BY <1>1, <1>2, <1>3, <1>4, <1>5, <1>6 DEF Next, Step, Stays

(* Every file on the stack has what it should have by then (DeclareInv), in *)
(* a directory whose patterns are well-formed.                             *)
THEOREM DeclareInvariant == Spec /\ PatternsAreWellFormed => []DeclareInv
<1>1. Init => DeclareInv
  BY FilesAssumption DEF Init, DeclareInv
<1>2. LoadInv /\ DeclareInv /\ PatternsAreWellFormed => IncludesAreNamed
  BY WellFormedNamesAreFound
<1>3. LoadInv /\ DeclareInv /\ IncludesAreNamed /\ [Next]_vars => DeclareInv'
  BY DeclareInvStep
<1>4. PatternsAreWellFormed /\ [Next]_vars => PatternsAreWellFormed'
  BY FilesStay DEF PatternsAreWellFormed
<1> QED
  BY <1>1, <1>2, <1>3, <1>4, LoadInvariant, PTL DEF Spec

(* The files a file includes are those its patterns name, for any          *)
(* directory and any patterns (wildcard_match, expand_pattern): the scan   *)
(* from the left finds a cut of the name wherever there is one. It is not  *)
(* so for a "[" that starts no class.                                      *)
THEOREM IncludesFindWhatTheyName == Spec /\ PatternsAreWellFormed => []IncludesAreNamed
<1>1. LoadInv /\ DeclareInv /\ PatternsAreWellFormed => IncludesAreNamed
  BY WellFormedNamesAreFound
<1>2. PatternsAreWellFormed /\ [Next]_vars => PatternsAreWellFormed'
  BY FilesStay DEF PatternsAreWellFormed
<1> QED
  BY <1>1, <1>2, DeclareInvariant, LoadInvariant, PTL DEF Spec

-----------------------------------------------------------------------------
(* What complete() changes in an item                                      *)

FieldsOf(items) == IF items = "proxies" THEN ProxyFields ELSE VisitorFields

HasFields(items, a) == a = [field \in FieldsOf(items) |-> a[field]]

NamingFields == {"name", "serverName"}

(* Completing an item again changes its names, if there is a user, and not *)
(* the rest of it.                                                         *)
SameField(field, a, b, named) ==
  \/ a[field] = b[field]
  \/ field \in NamingFields /\ ~named
  \/ field = "localIP" /\ {a[field], b[field]} \subseteq {NoText, <<"127.0.0.1">>}

AlikeItem(a, b, items, named) ==
  /\ HasFields(items, a) /\ HasFields(items, b)
  /\ \A field \in FieldsOf(items) : SameField(field, a, b, named)

Alike(s, t, items, named) ==
  /\ IsSeq(s) /\ IsSeq(t) /\ Len(s) = Len(t)
  /\ \A i \in DOMAIN s : AlikeItem(s[i], t[i], items, named)

(* A proxy and a visitor, field by field.                                  *)
UserFor(items, c) ==
  IF items = "proxies" /\ ~c.userDoublePrefix THEN NoText ELSE c.user

LEMMA CompletedFields ==
  ASSUME NEW items \in ItemKinds, NEW a, HasFields(items, a), NEW c,
         NEW d, d = CompleteItem(items, a, c)
  PROVE  /\ HasFields(items, d)
         /\ \A field \in FieldsOf(items) \ (NamingFields \cup {"localIP"}) : d[field] = a[field]
         /\ items = "proxies" =>
              /\ d.name = Prefixed(UserFor(items, c), a.name)
              /\ d.localIP = IF a.localIP = NoText THEN <<"127.0.0.1">> ELSE a.localIP
         /\ items = "visitors" =>
              /\ d.name = IF a.name = NoText THEN a.name
                          ELSE Prefixed(UserFor(items, c), a.name)
              /\ d.serverName = IF a.serverUser = NoText /\ a.serverName # NoText
                                THEN Prefixed(UserFor(items, c), a.serverName)
                                ELSE a.serverName
<1>1. CASE items = "proxies"
  <2>1. d = CompleteProxy(a, UserFor(items, c))
    BY <1>1 DEF CompleteItem, UserFor
  <2>2. DOMAIN a = ProxyFields /\ {"name", "localIP"} \subseteq ProxyFields
    BY <1>1 DEF HasFields, FieldsOf, ProxyFields, TextFields
  <2> QED
    BY <1>1, <2>1, <2>2 DEF CompleteProxy, HasFields, FieldsOf, NamingFields
<1>2. CASE items = "visitors"
  <2>1. d = CompleteVisitor(a, UserFor(items, c))
    BY <1>2 DEF CompleteItem, UserFor
  <2>2. DOMAIN a = VisitorFields /\ {"name", "serverName"} \subseteq VisitorFields
        /\ "localIP" \notin VisitorFields
    BY <1>2 DEF HasFields, FieldsOf, VisitorFields
  <2> QED
    BY <1>2, <2>1, <2>2 DEF CompleteVisitor, HasFields, FieldsOf, NamingFields
<1> QED
  BY <1>1, <1>2 DEF ItemKinds

LEMMA FieldsOfItems ==
  /\ {"name", "localIP"} \subseteq FieldsOf("proxies") /\ "serverName" \notin FieldsOf("proxies")
  /\ {"name", "serverName", "serverUser"} \subseteq FieldsOf("visitors")
  /\ "localIP" \notin FieldsOf("visitors")
BY DEF FieldsOf, ProxyFields, VisitorFields, TextFields, ListFields, PortFields

(* An item that is completed is still like the one it was like before, if  *)
(* there is no user or names may differ.                                   *)
LEMMA CompletedItemIsAlike ==
  ASSUME NEW items \in ItemKinds, NEW a, NEW b, NEW named \in BOOLEAN,
         AlikeItem(a, b, items, named), NEW c, named => c.user = NoText
  PROVE  AlikeItem(CompleteItem(items, a, c), b, items, named)
<1>1. PICK d : d = CompleteItem(items, a, c)
  OBVIOUS
<1>2. HasFields(items, a) /\ HasFields(items, b) /\ HasFields(items, d)
  BY <1>1, CompletedFields DEF AlikeItem
<1>3. ASSUME NEW field \in FieldsOf(items) PROVE SameField(field, d, b, named)
  <2>1. SameField(field, a, b, named)
    BY DEF AlikeItem
  <2>2. CASE field \notin NamingFields \cup {"localIP"}
    <3>1. d[field] = a[field]
      BY <1>1, <1>2, <2>2, CompletedFields
    <3> QED
      BY <2>1, <2>2, <3>1 DEF SameField
  <2>3. CASE field = "localIP"
    <3>1. items = "proxies"
      BY <2>3, FieldsOfItems DEF ItemKinds
    <3>2. d.localIP = IF a.localIP = NoText THEN <<"127.0.0.1">> ELSE a.localIP
      BY <1>1, <1>2, <3>1, CompletedFields
    <3> QED
      BY <2>1, <2>3, <3>2 DEF SameField, NamingFields
  <2>4. CASE field \in NamingFields /\ named
    <3>1. UserFor(items, c) = NoText /\ \A text : Prefixed(NoText, text) = text
      BY <2>4 DEF UserFor, Prefixed
    <3>2. CASE items = "proxies"
      <4>1. field = "name"
        BY <2>4, <3>2, FieldsOfItems DEF NamingFields
      <4>2. d.name = a.name
        BY <1>1, <1>2, <3>1, <3>2, CompletedFields
      <4> QED
        BY <2>1, <4>1, <4>2 DEF SameField
    <3>3. CASE items = "visitors"
      <4>1. d.name = a.name /\ d.serverName = a.serverName
        BY <1>1, <1>2, <3>1, <3>3, CompletedFields
      <4> QED
        BY <2>1, <2>4, <4>1 DEF SameField, NamingFields
    <3> QED
      BY <3>2, <3>3 DEF ItemKinds
  <2>5. CASE field \in NamingFields /\ ~named
    BY <2>5 DEF SameField
  <2> QED
    BY <2>2, <2>3, <2>4, <2>5
<1> QED
  BY <1>1, <1>2, <1>3 DEF AlikeItem

(* Completed by the same file, what was alike is equal in what is compared.*)
LEMMA CompletedFieldsAgree ==
  ASSUME NEW items \in ItemKinds, NEW a, NEW b, NEW named \in BOOLEAN,
         AlikeItem(a, b, items, named), NEW c, NEW field \in FieldsOf(items),
         named \/ field \notin NamingFields
  PROVE  CompleteItem(items, a, c)[field] = CompleteItem(items, b, c)[field]
<1>1. PICK d, e : d = CompleteItem(items, a, c) /\ e = CompleteItem(items, b, c)
  OBVIOUS
<1>2. HasFields(items, a) /\ HasFields(items, b)
  BY DEF AlikeItem
<1>3. \A f \in FieldsOf(items) : SameField(f, a, b, named)
  BY DEF AlikeItem
<1>4. CASE field \notin NamingFields \cup {"localIP"}
  <2>1. d[field] = a[field] /\ e[field] = b[field] /\ a[field] = b[field]
    BY <1>1, <1>2, <1>3, <1>4, CompletedFields DEF SameField
  <2> QED
    BY <1>1, <2>1
<1>5. CASE field = "localIP"
  <2>1. items = "proxies"
    BY <1>5, FieldsOfItems DEF ItemKinds
  <2>2. /\ d.localIP = IF a.localIP = NoText THEN <<"127.0.0.1">> ELSE a.localIP
        /\ e.localIP = IF b.localIP = NoText THEN <<"127.0.0.1">> ELSE b.localIP
    BY <1>1, <1>2, <2>1, CompletedFields
  <2>3. SameField("localIP", a, b, named)
    BY <1>3, <1>5
  <2>4. d.localIP = e.localIP
    BY <2>2, <2>3 DEF SameField, NamingFields
  <2> QED
    BY <1>1, <1>5, <2>4
<1>6. CASE field \in NamingFields
  <2>1. named
    BY <1>6
  <2>2. CASE items = "proxies"
    <3>1. field = "name"
      BY <1>6, <2>2, FieldsOfItems DEF NamingFields
    <3>2. a.name = b.name
      BY <1>3, <2>1, <3>1 DEF SameField
    <3>3. d.name = e.name
      BY <1>1, <1>2, <2>2, <3>2, CompletedFields
    <3> QED
      BY <1>1, <3>1, <3>3
  <2>3. CASE items = "visitors"
    <3>1. /\ SameField("name", a, b, named) /\ SameField("serverName", a, b, named)
          /\ SameField("serverUser", a, b, named)
      BY <1>3, <2>3, FieldsOfItems
    <3>2. a.name = b.name /\ a.serverName = b.serverName /\ a.serverUser = b.serverUser
      BY <2>1, <3>1 DEF SameField, NamingFields
    <3>3. d.name = e.name /\ d.serverName = e.serverName
      BY <1>1, <1>2, <2>3, <3>2, CompletedFields
    <3> QED
      BY <1>1, <1>6, <3>3 DEF NamingFields
  <2> QED
    BY <2>2, <2>3 DEF ItemKinds
<1> QED
  BY <1>4, <1>5, <1>6

-----------------------------------------------------------------------------
(* Lists of items that are alike                                           *)

(* The two parts of a concatenation.                                       *)
PartsOf(s, u) ==
  /\ Len(s \o u) = Len(s) + Len(u)
  /\ \A i \in 1 .. Len(s) : (s \o u)[i] = s[i]
  /\ \A k \in 1 .. Len(u) : (s \o u)[Len(s) + k] = u[k]

LEMMA ConcatParts ==
  ASSUME NEW s, IsSeq(s), NEW u, IsSeq(u)
  PROVE  PartsOf(s, u)
<1> DEFINE S == ToSet(s) \cup ToSet(u)
<1>1. s \in Seq(S) /\ u \in Seq(S)
  BY DEF IsSeq
<1> HIDE DEF S
<1> QED
  BY <1>1 DEF PartsOf

LEMMA ConcatIsAlike ==
  ASSUME NEW items, NEW named, NEW s, NEW t, Alike(s, t, items, named),
         NEW u, NEW v, Alike(u, v, items, named)
  PROVE  Alike(s \o u, t \o v, items, named)
<1>1. /\ Len(s) \in Nat /\ Len(u) \in Nat /\ Len(s) = Len(t) /\ Len(u) = Len(v)
      /\ DOMAIN s = 1 .. Len(s) /\ DOMAIN u = 1 .. Len(u)
      /\ IsSeq(s) /\ IsSeq(t) /\ IsSeq(u) /\ IsSeq(v)
  BY SeqIsFunction DEF Alike
<1>2. PartsOf(s, u) /\ PartsOf(t, v)
  BY <1>1, ConcatParts
<1>3. IsSeq(s \o u) /\ IsSeq(t \o v)
  BY <1>1, ConcatIsSeq
<1>4. ASSUME NEW i \in DOMAIN (s \o u)
      PROVE  AlikeItem((s \o u)[i], (t \o v)[i], items, named)
  <2>1. i \in 1 .. Len(s) + Len(u)
    BY <1>2, <1>3, SeqIsFunction DEF PartsOf
  <2>2. CASE i \in 1 .. Len(s)
    <3>1. (s \o u)[i] = s[i] /\ (t \o v)[i] = t[i]
      BY <1>1, <1>2, <2>2 DEF PartsOf
    <3> QED
      BY <1>1, <2>2, <3>1 DEF Alike
  <2>3. CASE i \notin 1 .. Len(s)
    <3>1. PICK k \in 1 .. Len(u) : i = Len(s) + k
      <4>1. i - Len(s) \in 1 .. Len(u) /\ i = Len(s) + (i - Len(s))
        BY <1>1, <2>1, <2>3
      <4> QED
        BY <4>1
    <3>2. (s \o u)[i] = u[k] /\ (t \o v)[i] = v[k]
      BY <1>1, <1>2, <3>1 DEF PartsOf
    <3> QED
      BY <1>1, <3>1, <3>2 DEF Alike
  <2> QED
    BY <2>2, <2>3
<1>5. Len(s \o u) = Len(t \o v)
  BY <1>1, <1>2 DEF PartsOf
<1> QED
  BY <1>3, <1>4, <1>5 DEF Alike

AlikeIn(declared, written, names, items, named) ==
  \A name \in names : Alike(declared[name], written[name], items, named)

(* What stands in the files of one pattern.                                *)
LEMMA ListRunIsAlike ==
  ASSUME NEW items, NEW named, NEW s, NEW t, Alike(s, t, items, named),
         NEW names, IsSeq(names), NEW declared, NEW written,
         AlikeIn(declared, written, ToSet(names), items, named)
  PROVE  Alike(WithThoseOf(s, names, declared), WithThoseOf(t, names, written), items, named)
<1> DEFINE n == Len(names)
           Agree(j) == Alike(ListRun(s, names, declared)[j], ListRun(t, names, written)[j],
                             items, named)
           T == {j \in Nat : j <= n => Agree(j)}
<1>1. n \in Nat /\ DOMAIN names = 1 .. n
  BY SeqIsFunction
<1>2. 0 \in T
  BY <1>1, ListRunStarts
<1>3. ASSUME NEW j \in Nat, j \in T PROVE j + 1 \in T
  <2> SUFFICES ASSUME j + 1 <= n PROVE Agree(j + 1)
    OBVIOUS
  <2>1. PICK i : i = j + 1 /\ i \in 1 .. n /\ i - 1 = j
    BY <1>1
  <2>2. Agree(j)
    BY <1>1, <1>3
  <2>3. RunGoesOn(s, names, declared, i) /\ RunGoesOn(t, names, written, i)
    BY <1>1, <2>1, ListRunGoesOn
  <2>4. Alike(declared[names[i]], written[names[i]], items, named)
    <3>1. names[i] \in ToSet(names)
      BY <1>1, <2>1 DEF ToSet
    <3> QED
      BY <3>1 DEF AlikeIn
  <2>5. PICK x, y, u, v :
          /\ x = ListRun(s, names, declared)[j] /\ y = ListRun(t, names, written)[j]
          /\ u = declared[names[i]] /\ v = written[names[i]]
    OBVIOUS
  <2>6. Alike(x \o u, y \o v, items, named)
    BY <2>2, <2>4, <2>5, ConcatIsAlike
  <2>7. /\ ListRun(s, names, declared)[i] = x \o u
        /\ ListRun(t, names, written)[i] = y \o v
    BY <2>1, <2>3, <2>5, Zenon DEF RunGoesOn
  <2> QED
    BY <2>1, <2>6, <2>7, Zenon
<1> HIDE DEF Agree
<1>4. Nat \subseteq T
  <2> HIDE DEF T
  <2> QED
    BY <1>2, <1>3, NumberInduction
<1>5. Agree(n)
  BY <1>1, <1>4
<1> QED
  BY <1>1, <1>5, ListRunStarts, Zenon DEF Agree

(* What a file has in itself, and what stands in the files of its patterns.*)
LEMMA ItemsOfAreAlike ==
  ASSUME NEW items, NEW named, NEW c, Alike(c[items], c[items], items, named),
         NEW lists, IsSeq(lists), \A k \in DOMAIN lists : IsSeq(lists[k]),
         NEW declared, NEW written,
         \A k \in DOMAIN lists : AlikeIn(declared, written, ToSet(lists[k]), items, named)
  PROVE  Alike(ItemsOf(items, c, lists, declared), ItemsOf(items, c, lists, written),
               items, named)
<1> DEFINE n == Len(lists)
           Agree(k) == Alike(IncludeRun(items, c, lists, declared)[k],
                             IncludeRun(items, c, lists, written)[k], items, named)
           T == {k \in Nat : k <= n => Agree(k)}
<1>1. n \in Nat /\ DOMAIN lists = 1 .. n
  BY SeqIsFunction
<1>2. 0 \in T
  BY <1>1, IncludeRunStarts
<1>3. ASSUME NEW j \in Nat, j \in T PROVE j + 1 \in T
  <2> SUFFICES ASSUME j + 1 <= n PROVE Agree(j + 1)
    OBVIOUS
  <2>1. PICK k : k = j + 1 /\ k \in 1 .. n /\ k - 1 = j
    BY <1>1
  <2>2. PICK x, y, names :
          /\ x = IncludeRun(items, c, lists, declared)[j]
          /\ y = IncludeRun(items, c, lists, written)[j]
          /\ names = lists[k]
    OBVIOUS
  <2>3. Alike(x, y, items, named)
    BY <1>1, <1>3, <2>2
  <2>4. IsSeq(names) /\ AlikeIn(declared, written, ToSet(names), items, named)
    BY <1>1, <2>1, <2>2
  <2>5. Alike(WithThoseOf(x, names, declared), WithThoseOf(y, names, written), items, named)
    BY <2>3, <2>4, ListRunIsAlike
  <2>6. /\ IncludeRun(items, c, lists, declared)[k] = WithThoseOf(x, names, declared)
        /\ IncludeRun(items, c, lists, written)[k] = WithThoseOf(y, names, written)
    <3>1. Len(lists) \in Nat /\ k \in 1 .. Len(lists)
      BY <1>1, <2>1
    <3>2. PICK run, other :
            /\ run = IncludeRun(items, c, lists, declared)
            /\ other = IncludeRun(items, c, lists, written)
      OBVIOUS
    <3>3. run[k] = WithThoseOf(run[k - 1], lists[k], declared)
      BY <3>1, <3>2, IncludeRunGoesOn
    <3>4. other[k] = WithThoseOf(other[k - 1], lists[k], written)
      BY <3>1, <3>2, IncludeRunGoesOn
    <3> QED
      BY <2>1, <2>2, <3>2, <3>3, <3>4, Zenon
  <2> QED
    BY <2>1, <2>5, <2>6, Zenon
<1> HIDE DEF Agree
<1>4. Nat \subseteq T
  <2> HIDE DEF T
  <2> QED
    BY <1>2, <1>3, NumberInduction
<1>5. Agree(n)
  BY <1>1, <1>4
<1> QED
  BY <1>5, ItemsOfRun, Zenon DEF Agree

LEMMA CompletedListIsAlike ==
  ASSUME NEW items \in ItemKinds, NEW named \in BOOLEAN, NEW s, NEW t,
         Alike(s, t, items, named), NEW c, named => c.user = NoText
  PROVE  Alike(AllCompleted(s, items, c), t, items, named)
<1>1. PICK list : list = AllCompleted(s, items, c)
  OBVIOUS
<1>2. Len(s) \in Nat /\ DOMAIN s = 1 .. Len(s) /\ IsSeq(s) /\ IsSeq(t) /\ Len(s) = Len(t)
  BY SeqIsFunction DEF Alike
<1>3. list = [i \in 1 .. Len(s) |-> CompleteItem(items, s[i], c)]
  BY <1>1, <1>2 DEF AllCompleted
<1>4. IsSeq(list) /\ Len(list) = Len(s)
  BY <1>2, <1>3, FunctionIsSeq
<1>5. ASSUME NEW i \in DOMAIN list PROVE AlikeItem(list[i], t[i], items, named)
  <2>1. i \in DOMAIN s /\ list[i] = CompleteItem(items, s[i], c)
    BY <1>2, <1>3
  <2>2. AlikeItem(s[i], t[i], items, named)
    BY <2>1 DEF Alike
  <2> QED
    BY <2>1, <2>2, CompletedItemIsAlike
<1> QED
  BY <1>1, <1>2, <1>4, <1>5 DEF Alike

(* At the top, completed by the main file.                                 *)
LEMMA CompletedListsAgree ==
  ASSUME NEW items \in ItemKinds, NEW named \in BOOLEAN, NEW s, NEW t,
         Alike(s, t, items, named), NEW c
  PROVE  /\ Unnamed(AllCompleted(s, items, c)) = Unnamed(AllCompleted(t, items, c))
         /\ named => AllCompleted(s, items, c) = AllCompleted(t, items, c)
<1>1. DOMAIN s = DOMAIN t
  BY SeqIsFunction DEF Alike
<1>2. PICK x, y : x = AllCompleted(s, items, c) /\ y = AllCompleted(t, items, c)
  OBVIOUS
<1>3. /\ x = [i \in DOMAIN s |-> CompleteItem(items, s[i], c)]
      /\ y = [i \in DOMAIN s |-> CompleteItem(items, t[i], c)]
  BY <1>1, <1>2 DEF AllCompleted
<1>4. ASSUME NEW i \in DOMAIN s
      PROVE  /\ HasFields(items, x[i]) /\ HasFields(items, y[i])
             /\ \A field \in FieldsOf(items) :
                  named \/ field \notin NamingFields => x[i][field] = y[i][field]
  <2>1. AlikeItem(s[i], t[i], items, named)
    BY DEF Alike
  <2>2. x[i] = CompleteItem(items, s[i], c) /\ y[i] = CompleteItem(items, t[i], c)
    BY <1>3
  <2>3. HasFields(items, x[i]) /\ HasFields(items, y[i])
    BY <2>1, <2>2, CompletedFields DEF AlikeItem
  <2>4. \A field \in FieldsOf(items) :
          named \/ field \notin NamingFields => x[i][field] = y[i][field]
    BY <2>1, <2>2, CompletedFieldsAgree
  <2> QED
    BY <2>3, <2>4
<1>5. DOMAIN x = DOMAIN s /\ DOMAIN y = DOMAIN s
  BY <1>3
<1>6. Unnamed(x) = Unnamed(y)
  <2>1. ASSUME NEW i \in DOMAIN s
        PROVE  [field \in DOMAIN x[i] \ NamingFields |-> x[i][field]]
                 = [field \in DOMAIN y[i] \ NamingFields |-> y[i][field]]
    <3>1. DOMAIN x[i] = FieldsOf(items) /\ DOMAIN y[i] = FieldsOf(items)
      BY <1>4 DEF HasFields
    <3> QED
      BY <1>4, <3>1
  <2> QED
    BY <1>5, <2>1 DEF Unnamed, NamingFields
<1>7. named => x = y
  <2> SUFFICES ASSUME named PROVE x = y
    OBVIOUS
  <2>1. ASSUME NEW i \in DOMAIN s PROVE x[i] = y[i]
    BY <1>4 DEF HasFields
  <2>2. x = [i \in DOMAIN s |-> x[i]] /\ y = [i \in DOMAIN s |-> y[i]]
    BY <1>3
  <2> QED
    BY <2>1, <2>2
<1> QED
  BY <1>2, <1>6, <1>7

-----------------------------------------------------------------------------
(* The items of a client as they are written and as they come out          *)

(* The files that are included by any.                                     *)
Includable == {g \in ToSet(FileOrder) : \E name \in DOMAIN files : g \in IncludedBy(name)}

ListOfItems(items, list) ==
  IsSeq(list) /\ \A i \in DOMAIN list : HasFields(items, list[i])

LEMMA ItemsAreLists ==
  ASSUME FilesTyped, NEW items \in ItemKinds, NEW name
  PROVE  ListOfItems(items, ConfigOf(name)[items])
<1>1. CASE name \in DOMAIN files /\ ParsesAsToml(files[name])
  <2> DEFINE root == files[name].root
             c == TomlConfig(root)
             list == c[items]
  <2>1. ConfigOf(name) = c
    BY <1>1 DEF ConfigOf
  <2>2. TomlAccepted(root) /\ \A key \in DOMAIN root : TypedSetting(root[key])
    BY <1>1 DEF FilesTyped, TypedFile, ParsesAsToml
  <2> HIDE DEF root
  <2>3. ConfigInv(c) /\ ItemsInv(c)
    BY <2>2, TomlConfigTyped
  <2>4. IsSeq(list)
    BY <2>3 DEF ItemsInv, ItemKinds
  <2>5. CASE items = "proxies"
    <3>1. list = [i \in DOMAIN Elements(root, "proxies") |-> TomlProxy(root["proxies"].holds[i])]
      BY <2>5, KeysOfConfig DEF TomlConfig, ConfigKeys
    <3>2. \A value : HasFields("proxies", TomlProxy(value))
      BY DEF HasFields, FieldsOf, TomlProxy
    <3> HIDE DEF list
    <3>3. \A i \in DOMAIN list : HasFields("proxies", list[i])
      BY <3>1, <3>2
    <3> QED
      BY <2>1, <2>4, <2>5, <3>3 DEF ListOfItems, list
  <2>6. CASE items = "visitors"
    <3>1. list = [i \in DOMAIN Elements(root, "visitors") |->
                    TomlVisitor(root["visitors"].holds[i])]
      BY <2>6, KeysOfConfig DEF TomlConfig, ConfigKeys
    <3>2. \A value : HasFields("visitors", TomlVisitor(value))
      BY DEF HasFields, FieldsOf, TomlVisitor
    <3> HIDE DEF list
    <3>3. \A i \in DOMAIN list : HasFields("visitors", list[i])
      BY <3>1, <3>2
    <3> QED
      BY <2>1, <2>4, <2>6, <3>3 DEF ListOfItems, list
  <2> QED
    BY <2>5, <2>6 DEF ItemKinds
<1>2. CASE ~(name \in DOMAIN files /\ ParsesAsToml(files[name]))
  <2>1. ConfigOf(name)[items] = << >>
    BY <1>2 DEF ConfigOf, DefaultConfig, ItemKinds
  <2> QED
    BY <2>1, EmptyIsSeq DEF ListOfItems
<1> QED
  BY <1>1, <1>2

LEMMA OwnItemsAreAlike ==
  ASSUME NEW items, NEW list, ListOfItems(items, list), NEW named
  PROVE  Alike(list, list, items, named)
BY DEF ListOfItems, Alike, AlikeItem, SameField

(* The lists of a file are lists of files that are included.               *)
LEMMA ListsAreIncludable ==
  ASSUME FilesTyped, DOMAIN files \subseteq ToSet(FileOrder), NEW name
  PROVE  /\ IsSeq(IncludesOf(name))
         /\ \A k \in DOMAIN IncludesOf(name) :
              /\ IsSeq(IncludesOf(name)[k])
              /\ ToSet(IncludesOf(name)[k]) \subseteq Includable
<1>1. CASE name \in DOMAIN files /\ ParsesAsToml(files[name])
  <2>1. ListsInv(Confs[name], Lists[name]) /\ Lists[name] = IncludesOf(name)
    BY <1>1, ListsTyped DEF Lists
  <2>2. ASSUME NEW k \in DOMAIN IncludesOf(name)
        PROVE  ToSet(IncludesOf(name)[k]) \subseteq Includable
    <3>1. PICK pattern : IncludesOf(name)[k] = Named(pattern)
      BY DEF IncludesOf
    <3>2. Named(pattern) \in Seq(ToSet(FileOrder))
      BY FilesAssumption, OnlyMembers DEF Named
    <3>3. PICK found : found = Named(pattern)
      OBVIOUS
    <3>4. ToSet(found) \subseteq ToSet(FileOrder)
      <4>1. PICK S : S = ToSet(FileOrder)
        OBVIOUS
      <4>2. found \in Seq(S)
        BY <3>2, <3>3, <4>1
      <4>3. ToSet(found) \subseteq S
        BY <4>2 DEF ToSet
      <4> QED
        BY <4>1, <4>3
    <3>5. ToSet(IncludesOf(name)[k]) \subseteq IncludedBy(name)
      BY DEF IncludedBy
    <3> QED
      BY <1>1, <3>1, <3>3, <3>4, <3>5 DEF Includable
  <2> QED
    BY <2>1, <2>2 DEF ListsInv
<1>2. CASE ~(name \in DOMAIN files /\ ParsesAsToml(files[name]))
  <2>1. ConfigOf(name).includes = << >>
    BY <1>2 DEF ConfigOf, DefaultConfig
  <2>2. DOMAIN IncludesOf(name) = {} /\ IncludesOf(name) = [k \in {} |-> IncludesOf(name)[k]]
    BY <2>1, EmptyIsSeq DEF IncludesOf
  <2>3. IncludesOf(name) = [k \in 1 .. 0 |-> IncludesOf(name)[k]]
    BY <2>2
  <2>4. IsSeq(IncludesOf(name))
    BY <2>3, FunctionIsSeq
  <2> QED
    BY <2>2, <2>4
<1> QED
  BY <1>1, <1>2

LevelsAlike(d, items, named) ==
  AlikeIn(Levels(items, Confs, Lists, "completed")[d],
          Levels(items, Confs, Lists, "written")[d], Includable, items, named)

LEMMA NextLevelIsAlike ==
  ASSUME FilesTyped, DOMAIN files \subseteq ToSet(FileOrder), NEW items \in ItemKinds,
         NEW d \in Nat, NEW named, LevelsAlike(d, items, named), NEW name \in ToSet(FileOrder)
  PROVE  Alike(ItemsOf(items, Confs[name], Lists[name], Levels(items, Confs, Lists, "completed")[d]),
               ItemsOf(items, Confs[name], Lists[name], Levels(items, Confs, Lists, "written")[d]),
               items, named)
<1>1. PICK c, lists, declared, written :
        /\ c = Confs[name] /\ lists = Lists[name]
        /\ declared = Levels(items, Confs, Lists, "completed")[d]
        /\ written = Levels(items, Confs, Lists, "written")[d]
  OBVIOUS
<1>2. c = ConfigOf(name) /\ lists = IncludesOf(name)
  BY <1>1 DEF Confs, Lists
<1>3. Alike(c[items], c[items], items, named)
  BY <1>2, ItemsAreLists, OwnItemsAreAlike
<1>4. IsSeq(lists) /\ \A k \in DOMAIN lists : IsSeq(lists[k])
  BY <1>2, ListsAreIncludable
<1>5. \A k \in DOMAIN lists : ToSet(lists[k]) \subseteq Includable
  BY <1>2, ListsAreIncludable
<1>6. \A k \in DOMAIN lists : AlikeIn(declared, written, ToSet(lists[k]), items, named)
  BY <1>1, <1>5 DEF LevelsAlike, AlikeIn
<1>7. Alike(ItemsOf(items, c, lists, declared), ItemsOf(items, c, lists, written), items, named)
  BY <1>3, <1>4, <1>6, ItemsOfAreAlike
<1> QED
  BY <1>1, <1>7

(* However deep it stands and whatever prefixes it has taken on its way, an*)
(* item is like the one that is written, and its names are the written ones*)
(* if no file on the way has a user.                                       *)
LEMMA AllLevelsAreAlike ==
  ASSUME FilesTyped, DOMAIN files \subseteq ToSet(FileOrder), NEW items \in ItemKinds,
         NEW named \in BOOLEAN, named => OnlyMainSetsUser, NEW d \in 0 .. MaxDepth
  PROVE  LevelsAlike(d, items, named)
<1> DEFINE T == {e \in Nat : e <= MaxDepth => LevelsAlike(e, items, named)}
<1>1. 0 \in T
  <2>1. ASSUME NEW name \in Includable
        PROVE  Alike(Levels(items, Confs, Lists, "completed")[0][name],
                     Levels(items, Confs, Lists, "written")[0][name], items, named)
    <3>1. PICK how, as : how = "completed" /\ as = "written"
      OBVIOUS
    <3>2. PICK confs, lists : confs = Confs /\ lists = Lists
      OBVIOUS
    <3>3. name \in ToSet(FileOrder)
      BY DEF Includable
    <3>4. /\ Levels(items, confs, lists, how)[0][name] = << >>
          /\ Levels(items, confs, lists, as)[0][name] = << >>
      BY <3>3, LevelsStart
    <3>5. Alike(<< >>, << >>, items, named)
      BY EmptyIsSeq DEF Alike
    <3> QED
      BY <3>1, <3>2, <3>4, <3>5, Zenon
  <2> QED
    BY <2>1 DEF LevelsAlike, AlikeIn
<1>2. ASSUME NEW e \in Nat, e \in T PROVE e + 1 \in T
  <2> SUFFICES ASSUME e + 1 <= MaxDepth PROVE LevelsAlike(e + 1, items, named)
    OBVIOUS
  <2>1. PICK n : n = e + 1 /\ n \in 1 .. MaxDepth /\ n - 1 = e
    BY DepthAssumption
  <2>2. LevelsAlike(e, items, named)
    BY <1>2, DepthAssumption
  <2>3. ASSUME NEW name \in Includable
        PROVE  Alike(Levels(items, Confs, Lists, "completed")[n][name],
                     Levels(items, Confs, Lists, "written")[n][name], items, named)
    <3>1. name \in ToSet(FileOrder)
      BY DEF Includable
    <3>2. PICK c, x, y :
            /\ c = Confs[name]
            /\ x = ItemsOf(items, Confs[name], Lists[name],
                           Levels(items, Confs, Lists, "completed")[e])
            /\ y = ItemsOf(items, Confs[name], Lists[name],
                           Levels(items, Confs, Lists, "written")[e])
      OBVIOUS
    <3>3. Alike(x, y, items, named)
      BY <2>2, <3>1, <3>2, NextLevelIsAlike
    <3>4. named => c.user = NoText
      <4>1. PICK of \in DOMAIN files : name \in IncludedBy(of)
        BY DEF Includable
      <4>2. named => ConfigOf(name).user = NoText
        BY <4>1 DEF OnlyMainSetsUser
      <4> QED
        BY <3>1, <3>2, <4>2 DEF Confs
    <3>5. Alike(AllCompleted(x, items, c), y, items, named)
      BY <3>3, <3>4, CompletedListIsAlike
    <3>6. /\ Levels(items, Confs, Lists, "completed")[n][name] = AllCompleted(x, items, c)
          /\ Levels(items, Confs, Lists, "written")[n][name] = y
      BY <2>1, <3>1, <3>2, LevelsAreOfItems
    <3> QED
      BY <3>5, <3>6
  <2> QED
    BY <2>1, <2>3 DEF LevelsAlike, AlikeIn
<1>3. Nat \subseteq T
  <2> HIDE DEF T
  <2> QED
    BY <1>1, <1>2, NumberInduction
<1> QED
  BY <1>3, DepthAssumption

(* A client that runs has the items its files declare.                     *)
LEMMA RunningItems ==
  ASSUME FilesTyped, DeclareInv, Running, ~LooksLikeIni(MainFile), NEW items \in ItemKinds,
         NEW named \in BOOLEAN, named => OnlyMainSetsUser
  PROVE  /\ Unnamed(config[items]) = Unnamed(Declared(items))
         /\ named => config[items] = Declared(items)
<1>1. /\ args.config \in ToSet(FileOrder) /\ DOMAIN files \subseteq ToSet(FileOrder)
      /\ config[items] = Levels(items, Confs, Lists, "completed")[MaxDepth][args.config]
  BY DEF DeclareInv, Running
<1>2. PICK name, n, e : /\ name = args.config /\ n = MaxDepth /\ n \in 1 .. MaxDepth
                        /\ e = n - 1 /\ e \in 0 .. MaxDepth
  BY DepthAssumption
<1>3. PICK c, x, y :
        /\ c = Confs[name]
        /\ x = ItemsOf(items, Confs[name], Lists[name],
                       Levels(items, Confs, Lists, "completed")[e])
        /\ y = ItemsOf(items, Confs[name], Lists[name],
                       Levels(items, Confs, Lists, "written")[e])
  OBVIOUS
<1>4. LevelsAlike(e, items, named) /\ e \in Nat
  BY <1>1, <1>2, AllLevelsAreAlike
<1>5. Alike(x, y, items, named)
  BY <1>1, <1>2, <1>3, <1>4, NextLevelIsAlike
<1>6. /\ Levels(items, Confs, Lists, "completed")[n][name] = AllCompleted(x, items, c)
      /\ Levels(items, Confs, Lists, "written")[n][name] = y
  BY <1>1, <1>2, <1>3, LevelsAreOfItems
<1>7. config[items] = AllCompleted(x, items, c)
  BY <1>1, <1>2, <1>6
<1>8. Declared(items) = AllCompleted(y, items, c)
  <2>1. Written(items) = y
    BY <1>2, <1>6, WrittenIsTheTopLevel
  <2>2. c = ConfigOf(args.config)
    BY <1>1, <1>2, <1>3 DEF Confs
  <2> QED
    BY <2>1, <2>2 DEF Declared
<1> QED
  BY <1>5, <1>7, <1>8, CompletedListsAgree

(* A running client has the proxies and the visitors its files declare, in *)
(* their order and, but for the names that take a prefix, as they are      *)
(* declared, for any directories and however the files include each other  *)
(* (load_includes, parse, complete). The names too are the declared ones   *)
(* where no included file sets a user.                                     *)
THEOREM IncludedItemsAreDeclared == Spec /\ PatternsAreWellFormed => []ItemsAreDeclared
<1>1. LoadInv /\ DeclareInv => ItemsAreDeclared
  <2> SUFFICES ASSUME LoadInv, DeclareInv, Running, ~LooksLikeIni(MainFile), NEW items \in ItemKinds
               PROVE  /\ Unnamed(config[items]) = Unnamed(Declared(items))
                      /\ OnlyMainSetsUser => config[items] = Declared(items)
    BY DEF ItemsAreDeclared, ItemKinds
  <2>1. PICK named \in BOOLEAN : named <=> OnlyMainSetsUser
    OBVIOUS
  <2> QED
    BY <2>1, RunningItems DEF LoadInv
<1> QED
  BY <1>1, DeclareInvariant, LoadInvariant, PTL DEF Spec

-----------------------------------------------------------------------------
(* The two loaders                                                         *)

(* What stands first in a section under a key, where all entries of the    *)
(* key say the same.                                                       *)
LEMMA FirstEntry ==
  ASSUME NEW section, IsSeq(section.entries), NEW key, Has(section, key), NEW v,
         \A i \in Entries(section, key) : section.entries[i].v = v
  PROVE  IniText(section, key) = v
<1> DEFINE found == Entries(section, key)
           IsFirst(i) == \A j \in 1 .. i - 1 : section.entries[j].key # key
           first == CHOOSE i \in found : IsFirst(i)
<1>1. found \subseteq Nat /\ found \subseteq DOMAIN section.entries
  BY SeqIsFunction DEF Entries
<1>2. found # {}
  BY DEF Has
<1>3. PICK i \in found : \A j \in found : i <= j
  <2> HIDE DEF found
  <2> QED
    BY <1>1, <1>2, LeastNumber
<1>4. ASSUME NEW j \in 1 .. i - 1 PROVE section.entries[j].key # key
  <2>1. j \in DOMAIN section.entries /\ ~(i <= j)
    BY <1>1, <1>4, SeqIsFunction
  <2> QED
    BY <1>3, <2>1 DEF Entries
<1>5. first \in found
  <2>1. IsFirst(i)
    BY <1>4
  <2> HIDE DEF found, IsFirst
  <2> QED
    BY <2>1
<1>6. IniText(section, key) = section.entries[first].v
  BY DEF IniText
<1> QED
  BY <1>5, <1>6

LEMMA NoEntry ==
  ASSUME NEW section, NEW key, ~Has(section, key)
  PROVE  IniText(section, key) = NoText
BY DEF IniText

-----------------------------------------------------------------------------
(* The entries that a table is written as                                  *)

(* The TOML key of an ini key.                                             *)
WrittenAs ==
  [type |-> "type", local_ip |-> "localIP", local_port |-> "localPort",
   remote_port |-> "remotePort", custom_domains |-> "customDomains",
   subdomain |-> "subdomain", locations |-> "locations", http_user |-> "httpUser",
   http_pwd |-> "httpPassword", host_header_rewrite |-> "hostHeaderRewrite",
   multiplexer |-> "multiplexer", sk |-> "secretKey", allow_users |-> "allowUsers",
   user |-> "user", server_addr |-> "serverAddr", server_port |-> "serverPort",
   rename |-> "rename", metadatas_enabled |-> "metadatasEnabled",
   user_double_prefix |-> "userDoublePrefix", ssh_private_key |-> "sshPrivateKey",
   ssh_known_hosts |-> "sshKnownHosts", max_forward_connections |-> "maxForwardConnections"]

Documented ==
  {"type", "localIP", "localPort", "remotePort", "customDomains", "subdomain", "locations",
   "httpUser", "httpPassword", "hostHeaderRewrite", "multiplexer", "secretKey", "allowUsers",
   "user", "serverAddr", "serverPort", "rename", "metadatasEnabled", "userDoublePrefix",
   "sshPrivateKey", "sshKnownHosts", "maxForwardConnections"}

LEMMA KeysAreWritten ==
  /\ WrittenKeys \in Seq(Documented) /\ ToSet(WrittenKeys) = Documented
<1>1. WrittenKeys \in Seq(Documented)
  BY DEF WrittenKeys, Documented
<1>2. ToSet(WrittenKeys) \subseteq Documented
  BY <1>1 DEF ToSet
<1>3. Len(WrittenKeys) = 22 /\ DOMAIN WrittenKeys = 1 .. 22
  BY DEF WrittenKeys
<1>4. Documented \subseteq ToSet(WrittenKeys)
  BY <1>3 DEF ToSet, WrittenKeys, Documented
<1> QED
  BY <1>1, <1>2, <1>4

(* No two keys have the same ini key, and none has that of another entry.  *)
LEMMA KeysDiffer ==
  /\ \A key \in Documented : WrittenAs[DocumentedIniKey[key]] = key
  /\ \A key \in Documented :
       DocumentedIniKey[key] \notin
         {"meta_", "token", "role", "server_addr_from_remote", "server_addr_remote_url"}
<1>1. \A key \in Documented : WrittenAs[DocumentedIniKey[key]] = key
  BY DEF Documented, DocumentedIniKey, WrittenAs
<1>2. \A key \in Documented :
       DocumentedIniKey[key] \notin
         {"meta_", "token", "role", "server_addr_from_remote", "server_addr_remote_url"}
  BY DEF Documented, DocumentedIniKey
<1> QED
  BY <1>1, <1>2

(* The section has the entries of the table, and these others.             *)
IsWritten(section, table, others) ==
  /\ IsSeq(section.entries)
  /\ ToSet(section.entries) =
       {KeyEntry(table, key) : key \in Documented \cap DOMAIN table}
       \cup {MetaEntry(MetasIn(table), name) : name \in DOMAIN MetasIn(table)}
       \cup others

LEMMA MapOfSeq ==
  ASSUME NEW A, NEW s \in Seq(A), NEW f, f = [i \in DOMAIN s |-> f[i]]
  PROVE  IsSeq(f) /\ Len(f) = Len(s) /\ DOMAIN f = DOMAIN s
<1>1. Len(s) \in Nat /\ DOMAIN s = 1 .. Len(s)
  OBVIOUS
<1> QED
  BY <1>1, FunctionIsSeq

LEMMA MembersOfConcat ==
  ASSUME NEW s, NEW t, IsSeq(s), IsSeq(t)
  PROVE  IsSeq(s \o t) /\ ToSet(s \o t) = ToSet(s) \cup ToSet(t)
<1> DEFINE S == ToSet(s) \cup ToSet(t)
<1>1. s \in Seq(S) /\ t \in Seq(S)
  BY DEF IsSeq
<1> HIDE DEF S
<1>2. /\ Len(s \o t) = Len(s) + Len(t) /\ Len(s) \in Nat /\ Len(t) \in Nat
      /\ \A i \in 1 .. Len(s) : (s \o t)[i] = s[i]
      /\ \A i \in 1 .. Len(t) : (s \o t)[Len(s) + i] = t[i]
  <2>1. Len(s \o t) = Len(s) + Len(t) /\ Len(s) \in Nat /\ Len(t) \in Nat
    BY <1>1
  <2>2. \A i \in 1 .. Len(s) + Len(t) :
          (s \o t)[i] = IF i <= Len(s) THEN s[i] ELSE t[i - Len(s)]
    BY <1>1
  <2>3. \A i \in 1 .. Len(s) : i \in 1 .. Len(s) + Len(t) /\ i <= Len(s)
    BY <2>1
  <2>4. \A i \in 1 .. Len(t) : /\ Len(s) + i \in 1 .. Len(s) + Len(t) /\ ~(Len(s) + i <= Len(s))
                              /\ (Len(s) + i) - Len(s) = i
    BY <2>1
  <2>5. \A i \in 1 .. Len(t) : (s \o t)[Len(s) + i] = t[i]
    BY <2>2, <2>4
  <2> QED
    BY <2>1, <2>2, <2>3, <2>5
<1>3. DOMAIN s = 1 .. Len(s) /\ DOMAIN t = 1 .. Len(t) /\ DOMAIN (s \o t) = 1 .. Len(s) + Len(t)
  BY <1>1
<1>4. ToSet(s \o t) \subseteq ToSet(s) \cup ToSet(t) /\ IsSeq(s \o t)
  <2>1. IsSeq(s \o t) /\ \A i \in DOMAIN (s \o t) : (s \o t)[i] \in ToSet(s) \cup ToSet(t)
    BY ConcatIsSeq
  <2> QED
    BY <2>1, Zenon DEF ToSet
<1>5. \A i \in DOMAIN s : s[i] \in ToSet(s \o t)
  <2>1. \A i \in 1 .. Len(s) : i \in 1 .. Len(s) + Len(t)
    BY <1>2
  <2> QED
    BY <1>2, <1>3, <2>1 DEF ToSet
<1>6. \A i \in DOMAIN t : t[i] \in ToSet(s \o t)
  <2>1. \A i \in 1 .. Len(t) : Len(s) + i \in 1 .. Len(s) + Len(t)
    BY <1>2
  <2> QED
    BY <1>2, <1>3, <2>1 DEF ToSet
<1> QED
  BY <1>4, <1>5, <1>6 DEF ToSet

LEMMA EntriesAreWritten ==
  ASSUME NEW table, DOMAIN MetasIn(table) \subseteq ToSet(MetaKeys),
         NEW section, section.entries = IniEntries(table)
  PROVE  IsWritten(section, table, {})
<1> DEFINE keys == Only(WrittenKeys, DOMAIN table)
           metas == MetasIn(table)
           names == Only(MetaKeys, DOMAIN metas)
           first == [i \in DOMAIN keys |-> KeyEntry(table, keys[i])]
           second == [i \in DOMAIN names |-> MetaEntry(metas, names[i])]
<1>1. keys \in Seq(Documented) /\ ToSet(keys) = Documented \cap DOMAIN table
  BY OnlyMembers, KeysAreWritten
<1>2. names \in Seq(STRING) /\ ToSet(names) = DOMAIN metas
  <2>1. names \in Seq(STRING) /\ ToSet(names) = ToSet(MetaKeys) \cap DOMAIN metas
    BY OnlyMembers, MetaKeysAssumption
  <2>2. DOMAIN metas \subseteq ToSet(MetaKeys)
    OBVIOUS
  <2> HIDE DEF names, metas
  <2> QED
    BY <2>1, <2>2
<1>3. section.entries = first \o second
  BY DEF IniEntries
<1> HIDE DEF keys, names, metas
<1>4. IsSeq(first) /\ IsSeq(second)
  BY <1>1, <1>2, MapOfSeq
<1>5. ToSet(first) = {KeyEntry(table, key) : key \in Documented \cap DOMAIN table}
  BY <1>1 DEF ToSet
<1>6. ToSet(second) = {MetaEntry(metas, name) : name \in DOMAIN metas}
  BY <1>2 DEF ToSet
<1> HIDE DEF first, second
<1>7. IsSeq(first \o second) /\ ToSet(first \o second) = ToSet(first) \cup ToSet(second)
  BY <1>4, MembersOfConcat
<1> QED
  BY <1>3, <1>5, <1>6, <1>7 DEF IsWritten, metas

Token(text) == [key |-> "token", of |-> "", v |-> text]

LEMMA TokenEntry ==
  ASSUME NEW text
  PROVE  Token(text).key = "token" /\ Token(text).v = text
BY DEF Token

LEMMA EntryKinds ==
  ASSUME NEW section, NEW table, NEW others, IsWritten(section, table, others),
         others \subseteq {Token(text) : text \in Seq(Pieces)}, NEW i \in DOMAIN section.entries
  PROVE  LET e == section.entries[i]
         IN  \/ \E key \in Documented \cap DOMAIN table : e = KeyEntry(table, key)
             \/ \E name \in DOMAIN MetasIn(table) : e = MetaEntry(MetasIn(table), name)
             \/ e \in others /\ e.key = "token"
<1>1. section.entries[i] \in ToSet(section.entries)
  BY DEF ToSet
<1>2. \A e \in others : e.key = "token"
  BY TokenEntry
<1> QED
  BY <1>1, <1>2 DEF IsWritten

(* A key is read as it was written, or is not there.                       *)
LEMMA KeyIsRead ==
  ASSUME NEW section, NEW table, NEW others, IsWritten(section, table, others),
         others \subseteq {Token(text) : text \in Seq(Pieces)}, NEW key \in Documented
  PROVE  /\ Has(section, DocumentedIniKey[key]) <=> key \in DOMAIN table
         /\ IniText(section, DocumentedIniKey[key]) =
              IF key \in DOMAIN table THEN IniValue(table[key]) ELSE NoText
<1> DEFINE iniKey == DocumentedIniKey[key]
           e(i) == section.entries[i]
<1>1. ASSUME NEW i \in Entries(section, iniKey)
      PROVE  key \in DOMAIN table /\ e(i).v = IniValue(table[key])
  <2>1. i \in DOMAIN section.entries /\ e(i).key = iniKey
    BY DEF Entries
  <2>2. PICK entry : entry = e(i)
    OBVIOUS
  <2>3. ASSUME NEW k \in Documented \cap DOMAIN table, entry = KeyEntry(table, k)
        PROVE  key \in DOMAIN table /\ entry.v = IniValue(table[key])
    <3>1. entry.key = DocumentedIniKey[k] /\ entry.v = IniValue(table[k])
      BY <2>3 DEF KeyEntry
    <3>2. WrittenAs[DocumentedIniKey[k]] = k /\ WrittenAs[iniKey] = key
      BY KeysDiffer
    <3> QED
      BY <2>1, <2>2, <3>1, <3>2
  <2>4. ASSUME NEW name \in DOMAIN MetasIn(table), entry = MetaEntry(MetasIn(table), name)
        PROVE  FALSE
    <3>1. entry.key = "meta_"
      BY <2>4 DEF MetaEntry
    <3> QED
      BY <2>1, <2>2, <3>1, KeysDiffer
  <2>5. entry.key # "token"
    BY <2>1, <2>2, KeysDiffer
  <2>6. \/ \E k \in Documented \cap DOMAIN table : entry = KeyEntry(table, k)
        \/ \E name \in DOMAIN MetasIn(table) : entry = MetaEntry(MetasIn(table), name)
        \/ entry.key = "token"
    BY <2>1, <2>2, EntryKinds
  <2> QED
    BY <2>2, <2>3, <2>4, <2>5, <2>6
<1>2. ASSUME key \in DOMAIN table PROVE Has(section, iniKey)
  <2>1. KeyEntry(table, key) \in ToSet(section.entries)
    BY <1>2 DEF IsWritten
  <2>2. PICK i \in DOMAIN section.entries : section.entries[i] = KeyEntry(table, key)
    BY <2>1 DEF ToSet
  <2>3. KeyEntry(table, key).key = iniKey
    BY DEF KeyEntry
  <2>4. i \in Entries(section, iniKey)
    BY <2>2, <2>3 DEF Entries
  <2> QED
    BY <2>4 DEF Has
<1>3. Has(section, iniKey) => key \in DOMAIN table
  BY <1>1 DEF Has
<1>4. CASE key \in DOMAIN table
  <2>1. IniText(section, iniKey) = IniValue(table[key])
    <3> HIDE DEF iniKey
    <3> QED
      BY <1>1, <1>2, <1>4, FirstEntry DEF IsWritten
  <2> QED
    BY <1>2, <1>4, <2>1
<1>5. CASE key \notin DOMAIN table
  BY <1>3, <1>5, NoEntry
<1> QED
  BY <1>4, <1>5

(* What no table is written as is not there.                               *)
LEMMA NotWritten ==
  ASSUME NEW section, NEW table, NEW others, IsWritten(section, table, others),
         others \subseteq {Token(text) : text \in Seq(Pieces)},
         NEW key \in {"role", "server_addr_from_remote", "server_addr_remote_url"}
  PROVE  ~Has(section, key) /\ IniText(section, key) = NoText
<1>1. ASSUME NEW i \in DOMAIN section.entries PROVE section.entries[i].key # key
  <2>1. PICK entry : entry = section.entries[i]
    OBVIOUS
  <2>2. \A k \in Documented : KeyEntry(table, k).key # key
    BY KeysDiffer DEF KeyEntry
  <2>3. \A name \in DOMAIN MetasIn(table) : MetaEntry(MetasIn(table), name).key # key
    BY DEF MetaEntry
  <2>4. \/ \E k \in Documented \cap DOMAIN table : entry = KeyEntry(table, k)
        \/ \E name \in DOMAIN MetasIn(table) : entry = MetaEntry(MetasIn(table), name)
        \/ entry.key = "token"
    BY <2>1, EntryKinds
  <2> QED
    BY <2>1, <2>2, <2>3, <2>4
<1>2. ~Has(section, key)
  BY <1>1 DEF Has, Entries
<1> QED
  BY <1>2, NoEntry

LEMMA TokenIsRead ==
  ASSUME NEW section, NEW table, NEW text \in Seq(Pieces),
         IsWritten(section, table, {Token(text)})
  PROVE  IniText(section, "token") = text
<1>1. ASSUME NEW i \in Entries(section, "token") PROVE section.entries[i].v = text
  <2>1. i \in DOMAIN section.entries /\ section.entries[i].key = "token"
    BY DEF Entries
  <2>2. PICK entry : entry = section.entries[i]
    OBVIOUS
  <2>3. \A k \in Documented : KeyEntry(table, k).key # "token"
    BY KeysDiffer DEF KeyEntry
  <2>4. \A name \in DOMAIN MetasIn(table) : MetaEntry(MetasIn(table), name).key # "token"
    BY DEF MetaEntry
  <2>5. \/ \E k \in Documented \cap DOMAIN table : entry = KeyEntry(table, k)
        \/ \E name \in DOMAIN MetasIn(table) : entry = MetaEntry(MetasIn(table), name)
        \/ entry \in {Token(text)}
    BY <2>1, <2>2, EntryKinds
  <2>6. entry = Token(text)
    BY <2>1, <2>2, <2>3, <2>4, <2>5
  <2> QED
    BY <2>2, <2>6, TokenEntry
<1>2. Token(text) \in ToSet(section.entries)
  BY DEF IsWritten
<1>3. PICK i \in DOMAIN section.entries : section.entries[i] = Token(text)
  BY <1>2 DEF ToSet
<1>4. i \in Entries(section, "token")
  BY <1>3, TokenEntry DEF Entries
<1>5. Has(section, "token")
  BY <1>4 DEF Has
<1> QED
  BY <1>1, <1>5, FirstEntry DEF IsWritten

(* The metadatas are read as they were written.                            *)
LEMMA MetasAreRead ==
  ASSUME NEW section, NEW table, IsWritten(section, table, {})
  PROVE  IniMap(section) = [name \in DOMAIN MetasIn(table) |-> MetasIn(table)[name].holds]
<1> DEFINE entries == section.entries
           named == Entries(section, "meta_")
           metas == MetasIn(table)
           given(of) == {i \in named : entries[i].of = of}
           last(of) == CHOOSE i \in given(of) : \A j \in given(of) : j <= i
<1>1. ASSUME NEW i \in named
      PROVE  entries[i].of \in DOMAIN metas /\ entries[i].v = metas[entries[i].of].holds
  <2>1. i \in DOMAIN entries /\ entries[i].key = "meta_"
    BY DEF Entries
  <2>2. PICK entry : entry = entries[i]
    OBVIOUS
  <2>3. \A k \in Documented : KeyEntry(table, k).key # "meta_"
    BY KeysDiffer DEF KeyEntry
  <2>4. PICK name \in DOMAIN metas : entry = MetaEntry(metas, name)
    BY <2>1, <2>2, <2>3, EntryKinds
  <2> QED
    BY <2>2, <2>4 DEF MetaEntry
<1>2. ASSUME NEW name \in DOMAIN metas PROVE \E i \in named : entries[i].of = name
  <2>1. MetaEntry(metas, name) \in ToSet(entries)
    BY DEF IsWritten
  <2>2. PICK i \in DOMAIN entries : entries[i] = MetaEntry(metas, name)
    BY <2>1 DEF ToSet
  <2>3. i \in named /\ entries[i].of = name
    BY <2>2 DEF Entries, MetaEntry
  <2> QED
    BY <2>3
<1>3. named \subseteq 1 .. Len(entries) /\ Len(entries) \in Nat
  BY SeqIsFunction DEF Entries, IsWritten
<1>4. IniMap(section) = [of \in {entries[i].of : i \in named} |-> entries[last(of)].v]
  BY DEF IniMap
<1>5. {entries[i].of : i \in named} = DOMAIN metas
  <2> HIDE DEF named, metas, entries
  <2> QED
    BY <1>1, <1>2
<1>6. ASSUME NEW name \in DOMAIN metas PROVE entries[last(name)].v = metas[name].holds
  <2>1. PICK T : T = given(name)
    OBVIOUS
  <2>2. T \subseteq 1 .. Len(entries) /\ T # {}
    BY <1>2, <1>3, <2>1
  <2>3. \E j \in T : \A k \in T : k <= j
    BY <1>3, <2>2, GreatestNumber
  <2>4. last(name) = CHOOSE j \in T : \A k \in T : k <= j
    BY <2>1
  <2>5. last(name) \in T
    BY <2>3, <2>4
  <2>6. last(name) \in named /\ entries[last(name)].of = name
    BY <2>1, <2>5
  <2> HIDE DEF last, named, metas, entries
  <2> QED
    BY <1>1, <2>6
<1> HIDE DEF last, named, metas, entries
<1>7. IniMap(section) = [name \in DOMAIN metas |-> metas[name].holds]
  BY <1>4, <1>5, <1>6
<1> QED
  BY <1>7 DEF metas

-----------------------------------------------------------------------------
(* What the readers of ini make of a written value                         *)

LEMMA TrimPiece ==
  ASSUME NEW x, x # Space
  PROVE  Trim(<<x>>) = <<x>>
<1> DEFINE text == <<x>>
           solid == {i \in DOMAIN text : text[i] # Space}
<1>1. DOMAIN text = {1} /\ text[1] = x
  OBVIOUS
<1>2. solid = {1}
  BY <1>1
<1>3. (CHOOSE i \in solid : \A j \in solid : i <= j) = 1
  BY <1>2
<1>4. (CHOOSE i \in solid : \A j \in solid : i >= j) = 1
  BY <1>2
<1>5. Trim(text) = SubSeq(text, 1, 1)
  <2>1. Trim(text) = SubSeq(text, CHOOSE i \in solid : \A j \in solid : i <= j,
                                  CHOOSE i \in solid : \A j \in solid : i >= j)
    BY <1>2 DEF Trim
  <2> HIDE DEF solid, text
  <2> QED
    BY <1>3, <1>4, <2>1
<1> QED
  BY <1>5

LEMMA TrimNothing == Trim(NoText) = NoText
BY DEF Trim, NoText

LEMMA WrittenNumber ==
  ASSUME NEW n \in Numerals, NEW numbers, NEW default, numbers \subseteq Numerals
  PROVE  NumberOr(<<ToString(n)>>, numbers, default) = IF n \in numbers THEN n ELSE default
<1> DEFINE text == <<ToString(n)>>
           read == {m \in numbers : Trim(text) = <<ToString(m)>>}
<1>1. Trim(text) = <<ToString(n)>>
  BY NumeralsAssumption, TrimPiece DEF Space
<1>2. ASSUME NEW m \in numbers PROVE Trim(text) = <<ToString(m)>> <=> m = n
  <2>1. PICK a, b : a = ToString(n) /\ b = ToString(m)
    OBVIOUS
  <2>2. <<a>> = <<b>> <=> a = b
    OBVIOUS
  <2>3. a = b <=> m = n
    BY <2>1, NumeralsAssumption
  <2> HIDE DEF text
  <2> QED
    BY <1>1, <2>1, <2>2, <2>3
<1>3. NumberOr(text, numbers, default) = IF read = {} THEN default ELSE CHOOSE m \in read : TRUE
  BY DEF NumberOr
<1>4. read = IF n \in numbers THEN {n} ELSE {}
  <2> HIDE DEF text
  <2> QED
    BY <1>2
<1> HIDE DEF read, text
<1>5. CASE n \in numbers
  BY <1>3, <1>4, <1>5 DEF text
<1>6. CASE n \notin numbers
  BY <1>3, <1>4, <1>6 DEF text
<1> QED
  BY <1>5, <1>6

LEMMA NoNumber ==
  ASSUME NEW numbers, NEW default
  PROVE  NumberOr(NoText, numbers, default) = default
<1>1. \A x : NoText # <<x>>
  BY DEF NoText
<1> QED
  BY <1>1, TrimNothing DEF NumberOr

(* The section has the entries of the table, and perhaps a token.          *)
Transcribes(section, table) ==
  \E others : /\ IsWritten(section, table, others)
              /\ others \subseteq {Token(text) : text \in Seq(Pieces)}

LEMMA TranscribedKey ==
  ASSUME NEW section, NEW table, Transcribes(section, table), NEW key \in Documented
  PROVE  /\ Has(section, DocumentedIniKey[key]) <=> key \in DOMAIN table
         /\ IniText(section, DocumentedIniKey[key]) =
              IF key \in DOMAIN table THEN IniValue(table[key]) ELSE NoText
<1>1. PICK others : /\ IsWritten(section, table, others)
                    /\ others \subseteq {Token(text) : text \in Seq(Pieces)}
  BY DEF Transcribes
<1> QED
  BY <1>1, KeyIsRead

LEMMA TextsAgree ==
  ASSUME NEW section, NEW table, Transcribes(section, table), NEW key \in Documented,
         key \in DOMAIN table => IsString(table[key])
  PROVE  IniText(section, DocumentedIniKey[key]) = ValueOr(table, key, "text", NoText)
<1>1. key \in DOMAIN table => IniValue(table[key]) = table[key].holds
  BY DEF IniValue, IsString
<1> QED
  BY <1>1, TranscribedKey DEF ValueOr, Parsed

LEMMA WrittenInteger ==
  ASSUME NEW value, NEW numbers, IsOneOf(value, numbers)
  PROVE  IniValue(value) = <<ToString(value.holds)>>
BY DEF IniValue, IsOneOf

LEMMA PortsAgree ==
  ASSUME NEW section, NEW table, Transcribes(section, table), NEW key \in Documented,
         key \in DOMAIN table => IsOneOf(table[key], Numerals)
  PROVE  IniPort(section, DocumentedIniKey[key]) = ValueOr(table, key, "port", 0)
<1> DEFINE ports == Numerals \cap (0 .. MaxPort)
<1>1. IniPort(section, DocumentedIniKey[key]) =
        NumberOr(IniText(section, DocumentedIniKey[key]), ports, 0)
  BY DEF IniPort
<1>2. CASE key \in DOMAIN table
  <2> DEFINE n == table[key].holds
  <2>1. n \in Numerals /\ table[key].kind = "integer"
    BY <1>2 DEF IsOneOf
  <2>2. IniText(section, DocumentedIniKey[key]) = <<ToString(n)>>
    BY <1>2, TranscribedKey, WrittenInteger
  <2>3. NumberOr(<<ToString(n)>>, ports, 0) = IF n \in ports THEN n ELSE 0
    BY <2>1, WrittenNumber
  <2>4. ValueOr(table, key, "port", 0) = IF n \in 0 .. MaxPort THEN n ELSE 0
    BY <1>2, <2>1 DEF ValueOr, Parsed
  <2>5. n \in ports <=> n \in 0 .. MaxPort
    BY <2>1
  <2> HIDE DEF n, ports
  <2> QED
    BY <1>1, <2>2, <2>3, <2>4, <2>5
<1>3. CASE key \notin DOMAIN table
  <2>1. IniText(section, DocumentedIniKey[key]) = NoText
    BY <1>3, TranscribedKey
  <2> QED
    BY <1>1, <1>3, <2>1, NoNumber DEF ValueOr
<1> QED
  BY <1>2, <1>3

LEMMA CountsAgree ==
  ASSUME NEW section, NEW table, Transcribes(section, table), NEW key \in Documented,
         key \in DOMAIN table => IsOneOf(table[key], Numerals) /\ table[key].holds > 0
  PROVE  NumberOr(IniText(section, DocumentedIniKey[key]), Numerals \ {0}, 512)
           = ValueOr(table, key, "count", 512)
<1>1. CASE key \in DOMAIN table
  <2> DEFINE n == table[key].holds
  <2>1. n \in Numerals /\ n > 0
    BY <1>1 DEF IsOneOf
  <2>2. n \in Nat
    BY <2>1, NumeralsAssumption
  <2>3. IniText(section, DocumentedIniKey[key]) = <<ToString(n)>>
    BY <1>1, TranscribedKey, WrittenInteger
  <2>4. NumberOr(<<ToString(n)>>, Numerals \ {0}, 512)
          = IF n \in Numerals \ {0} THEN n ELSE 512
    BY <2>1, WrittenNumber
  <2>5. ValueOr(table, key, "count", 512) = n
    BY <1>1 DEF ValueOr, Parsed
  <2>6. n \in Numerals \ {0}
    BY <2>1, <2>2
  <2> HIDE DEF n
  <2> QED
    BY <2>3, <2>4, <2>5, <2>6
<1>2. CASE key \notin DOMAIN table
  <2>1. IniText(section, DocumentedIniKey[key]) = NoText
    BY <1>2, TranscribedKey
  <2> QED
    BY <1>2, <2>1, NoNumber DEF ValueOr
<1> QED
  BY <1>1, <1>2

Yes == {<<"1">>, <<"true">>, <<"yes">>, <<"on">>}

(* Which flags of one piece are set.                                       *)
LEMMA FlagIsRead ==
  /\ Trim(NoText) \notin Yes
  /\ \A x : x # Space => (Trim(<<x>>) \in Yes <=> x \in {"1", "true", "yes", "on"})
<1>1. \A x, y : <<x>> # NoText /\ (<<x>> = <<y>> <=> x = y)
  BY DEF NoText
<1>2. Trim(NoText) \notin Yes
  BY <1>1, TrimNothing DEF Yes
<1>3. ASSUME NEW x, x # Space PROVE Trim(<<x>>) \in Yes <=> x \in {"1", "true", "yes", "on"}
  <2>1. Trim(<<x>>) = <<x>>
    BY <1>3, TrimPiece
  <2>2. <<x>> \in Yes <=> x \in {"1", "true", "yes", "on"}
    <3>1. <<x>> \in Yes <=> \/ <<x>> = <<"1">> \/ <<x>> = <<"true">>
                           \/ <<x>> = <<"yes">> \/ <<x>> = <<"on">>
      BY Zenon DEF Yes
    <3> QED
      BY <1>1, <3>1, Zenon
  <2> QED
    BY <2>1, <2>2
<1> QED
  BY <1>2, <1>3

LEMMA FlagsAgree ==
  ASSUME NEW section, NEW table, Transcribes(section, table), NEW key \in Documented,
         key \in DOMAIN table =>
           \/ table[key].kind = "boolean" /\ table[key].holds \in BOOLEAN
           \/ IsOneOf(table[key], {0, 1})
  PROVE  IniFlag(section, DocumentedIniKey[key]) = ValueOr(table, key, "flag", FALSE)
<1> DEFINE text == IniText(section, DocumentedIniKey[key])
<1>1. IniFlag(section, DocumentedIniKey[key]) = (Trim(text) \in Yes)
  BY DEF IniFlag, Yes
<1>2. CASE key \notin DOMAIN table
  <2>1. text = NoText
    BY <1>2, TranscribedKey
  <2>2. ValueOr(table, key, "flag", FALSE) = FALSE
    BY <1>2 DEF ValueOr
  <2> HIDE DEF text
  <2>3. Trim(text) \notin Yes
    BY <2>1, FlagIsRead
  <2>4. (Trim(text) \in Yes) = FALSE
    BY <2>3
  <2> QED
    BY <1>1, <2>2, <2>4, Zenon
<1>3. CASE key \in DOMAIN table /\ IsOneOf(table[key], {0, 1})
  <2> DEFINE n == table[key].holds
  <2>1. text = <<ToString(n)>>
    BY <1>3, TranscribedKey, WrittenInteger
  <2>2. ValueOr(table, key, "flag", FALSE) = (n # 0)
    BY <1>3 DEF ValueOr, Parsed, IsOneOf
  <2>3. n = 0 \/ n = 1
    BY <1>3 DEF IsOneOf
  <2> HIDE DEF text, n
  <2>4. PICK x : x = ToString(n)
    OBVIOUS
  <2>5. x = IF n = 0 THEN "0" ELSE "1"
    BY <2>3, <2>4, NumeralsAssumption
  <2>6. x # Space /\ (x \in {"1", "true", "yes", "on"} <=> n # 0)
    BY <2>3, <2>5 DEF Space
  <2>7. Trim(text) \in Yes <=> n # 0
    BY <2>1, <2>4, <2>6, FlagIsRead
  <2>8. (Trim(text) \in Yes) = (n # 0)
    BY <2>7
  <2> QED
    BY <1>1, <2>2, <2>8, Zenon
<1>4. CASE key \in DOMAIN table /\ table[key].kind = "boolean" /\ table[key].holds \in BOOLEAN
  <2>1. text = IF table[key].holds THEN <<"true">> ELSE <<"false">>
    BY <1>4, TranscribedKey DEF IniValue
  <2>2. ValueOr(table, key, "flag", FALSE) = table[key].holds
    BY <1>4 DEF ValueOr, Parsed
  <2>3. "true" # Space /\ "false" # Space /\ "true" \in {"1", "true", "yes", "on"}
        /\ "false" \notin {"1", "true", "yes", "on"}
    BY DEF Space
  <2>4. Trim(<<"true">>) \in Yes /\ Trim(<<"false">>) \notin Yes
    BY <2>3, FlagIsRead
  <2>5. CASE table[key].holds
    <3>1. (Trim(text) \in Yes) = TRUE /\ table[key].holds = TRUE
      BY <1>4, <2>1, <2>4, <2>5, Zenon
    <3> HIDE DEF text
    <3> QED
      BY <1>1, <2>2, <3>1, Zenon
  <2>6. CASE ~table[key].holds
    <3> HIDE DEF text
    <3>1. Trim(text) \notin Yes
      BY <2>1, <2>4, <2>6
    <3>2. (Trim(text) \in Yes) = FALSE
      BY <3>1
    <3>3. table[key].holds = FALSE
      BY <1>4, <2>6
    <3> QED
      BY <1>1, <2>2, <3>2, <3>3, Zenon
  <2> QED
    BY <2>5, <2>6
<1> QED
  BY <1>2, <1>3, <1>4

(* Items without commas and without blanks around them are split and       *)
(* trimmed to what they were.                                              *)
LEMMA ItemsAreSplit ==
  ASSUME NEW Q, Comma \in Q, NEW items \in Seq(Solid(Without(Q, Comma))),
         \A i \in DOMAIN items : Trim(items[i]) = items[i],
         NEW section, NEW key, IniText(section, key) = JoinWith(items, Comma)
  PROVE  IniTexts(section, key) = items
<1> DEFINE parts == Split(IniText(section, key), Comma)
           trimmed == [i \in DOMAIN parts |-> Trim(parts[i])]
<1>1. IniTexts(section, key) = NonEmpty(trimmed)
  BY DEF IniTexts
<1>2. items \in Texts(Without(Q, Comma))
  BY SolidIsText
<1>3. CASE items = << >>
  <2>1. parts = <<NoText>>
    BY <1>3, JoinNothing, SplitNothing DEF NoText
  <2>2. trimmed = <<NoText>>
    <3> HIDE DEF parts
    <3> QED
      BY <2>1, TrimNothing
  <2>3. NonEmpty(Append(<< >>, NoText)) = << >>
    <3>1. << >> \in Texts({}) /\ NoText \in Seq({})
      BY DEF Texts, NoText
    <3> QED
      BY <3>1, NonEmptyOneMore, NonEmptyNothing DEF Kept
  <2>4. Append(<< >>, NoText) = <<NoText>>
    OBVIOUS
  <2> QED
    BY <1>1, <1>3, <2>2, <2>3, <2>4
<1>4. CASE items # << >>
  <2>1. parts = items
    BY <1>2, <1>4, JoinThenSplit
  <2>2. items = [i \in DOMAIN items |-> items[i]]
    OBVIOUS
  <2>3. trimmed = items
    <3> HIDE DEF parts
    <3> QED
      BY <2>1, <2>2
  <2> QED
    BY <1>1, <2>3, NonEmptyKeepsSolid
<1> QED
  BY <1>3, <1>4

LEMMA ListsAgree ==
  ASSUME NEW section, NEW table, Transcribes(section, table), NEW key \in Documented,
         key \in DOMAIN table =>
           /\ TypedField(table[key]) /\ Accepts("texts", table[key])
           /\ \A i \in DOMAIN table[key].holds : IniItem(table[key].holds[i].holds)
  PROVE  IniTexts(section, DocumentedIniKey[key]) = ValueOr(table, key, "texts", NoText)
<1>1. CASE key \in DOMAIN table
  <2> DEFINE values == table[key].holds
             items == [i \in DOMAIN values |-> values[i].holds]
             Cut == Solid(Without(Pieces, Comma))
  <2>1. /\ table[key].kind = "array" /\ IsSeq(values)
        /\ \A i \in DOMAIN values : values[i].kind = "string" /\ WellTyped(values[i])
    BY <1>1 DEF TypedField, WellTyped, Places, Accepts, IsString, IsSeq
  <2>2. ASSUME NEW i \in DOMAIN values PROVE values[i].holds \in Cut
    <3>1. PICK text : text = values[i].holds
      OBVIOUS
    <3>2. text \in Seq(Pieces)
      BY <2>1, <3>1, TextsArePieces DEF WellTyped
    <3>3. text # << >> /\ ~Contains(text, Comma)
      BY <1>1, <3>1 DEF IniItem, NoText
    <3>4. text \in Seq(Without(Pieces, Comma))
      BY <3>2, <3>3, TextWithout
    <3> QED
      BY <3>1, <3>3, <3>4 DEF Solid
  <2>3. Len(values) \in Nat /\ DOMAIN values = 1 .. Len(values)
    BY <2>1, SeqIsFunction
  <2> HIDE DEF values, Cut
  <2>4. items \in [1 .. Len(values) -> Cut]
    BY <2>2, <2>3
  <2>5. items \in Seq(Cut)
    <3> HIDE DEF items
    <3> QED
      BY <2>3, <2>4
  <2>6. ValueOr(table, key, "texts", NoText) = items
    BY <1>1 DEF ValueOr, Parsed, values
  <2>7. IniText(section, DocumentedIniKey[key]) = JoinWith(items, Comma)
    <3>1. IniValue(table[key]) = JoinWith(items, Comma)
      BY <2>1 DEF IniValue, values
    <3> QED
      BY <1>1, <3>1, TranscribedKey
  <2>8. \A i \in DOMAIN items : Trim(items[i]) = items[i]
    BY <1>1 DEF IniItem, values
  <2> HIDE DEF items
  <2>9. IniTexts(section, DocumentedIniKey[key]) = items
    <3>1. PICK Q : Q = Pieces /\ Comma \in Q
      <4>1. Comma \in Pieces
        BY Zenon DEF Pieces
      <4> QED
        BY <4>1
    <3>2. items \in Seq(Solid(Without(Q, Comma)))
      BY <2>5, <3>1, Zenon DEF Cut
    <3>3. PICK k, cut : k = DocumentedIniKey[key] /\ cut = items
      OBVIOUS
    <3>4. /\ Comma \in Q /\ cut \in Seq(Solid(Without(Q, Comma)))
          /\ \A i \in DOMAIN cut : Trim(cut[i]) = cut[i]
          /\ IniText(section, k) = JoinWith(cut, Comma)
      BY <2>7, <2>8, <3>1, <3>2, <3>3
    <3>5. IniTexts(section, k) = cut
      BY <3>4, ItemsAreSplit
    <3> QED
      BY <3>3, <3>5
  <2> QED
    BY <2>6, <2>9
<1>2. CASE key \notin DOMAIN table
  <2>1. IniText(section, DocumentedIniKey[key]) = NoText
    BY <1>2, TranscribedKey
  <2>2. PICK Q : Q = {Comma}
    OBVIOUS
  <2>3. PICK items : items = << >> /\ items \in Seq(Solid(Without(Q, Comma)))
    <3>1. << >> \in Seq(Solid(Without(Q, Comma)))
      OBVIOUS
    <3> QED
      BY <3>1
  <2>4. DOMAIN items = {} /\ IniText(section, DocumentedIniKey[key]) = JoinWith(items, Comma)
    BY <2>1, <2>3, JoinNothing
  <2>5. IniTexts(section, DocumentedIniKey[key]) = << >>
    BY <2>2, <2>3, <2>4, ItemsAreSplit
  <2> QED
    BY <1>2, <2>5 DEF ValueOr, NoText
<1> QED
  BY <1>1, <1>2

-----------------------------------------------------------------------------
(* A proxy                                                                 *)

OwnIniFields(type) == {"localIP", "localPort"} \cup FieldsOfType(type)

LEMMA FieldsAreDocumented ==
  ASSUME NEW type \in ProxyTypes, NEW field \in OwnIniFields(type)
  PROVE  /\ field \in Documented /\ IniKey(field) = DocumentedIniKey[field]
         /\ field \in ProxyFields \ {"name", "type", "metadatas", "routeByHTTPUser"}
         /\ field \in DOMAIN ProxyParsers(type)
         /\ ProxyParsers(type)[field] = ParserOf(field)
<1>1. field \in {"localIP", "localPort", "remotePort", "customDomains", "subdomain",
                "locations", "httpUser", "httpPassword", "hostHeaderRewrite",
                "multiplexer", "secretKey", "allowUsers"}
  BY DEF OwnIniFields, FieldsOfType, ProxyTypes
<1>2. field \in Documented
  BY <1>1 DEF Documented
<1>3. IniKey(field) = DocumentedIniKey[field]
  BY <1>1 DEF IniKey, DocumentedIniKey
<1>4. field \in ProxyFields \ {"name", "type", "metadatas", "routeByHTTPUser"}
  BY <1>1 DEF ProxyFields, TextFields, ListFields, PortFields
<1>5. field \in DOMAIN ProxyParsers(type) /\ ProxyParsers(type)[field] = ParserOf(field)
  BY DEF ProxyParsers, OwnIniFields
<1> QED
  BY <1>2, <1>3, <1>4, <1>5

LEMMA FieldAgrees ==
  ASSUME NEW section, NEW table, Transcribes(section, table), NEW type \in ProxyTypes,
         \A key \in DOMAIN table : TypedField(table[key]),
         TableAccepted(table, ProxyParsers(type)), ExpressibleTable(table, ProxyParsers(type)),
         NEW field \in OwnIniFields(type)
  PROVE  IniField(section, field) = ValueOr(table, field, ParserOf(field), Unset(field))
<1>1. /\ field \in Documented /\ IniKey(field) = DocumentedIniKey[field]
      /\ field \in ProxyFields \ {"name", "type", "metadatas", "routeByHTTPUser"}
      /\ ProxyParsers(type)[field] = ParserOf(field)
  BY FieldsAreDocumented
<1>2. field \in DOMAIN table =>
        /\ TypedField(table[field]) /\ Accepts(ParserOf(field), table[field])
        /\ ParserOf(field) \in {"port", "count"} => IsOneOf(table[field], Numerals)
        /\ ParserOf(field) = "texts" =>
             \A i \in DOMAIN table[field].holds : IniItem(table[field].holds[i].holds)
  BY <1>1 DEF TableAccepted, ExpressibleTable
<1>3. CASE field \in ListFields
  <2>1. ParserOf(field) = "texts" /\ Unset(field) = NoText
        /\ IniField(section, field) = IniTexts(section, IniKey(field))
    BY <1>3 DEF ParserOf, Unset, IniField, ListFields, TextFields, PortFields
  <2> QED
    BY <1>1, <1>2, <2>1, ListsAgree
<1>4. CASE field \in PortFields
  <2>1. ParserOf(field) = "port" /\ Unset(field) = 0
        /\ IniField(section, field) = IniPort(section, IniKey(field))
    BY <1>4 DEF ParserOf, Unset, IniField, ListFields, TextFields, PortFields
  <2> QED
    BY <1>1, <1>2, <2>1, PortsAgree
<1>5. CASE field \in TextFields
  <2>1. ParserOf(field) = "text" /\ Unset(field) = NoText
        /\ IniField(section, field) = IniText(section, IniKey(field))
    BY <1>5 DEF ParserOf, Unset, IniField, ListFields, TextFields, PortFields
  <2>2. field \in DOMAIN table => IsString(table[field])
    BY <1>2, <2>1 DEF Accepts
  <2> QED
    BY <1>1, <2>1, <2>2, TextsAgree
<1> QED
  BY <1>1, <1>3, <1>4, <1>5 DEF ProxyFields

LEMMA MetasAreTyped ==
  ASSUME NEW value, TomlProxyAccepted(value), TypedItem(value)
  PROVE  /\ DOMAIN MetasIn(value.holds) \subseteq ToSet(MetaKeys)
         /\ TomlProxy(value)["metadatas"] =
              [key \in DOMAIN MetasIn(value.holds) |-> MetasIn(value.holds)[key].holds]
<1> DEFINE table == value.holds
<1>1. TomlProxy(value)["metadatas"] = ValueOr(table, "metadatas", "map", NoText)
  <2>1. "metadatas" \in ProxyFields /\ ParserOf("metadatas") = "map"
        /\ Unset("metadatas") = NoText
    BY DEF ProxyFields, ParserOf, TextFields, ListFields, PortFields, Unset
  <2> QED
    BY <2>1 DEF TomlProxy
<1>2. CASE "metadatas" \in DOMAIN table
  <2>1. ParserOf("metadatas") = "map" /\ ProxyParsers(TypeOf(table))["metadatas"] = "map"
    BY DEF ParserOf, TextFields, ListFields, PortFields, ProxyParsers
  <2>2. table["metadatas"].kind = "table"
    BY <1>2, <2>1 DEF TomlProxyAccepted, TableAccepted, Accepts
  <2>3. DOMAIN table["metadatas"].holds \subseteq ToSet(MetaKeys)
    BY <1>2, <2>2 DEF TypedItem, HasMetadatas, TomlProxyAccepted
  <2> QED
    BY <1>1, <1>2, <2>3 DEF MetasIn, ValueOr, Parsed
<1>3. CASE "metadatas" \notin DOMAIN table
  <2>1. MetasIn(table) = NoText /\ DOMAIN NoText = {}
    BY <1>3 DEF MetasIn, NoText
  <2>2. TomlProxy(value)["metadatas"] = NoText
    BY <1>1, <1>3 DEF ValueOr
  <2>3. NoText = [key \in {} |-> NoText[key].holds]
    BY DEF NoText
  <2> QED
    BY <2>1, <2>2, <2>3
<1> QED
  BY <1>2, <1>3

(* The section of a proxy is accepted, and gives the same proxy.           *)
LEMMA ProxiesAgree ==
  ASSUME NEW value, TomlProxyAccepted(value), TypedItem(value), ExpressibleProxy(value),
         NEW section, section.name = TomlProxy(value).name,
         section.entries = IniEntries(value.holds)
  PROVE  IniProxyAccepted(section) /\ IniProxy(section) = TomlProxy(value)
<1> DEFINE table == value.holds
           type == TypeOf(table)
           p == IniProxy(section)
           q == TomlProxy(value)
<1>1. IsWritten(section, table, {})
  BY MetasAreTyped, EntriesAreWritten
<1>2. Transcribes(section, table)
  BY <1>1 DEF Transcribes
<1>3. /\ type \in ProxyTypes /\ "type" \in DOMAIN table
      /\ IsString(table["type"]) /\ table["type"].holds = <<type>>
  BY DEF TomlProxyAccepted, TypeOf
<1>4. IniType(section) = <<type>>
  <2>1. "type" \in Documented /\ DocumentedIniKey["type"] = "type"
    BY DEF Documented, DocumentedIniKey
  <2>2. IniValue(table["type"]) = table["type"].holds
    BY <1>3 DEF IniValue, IsString
  <2>3. Has(section, "type") /\ IniText(section, "type") = <<type>>
    BY <1>2, <1>3, <2>1, <2>2, TranscribedKey
  <2> QED
    BY <2>3 DEF IniType
<1>5. IniProxyAccepted(section)
  <2>1. IniText(section, "role") = NoText
    BY <1>1, NotWritten
  <2>2. NoText # <<"visitor">>
    BY DEF NoText
  <2>3. IniType(section) \in {<<t>> : t \in ProxyTypes}
    BY <1>3, <1>4, Zenon
  <2> QED
    BY <2>1, <2>2, <2>3, Zenon DEF IniProxyAccepted
<1>6. ASSUME NEW field \in ProxyFields
      PROVE  p[field] = CASE field = "name" -> section.name
                          [] field = "type" -> type
                          [] field = "metadatas" -> IniMap(section)
                          [] field \in OwnIniFields(type) -> IniField(section, field)
                          [] OTHER -> Unset(field)
  <2>1. FieldsOfIniType(type) = FieldsOfType(type)
    BY <1>3 DEF FieldsOfIniType, FieldsOfType, ProxyTypes
  <2>2. IniType(section)[1] = type
    BY <1>4
  <2> QED
    BY <2>1, <2>2 DEF IniProxy, OwnIniFields
<1>7. /\ \A key \in DOMAIN table : TypedField(table[key])
      /\ TableAccepted(table, ProxyParsers(type)) /\ ExpressibleTable(table, ProxyParsers(type))
  BY DEF TypedItem, Places, TomlProxyAccepted, ExpressibleProxy
<1>8. \A field \in ProxyFields \ OwnFields(type) : q[field] = Unset(field)
  <2>1. q.type = type
    BY DEF TomlProxy, ProxyFields
  <2> QED
    BY <2>1, TomlProxyTyped DEF ProxyInv
<1>9. q["type"] = type /\ q["name"] = section.name
  BY DEF TomlProxy, ProxyFields
<1>10. q["metadatas"] = IniMap(section)
  BY <1>1, MetasAreTyped, MetasAreRead
<1>11. ASSUME NEW field \in OwnIniFields(type) PROVE q[field] = IniField(section, field)
  <2>1. IniField(section, field) = ValueOr(table, field, ParserOf(field), Unset(field))
    BY <1>2, <1>3, <1>7, FieldAgrees
  <2>2. field \in ProxyFields \ {"name", "type", "metadatas", "routeByHTTPUser"}
    BY <1>3, FieldsAreDocumented
  <2>3. q[field] = ValueOr(table, field, ParserOf(field), Unset(field))
    BY <2>2 DEF TomlProxy
  <2> QED
    BY <2>1, <2>3
<1>12. /\ p = [field \in ProxyFields |-> p[field]]
       /\ q = [field \in ProxyFields |-> q[field]]
  BY DEF IniProxy, TomlProxy
<1> HIDE DEF p, q, table, type
<1>13. ASSUME NEW field \in ProxyFields PROVE p[field] = q[field]
  <2>1. field \in {"name", "type", "metadatas"} \/ field \in OwnIniFields(type)
        \/ field \in ProxyFields \ OwnFields(type)
    BY DEF OwnFields, OwnIniFields
  <2>2. CASE field \in {"name", "type", "metadatas"}
    <3>1. field \notin OwnIniFields(type)
      BY <1>3, <2>2, FieldsAreDocumented
    <3> QED
      BY <1>6, <1>9, <1>10, <2>2, <3>1
  <2>3. CASE field \in OwnIniFields(type)
    <3>1. field \notin {"name", "type", "metadatas"}
      BY <1>3, <2>3, FieldsAreDocumented
    <3> QED
      BY <1>6, <1>11, <2>3, <3>1
  <2>4. CASE field \in ProxyFields \ OwnFields(type)
    <3>1. field \notin {"name", "type", "metadatas"} /\ field \notin OwnIniFields(type)
      BY <2>4 DEF OwnFields, OwnIniFields
    <3> QED
      BY <1>6, <1>8, <2>4, <3>1
  <2> QED
    BY <2>1, <2>2, <2>3, <2>4
<1>14. p = q
  BY <1>12, <1>13
<1> QED
  BY <1>5, <1>14 DEF p, q

-----------------------------------------------------------------------------
(* A file                                                                  *)

(* All but the first are kept.                                             *)
LEMMA OnlyTheRest ==
  ASSUME NEW A, NEW first \in A, NEW rest \in Seq(A), NEW members,
         first \notin members, ToSet(rest) \subseteq members
  PROVE  Only(<<first>> \o rest, members) = rest
<1> DEFINE seq == <<first>> \o rest
           q == CHOOSE kept : IsKept(kept, seq, members)
           n == Len(rest)
<1>1. /\ seq \in Seq(A) /\ Len(seq) = n + 1 /\ n \in Nat /\ seq[1] = first
      /\ \A i \in 1 .. n : seq[i + 1] = rest[i]
  OBVIOUS
<1>2. IsKept(q, seq, members)
  <2> HIDE DEF seq
  <2> QED
    BY <1>1, KeptExists
<1>3. Only(seq, members) = q[n + 1]
  BY <1>1 DEF Only, IsKept
<1> HIDE DEF q, seq
<1>4. q[0] = << >>
  BY <1>1, <1>2 DEF IsKept
<1>5. ASSUME NEW k \in 1 .. n + 1
      PROVE  q[k] = IF seq[k] \in members THEN Append(q[k - 1], seq[k]) ELSE q[k - 1]
  <2>1. k \in 0 .. Len(seq) /\ k # 0 /\ k > 0
    BY <1>1
  <2> QED
    BY <1>2, <2>1 DEF IsKept
<1> DEFINE T == {k \in Nat : k <= n => q[k + 1] = SubSeq(rest, 1, k)}
<1>6. 0 \in T
  <2>1. SubSeq(rest, 1, 0) = << >>
    OBVIOUS
  <2>2. 1 \in 1 .. n + 1 /\ q[1 - 1] = q[0]
    BY <1>1
  <2>3. q[1] = << >>
    BY <1>1, <1>4, <1>5, <2>2
  <2>4. q[0 + 1] = SubSeq(rest, 1, 0) /\ 0 \in Nat
    <3>1. 0 + 1 = 1
      OBVIOUS
    <3> QED
      BY <2>1, <2>3, <3>1
  <2> QED
    BY <2>4
<1>7. ASSUME NEW k \in Nat, k \in T PROVE k + 1 \in T
  <2> SUFFICES ASSUME k + 1 <= n PROVE q[(k + 1) + 1] = SubSeq(rest, 1, k + 1)
    OBVIOUS
  <2>1. k <= n /\ k + 1 \in 1 .. n /\ (k + 1) + 1 \in 1 .. n + 1 /\ ((k + 1) + 1) - 1 = k + 1
    BY <1>1
  <2>2. q[k + 1] = SubSeq(rest, 1, k)
    BY <1>7, <2>1
  <2>3. seq[(k + 1) + 1] = rest[k + 1] /\ rest[k + 1] \in members
    BY <1>1, <2>1 DEF ToSet
  <2>4. q[(k + 1) + 1] = Append(SubSeq(rest, 1, k), rest[k + 1])
    BY <1>5, <2>1, <2>2, <2>3
  <2>5. Append(SubSeq(rest, 1, k), rest[k + 1]) = SubSeq(rest, 1, k + 1)
    BY <2>1
  <2> QED
    BY <2>4, <2>5
<1>8. Nat \subseteq T
  <2> HIDE DEF T
  <2> QED
    BY <1>6, <1>7, NumberInduction
<1>9. q[n + 1] = SubSeq(rest, 1, n)
  BY <1>1, <1>8
<1>10. SubSeq(rest, 1, n) = rest
  OBVIOUS
<1> QED
  BY <1>3, <1>9, <1>10 DEF seq

(* The section "common" and the sections of the proxies.                   *)
RootTable(root) == [key \in DOMAIN root \ {"metadatas"} |-> root[key]]

IniCommon(root) ==
  [name |-> <<"common">>,
   entries |-> IniEntries(RootTable(root))
               \o <<[key |-> "token", of |-> "", v |-> TomlConfig(root).token]>>]

IniSectionOf(value) == [name |-> TomlProxy(value).name, entries |-> IniEntries(value.holds)]

IniSections(root) ==
  [i \in DOMAIN Elements(root, "proxies") |-> IniSectionOf(Elements(root, "proxies")[i])]

LEMMA SectionsOfRoot == ASSUME NEW root PROVE AsIni(root) = <<IniCommon(root)>> \o IniSections(root)
BY DEF AsIni, IniCommon, IniSections, IniSectionOf, RootTable

LEMMA CommonIsWritten ==
  ASSUME NEW root, TomlAccepted(root), \A key \in DOMAIN root : TypedSetting(root[key])
  PROVE  /\ IsWritten(IniCommon(root), RootTable(root), {Token(TomlConfig(root)["token"])})
         /\ TomlConfig(root)["token"] \in Seq(Pieces)
<1> DEFINE table == RootTable(root)
           token == TomlConfig(root)["token"]
           entries == IniEntries(table)
           part == [entries |-> entries]
<1>1. MetasIn(table) = NoText /\ DOMAIN NoText = {}
  BY DEF MetasIn, RootTable, NoText
<1>2. IsWritten(part, table, {})
  BY <1>1, EntriesAreWritten
<1>3. /\ IsSeq(entries)
      /\ ToSet(entries) = {KeyEntry(table, key) : key \in Documented \cap DOMAIN table}
                          \cup {MetaEntry(MetasIn(table), name) : name \in DOMAIN MetasIn(table)}
  BY <1>2 DEF IsWritten
<1>4. IniCommon(root).entries = entries \o <<Token(token)>>
  BY DEF IniCommon, Token
<1>5. IsSeq(<<Token(token)>>) /\ ToSet(<<Token(token)>>) = {Token(token)}
  <2>1. PICK t : t = Token(token)
    OBVIOUS
  <2>2. <<t>> \in Seq({t}) /\ DOMAIN <<t>> = {1} /\ <<t>>[1] = t
    OBVIOUS
  <2>3. ToSet(<<t>>) = {t}
    BY <2>2 DEF ToSet
  <2> QED
    BY <2>1, <2>2, <2>3 DEF IsSeq
<1>6. token \in Seq(Pieces)
  BY TomlSettingsTyped DEF TextKeys
<1> HIDE DEF entries, token, table
<1>7. /\ IsSeq(entries \o <<Token(token)>>)
      /\ ToSet(entries \o <<Token(token)>>) = ToSet(entries) \cup {Token(token)}
  BY <1>3, <1>5, MembersOfConcat
<1>8. IsWritten(IniCommon(root), table, {Token(token)})
  BY <1>3, <1>4, <1>7 DEF IsWritten
<1> QED
  BY <1>6, <1>8 DEF token, table

(* A setting of the root is one of the written table.                      *)
LEMMA RootIsWritten ==
  ASSUME NEW root, NEW key, key # "metadatas", NEW parser, NEW default
  PROVE  /\ key \in DOMAIN RootTable(root) <=> key \in DOMAIN root
         /\ key \in DOMAIN root => RootTable(root)[key] = root[key]
         /\ ValueOr(RootTable(root), key, parser, default) = ValueOr(root, key, parser, default)
BY DEF RootTable, ValueOr

(* The keys that the section "common" is read with.                        *)
RootTexts == {"user", "serverAddr", "sshPrivateKey", "sshKnownHosts"}
RootFlags == {"metadatasEnabled", "rename", "userDoublePrefix"}

LEMMA SettingsAgree ==
  ASSUME NEW root, TomlAccepted(root), ExpressibleTable(root, RootParsers),
         \A key \in DOMAIN root : TypedSetting(root[key])
  PROVE  LET common == IniCommon(root)
             c == TomlConfig(root)
         IN  /\ \A key \in RootTexts : IniText(common, DocumentedIniKey[key]) = c[key]
             /\ \A key \in RootFlags : IniFlag(common, DocumentedIniKey[key]) = c[key]
             /\ IniPort(common, DocumentedIniKey["serverPort"]) = c["serverPort"]
             /\ NumberOr(IniText(common, DocumentedIniKey["maxForwardConnections"]),
                         Numerals \ {0}, 512) = c["maxForwardConnections"]
             /\ IniText(common, "token") = c["token"]
<1> DEFINE common == IniCommon(root)
           table == RootTable(root)
           c == TomlConfig(root)
<1>1. Transcribes(common, table)
  <2>1. PICK others : IsWritten(common, table, others)
                      /\ others \subseteq {Token(text) : text \in Seq(Pieces)}
    <3>1. PICK t : t = TomlConfig(root)["token"]
      OBVIOUS
    <3>2. {Token(t)} \subseteq {Token(text) : text \in Seq(Pieces)}
      BY <3>1, CommonIsWritten
    <3> QED
      BY <3>1, <3>2, CommonIsWritten
  <2> QED
    BY <2>1 DEF Transcribes
<1>2. ASSUME NEW key \in RootTexts \cup RootFlags \cup {"serverPort", "maxForwardConnections"}
      PROVE  /\ key \in Documented /\ key # "metadatas"
             /\ c[key] = ValueOr(table, key, RootParsers[key], DefaultConfig[key])
             /\ key \in DOMAIN table =>
                  /\ table[key] = root[key]
                  /\ WellTyped(table[key]) /\ Accepts(RootParsers[key], table[key])
                  /\ RootParsers[key] \in {"port", "count"} => IsOneOf(table[key], Numerals)
                  /\ RootParsers[key] = "flag" =>
                       table[key].kind = "boolean" \/ IsOneOf(table[key], {0, 1})
  <2>1. /\ key \in Documented /\ key # "metadatas"
        /\ key \in ConfigKeys \ {"token", "proxies", "visitors"}
    BY DEF RootTexts, RootFlags, Documented, ConfigKeys
  <2>2. c[key] = ValueOr(root, key, RootParsers[key], DefaultConfig[key])
    BY <2>1, RootSettings
  <2>3. c[key] = ValueOr(table, key, RootParsers[key], DefaultConfig[key])
    BY <2>1, <2>2, RootIsWritten
  <2>4. key \in DOMAIN table => key \in DOMAIN root /\ table[key] = root[key]
    BY <2>1, RootIsWritten
  <2>5. key \in DOMAIN root =>
          /\ WellTyped(root[key]) /\ Accepts(RootParsers[key], root[key])
          /\ RootParsers[key] \in {"port", "count"} => IsOneOf(root[key], Numerals)
          /\ RootParsers[key] = "flag" => root[key].kind = "boolean" \/ IsOneOf(root[key], {0, 1})
    BY DEF TypedSetting, TomlAccepted, TableAccepted, ExpressibleTable
  <2> QED
    BY <2>1, <2>3, <2>4, <2>5
<1> HIDE DEF common, table, c
<1>3. ASSUME NEW key \in RootTexts PROVE IniText(common, DocumentedIniKey[key]) = c[key]
  <2>1. RootParsers[key] = "text" /\ DefaultConfig[key] = NoText
    BY DEF RootTexts, RootParsers, DefaultConfig
  <2>2. key \in DOMAIN table => IsString(table[key])
    BY <1>2, <2>1 DEF Accepts
  <2> QED
    BY <1>1, <1>2, <2>1, <2>2, TextsAgree
<1>4. ASSUME NEW key \in RootFlags PROVE IniFlag(common, DocumentedIniKey[key]) = c[key]
  <2>1. RootParsers[key] = "flag" /\ DefaultConfig[key] = FALSE
    BY DEF RootFlags, RootParsers, DefaultConfig
  <2>2. key \in DOMAIN table =>
          \/ table[key].kind = "boolean" /\ table[key].holds \in BOOLEAN
          \/ IsOneOf(table[key], {0, 1})
    BY <1>2, <2>1 DEF WellTyped
  <2>3. c[key] = ValueOr(table, key, "flag", FALSE)
    BY <1>2, <2>1
  <2>4. IniFlag(common, DocumentedIniKey[key]) = ValueOr(table, key, "flag", FALSE)
    BY <1>1, <1>2, <2>2, FlagsAgree
  <2> QED
    BY <2>3, <2>4, Zenon
<1>5. IniPort(common, DocumentedIniKey["serverPort"]) = c["serverPort"]
  <2>1. RootParsers["serverPort"] = "port" /\ DefaultConfig["serverPort"] = 0
    BY DEF RootParsers, DefaultConfig
  <2>2. /\ "serverPort" \in Documented
        /\ "serverPort" \in DOMAIN table => IsOneOf(table["serverPort"], Numerals)
        /\ c["serverPort"] = ValueOr(table, "serverPort", "port", 0)
    BY <1>2, <2>1
  <2> QED
    BY <1>1, <2>2, PortsAgree
<1>6. NumberOr(IniText(common, DocumentedIniKey["maxForwardConnections"]), Numerals \ {0}, 512)
        = c["maxForwardConnections"]
  <2> DEFINE key == "maxForwardConnections"
  <2>1. RootParsers[key] = "count" /\ DefaultConfig[key] = 512
    BY DEF RootParsers, DefaultConfig
  <2> key \in Documented /\ c[key] = ValueOr(table, key, "count", 512)
    BY <1>2, <2>1
  <2>2. key \in DOMAIN table => IsOneOf(table[key], Numerals) /\ Accepts("count", table[key])
    BY <1>2, <2>1
  <2>3. key \in DOMAIN table => table[key].holds > 0
    BY <2>2 DEF Accepts, IsOneOf
  <2> QED
    BY <1>1, <2>2, <2>3, CountsAgree
<1>7. IniText(common, "token") = c["token"]
  BY CommonIsWritten, TokenIsRead DEF common, c
<1> QED
  BY <1>3, <1>4, <1>5, <1>6, <1>7 DEF common, c

LEMMA SectionsAgree ==
  ASSUME NEW root, TomlAccepted(root), ExpressibleInIni(root),
         \A key \in DOMAIN root : TypedSetting(root[key])
  PROVE  LET sections == AsIni(root)
             rest == IniSections(root)
         IN  /\ IsSeq(sections) /\ Common(sections) # {}
             /\ CommonSection(sections) = IniCommon(root)
             /\ IsSeq(rest) /\ DOMAIN rest = DOMAIN Elements(root, "proxies")
             /\ IniProxies(sections) = rest
             /\ \A i \in DOMAIN rest :
                  /\ IniProxyAccepted(rest[i])
                  /\ IniProxy(rest[i]) = TomlProxy(Elements(root, "proxies")[i])
<1> DEFINE sections == AsIni(root)
           rest == IniSections(root)
           common == IniCommon(root)
           values == Elements(root, "proxies")
<1>1. IsSeq(values)
  BY RootItems
<1>2. DOMAIN rest = DOMAIN values /\ \A i \in DOMAIN values : rest[i] = IniSectionOf(values[i])
  BY DEF IniSections
<1>3. IsSeq(rest) /\ Len(rest) = Len(values)
  <2>1. rest = [i \in DOMAIN values |-> rest[i]]
    BY DEF IniSections
  <2> HIDE DEF rest, values
  <2> QED
    BY <1>1, <2>1, MapOfSeq DEF IsSeq
<1>4. ASSUME NEW i \in DOMAIN values
      PROVE  /\ TomlProxyAccepted(values[i]) /\ TypedItem(values[i])
             /\ ExpressibleProxy(values[i])
  <2>1. "proxies" \in DOMAIN root
    BY <1>4, EmptyIsSeq DEF Elements
  <2>2. values = root["proxies"].holds
    BY <2>1 DEF Elements
  <2>3. TomlProxyAccepted(values[i]) /\ ExpressibleProxy(values[i])
    BY <2>2 DEF TomlAccepted, ExpressibleInIni
  <2>4. root["proxies"].kind = "array"
    <3>1. RootParsers["proxies"] = "array"
      BY DEF RootParsers
    <3> QED
      BY <2>1, <3>1 DEF TomlAccepted, TableAccepted, Accepts
  <2>5. TypedItem(values[i])
    BY <2>1, <2>2, <2>4 DEF TypedSetting, Places
  <2> QED
    BY <2>3, <2>5
<1> HIDE DEF rest, values
<1>5. ASSUME NEW i \in DOMAIN values
      PROVE  /\ rest[i].name # <<"common">> /\ IniProxyAccepted(rest[i])
             /\ IniProxy(rest[i]) = TomlProxy(values[i])
  <2>1. rest[i].name = TomlProxy(values[i]).name /\ rest[i].entries = IniEntries(values[i].holds)
    BY <1>2 DEF IniSectionOf
  <2>2. rest[i].name # <<"common">>
    BY <1>4, <2>1 DEF ExpressibleProxy
  <2>3. IniProxyAccepted(rest[i]) /\ IniProxy(rest[i]) = TomlProxy(values[i])
    BY <1>4, <2>1, ProxiesAgree
  <2> QED
    BY <2>2, <2>3
<1> DEFINE A == {common} \cup ToSet(rest)
<1>6. sections = <<common>> \o rest
  BY SectionsOfRoot DEF rest
<1>7. rest \in Seq(A) /\ common \in A
  BY <1>3 DEF IsSeq
<1>8. common.name = <<"common">>
  BY DEF IniCommon
<1> HIDE DEF sections, common, A
<1>9. /\ sections \in Seq(A) /\ Len(sections) = Len(rest) + 1 /\ Len(rest) \in Nat
      /\ sections[1] = common /\ \A i \in 1 .. Len(rest) : sections[i + 1] = rest[i]
  BY <1>6, <1>7
<1>10. IsSeq(sections)
  BY <1>9, MembersAreSeqs
<1>11. DOMAIN rest = 1 .. Len(rest)
  BY <1>7
<1>12. Common(sections) = {1}
  <2>1. DOMAIN sections = 1 .. Len(rest) + 1
    BY <1>9
  <2>2. ASSUME NEW i \in DOMAIN sections, i # 1 PROVE sections[i].name # <<"common">>
    <3>1. i - 1 \in 1 .. Len(rest) /\ (i - 1) + 1 = i
      BY <1>9, <2>1, <2>2
    <3>2. sections[i] = rest[i - 1] /\ i - 1 \in DOMAIN values
      BY <1>2, <1>9, <1>11, <3>1
    <3> QED
      BY <1>5, <3>2
  <2>3. 1 \in DOMAIN sections /\ sections[1].name = <<"common">>
    BY <1>8, <1>9, <2>1
  <2> QED
    BY <2>2, <2>3 DEF Common
<1>13. CommonSection(sections) = common
  <2>1. (CHOOSE i \in {1} : \A j \in {1} : i <= j) = 1
    OBVIOUS
  <2> QED
    BY <1>9, <1>12, <2>1 DEF CommonSection
<1>14. IniProxies(sections) = rest
  <2> DEFINE members == {s \in ToSet(sections) : s.name # <<"common">>}
  <2>1. common \notin members
    BY <1>8
  <2>2. ToSet(rest) \subseteq members
    <3>1. ASSUME NEW i \in DOMAIN rest PROVE rest[i] \in members
      <4>1. rest[i].name # <<"common">>
        BY <1>2, <1>5
      <4>2. i + 1 \in DOMAIN sections /\ rest[i] = sections[i + 1]
        BY <1>9, <1>11
      <4> QED
        BY <4>1, <4>2 DEF ToSet
    <3> QED
      BY <3>1 DEF ToSet
  <2> HIDE DEF members
  <2>3. Only(sections, members) = rest
    BY <1>6, <1>7, <2>1, <2>2, OnlyTheRest
  <2> QED
    BY <2>3 DEF IniProxies, members
<1>15. Common(sections) # {}
  BY <1>12
<1> QED
  BY <1>2, <1>3, <1>5, <1>10, <1>13, <1>14, <1>15 DEF sections, rest, common, values

LEMMA ConfigsAgree ==
  ASSUME NEW root, ExpressibleInIni(root), \A key \in DOMAIN root : TypedSetting(root[key])
  PROVE  IniAccepted(AsIni(root)) /\ IniConfig(AsIni(root)) = TomlConfig(root)
<1> DEFINE sections == AsIni(root)
           common == CommonSection(sections)
           rest == IniSections(root)
           proxies == IniProxies(sections)
           c == IniConfig(sections)
           d == TomlConfig(root)
<1>1. TomlAccepted(root) /\ ExpressibleTable(root, RootParsers)
  BY DEF ExpressibleInIni
<1>2. common = IniCommon(root) /\ proxies = rest
  BY <1>1, SectionsAgree
<1>3. ASSUME NEW i \in DOMAIN rest
      PROVE  IniProxyAccepted(rest[i]) /\ IniProxy(rest[i]) = TomlProxy(Elements(root, "proxies")[i])
  BY <1>1, SectionsAgree
<1>4. IniAccepted(sections)
  <2>1. Common(sections) # {}
    BY <1>1, SectionsAgree
  <2>2. ~Has(common, "server_addr_from_remote") /\ ~Has(common, "server_addr_remote_url")
    <3>1. PICK t \in Seq(Pieces) : IsWritten(IniCommon(root), RootTable(root), {Token(t)})
      BY <1>1, CommonIsWritten
    <3>2. {Token(t)} \subseteq {Token(text) : text \in Seq(Pieces)}
      OBVIOUS
    <3> QED
      BY <1>2, <3>1, <3>2, NotWritten
  <2>3. \A section \in ToSet(proxies) : IniProxyAccepted(section)
    BY <1>2, <1>3 DEF ToSet
  <2> QED
    BY <2>1, <2>2, <2>3 DEF IniAccepted
<1>5. c = [key \in ConfigKeys |-> c[key]] /\ d = [key \in ConfigKeys |-> d[key]]
  BY KeysOfConfig DEF IniConfig, TomlConfig
<1>6. /\ c["user"] = IniText(common, "user") /\ c["token"] = IniText(common, "token")
      /\ c["serverAddr"] = IniText(common, "server_addr")
      /\ c["serverPort"] = IniPort(common, "server_port")
      /\ c["metadatasEnabled"] = IniFlag(common, "metadatas_enabled")
      /\ c["rename"] = IniFlag(common, "rename")
      /\ c["userDoublePrefix"] = IniFlag(common, "user_double_prefix")
      /\ c["sshPrivateKey"] = IniText(common, "ssh_private_key")
      /\ c["sshKnownHosts"] = IniText(common, "ssh_known_hosts")
      /\ c["maxForwardConnections"] =
           NumberOr(IniText(common, "max_forward_connections"), Numerals \ {0}, 512)
      /\ c["includes"] = << >> /\ c["visitors"] = << >>
      /\ c["proxies"] = [i \in DOMAIN proxies |->
                           [section \in ToSet(proxies) |-> IniProxy(section)][proxies[i]]]
  BY DEF IniConfig, DefaultConfig
<1>7. /\ DocumentedIniKey["user"] = "user" /\ DocumentedIniKey["serverAddr"] = "server_addr"
      /\ DocumentedIniKey["serverPort"] = "server_port"
      /\ DocumentedIniKey["metadatasEnabled"] = "metadatas_enabled"
      /\ DocumentedIniKey["rename"] = "rename"
      /\ DocumentedIniKey["userDoublePrefix"] = "user_double_prefix"
      /\ DocumentedIniKey["sshPrivateKey"] = "ssh_private_key"
      /\ DocumentedIniKey["sshKnownHosts"] = "ssh_known_hosts"
      /\ DocumentedIniKey["maxForwardConnections"] = "max_forward_connections"
  BY DEF DocumentedIniKey
<1>8. d["includes"] = << >> /\ d["visitors"] = << >>
  <2>1. d["includes"] = ValueOr(root, "includes", "texts", << >>)
    BY RootSettings DEF ConfigKeys, RootParsers, DefaultConfig
  <2>2. d["includes"] = [i \in DOMAIN Elements(root, "includes") |-> root["includes"].holds[i].holds]
    <3>1. CASE "includes" \in DOMAIN root
      BY <2>1, <3>1 DEF ValueOr, Parsed, Elements
    <3>2. CASE "includes" \notin DOMAIN root
      BY <2>1, <3>2 DEF ValueOr, Elements
    <3> QED
      BY <3>1, <3>2
  <2>3. d["visitors"] = [i \in DOMAIN Elements(root, "visitors") |-> TomlVisitor(root["visitors"].holds[i])]
    BY KeysOfConfig DEF TomlConfig, ConfigKeys
  <2>4. Elements(root, "includes") = << >> /\ Elements(root, "visitors") = << >>
    BY DEF ExpressibleInIni
  <2> QED
    BY <2>2, <2>3, <2>4
<1>9. c["proxies"] = d["proxies"]
  <2>1. d["proxies"] = [i \in DOMAIN Elements(root, "proxies") |-> TomlProxy(root["proxies"].holds[i])]
    BY KeysOfConfig DEF TomlConfig, ConfigKeys
  <2>2. DOMAIN rest = DOMAIN Elements(root, "proxies")
    BY <1>1, SectionsAgree
  <2>3. ASSUME NEW i \in DOMAIN rest PROVE Elements(root, "proxies")[i] = root["proxies"].holds[i]
    BY <2>2, <2>3, EmptyIsSeq DEF Elements
  <2>4. \A i \in DOMAIN rest : [section \in ToSet(rest) |-> IniProxy(section)][rest[i]] = IniProxy(rest[i])
    BY DEF ToSet
  <2> HIDE DEF c, d, rest, proxies
  <2> QED
    BY <1>2, <1>3, <1>6, <2>1, <2>2, <2>3, <2>4
<1>10. /\ \A key \in RootTexts : IniText(common, DocumentedIniKey[key]) = d[key]
       /\ \A key \in RootFlags : IniFlag(common, DocumentedIniKey[key]) = d[key]
       /\ IniPort(common, "server_port") = d["serverPort"]
       /\ NumberOr(IniText(common, "max_forward_connections"), Numerals \ {0}, 512)
            = d["maxForwardConnections"]
       /\ IniText(common, "token") = d["token"]
  <2> HIDE DEF common
  <2> QED
    BY <1>1, <1>2, <1>7, SettingsAgree
<1> HIDE DEF c, d, common, proxies, rest
<1>11. ASSUME NEW key \in RootTexts PROVE c[key] = d[key]
  BY <1>6, <1>7, <1>10 DEF RootTexts
<1>12. ASSUME NEW key \in RootFlags PROVE c[key] = d[key]
  <2>1. IniFlag(common, DocumentedIniKey[key]) = d[key]
    BY <1>10, Zenon
  <2>2. CASE key = "metadatasEnabled"
    <3>1. DocumentedIniKey[key] = "metadatas_enabled"
      BY <1>7, <2>2, Zenon
    <3>2. c[key] = IniFlag(common, "metadatas_enabled")
      BY <1>6, <2>2, Zenon
    <3> QED
      BY <2>1, <3>1, <3>2, Zenon
  <2>3. CASE key = "rename"
    <3>1. DocumentedIniKey[key] = "rename"
      BY <1>7, <2>3, Zenon
    <3>2. c[key] = IniFlag(common, "rename")
      BY <1>6, <2>3, Zenon
    <3> QED
      BY <2>1, <3>1, <3>2, Zenon
  <2>4. CASE key = "userDoublePrefix"
    <3>1. DocumentedIniKey[key] = "user_double_prefix"
      BY <1>7, <2>4, Zenon
    <3>2. c[key] = IniFlag(common, "user_double_prefix")
      BY <1>6, <2>4, Zenon
    <3> QED
      BY <2>1, <3>1, <3>2, Zenon
  <2> QED
    BY <2>2, <2>3, <2>4, Zenon DEF RootFlags
<1>13. c["serverPort"] = d["serverPort"] /\ c["token"] = d["token"]
       /\ c["maxForwardConnections"] = d["maxForwardConnections"]
  BY <1>6, <1>10
<1>14. \A key \in ConfigKeys :
         key \in RootTexts \cup RootFlags
           \cup {"serverPort", "token", "maxForwardConnections", "includes", "visitors", "proxies"}
  BY DEF ConfigKeys, RootTexts, RootFlags
<1>15. \A key \in ConfigKeys : c[key] = d[key]
  BY <1>6, <1>8, <1>9, <1>11, <1>12, <1>13, <1>14
<1>16. c = d
  BY <1>5, <1>15
<1> QED
  BY <1>4, <1>16 DEF c, d

(* A file of either format that says the same gives the same configuration, *)
(* for all that ini can say (toml_load::parse, ini_load::parse).            *)
THEOREM TheLoadersAgree == Spec => []LoadersAgree
<1>1. LoadInv => LoadersAgree
  <2> SUFFICES ASSUME LoadInv, IsFile(args.config), MainFile.format = "toml",
                      ExpressibleInIni(MainFile.root)
               PROVE  /\ IniAccepted(AsIni(MainFile.root))
                      /\ IniConfig(AsIni(MainFile.root)) = TomlConfig(MainFile.root)
    BY DEF LoadersAgree
  <2>1. \A key \in DOMAIN MainFile.root : TypedSetting(MainFile.root[key])
    BY DEF LoadInv, FilesTyped, TypedFile, IsFile, MainFile
  <2> QED
    BY <2>1, ConfigsAgree
<1> QED
  BY <1>1, LoadInvariant, PTL
=============================================================================
