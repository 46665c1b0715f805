----------------------------- MODULE MCStartup -----------------------------
(***************************************************************************)
(* Instances of Startup: directories and command lines in four families,   *)
(* each of which varies one thing, and the directories of CompletesOnce.   *)
(***************************************************************************)
EXTENDS Startup

MCFileOrder == << <<"[", "b">>, <<"a">>, <<"b">>, <<"c">>, <<"m">> >>

MCAlphabet == <<"!", "*", "-", "/", "?", "[", "\\", "]", "^", "a", "b", "c", "m">>

MCNumerals == {0, 1, 22, 2200, 6001, 65535, 65536, 70000}

MCExPieces == {"ex_1_", "ex_2_", "ex_3_", "ex_7_"}

MCMetaKeys == <<"a", "z">>

Bare(text) == [name |-> "", inline |-> FALSE, v |-> text]
Switch(name) == [name |-> name, inline |-> FALSE, v |-> NoText]
SwitchTo(name, text) == [name |-> name, inline |-> TRUE, v |-> text]

Launch(directory, tokens) == [files |-> directory, argv |-> tokens]

TomlFile(root) == [format |-> "toml", renders |-> TRUE, root |-> root]
IniFile(sections) == [format |-> "ini", renders |-> TRUE, sections |-> sections]
Unrendered == [format |-> "broken", renders |-> FALSE]
Broken == [format |-> "broken", renders |-> TRUE]
Directory == [format |-> "directory"]

(* A table without the keys whose value is the empty text.                 *)
Given(table) ==
  [key \in {k \in DOMAIN table : table[k].kind # "string" \/ table[k].holds # NoText} |->
     table[key]]

Texts(texts) == Array([i \in DOMAIN texts |-> String(texts[i])])

Item(name, port) ==
  Table(Given([name |-> String(name), type |-> String(<<"tcp">>), localPort |-> Integer(port)]))

Visitor(name, port) ==
  Table([name |-> String(name), type |-> String(<<"stcp">>), serverName |-> String(<<"s">>),
         bindPort |-> Integer(port)])

-----------------------------------------------------------------------------
(* Which files include which, with which users                             *)

Patterns ==
  { <<"a">>, <<"b">>, <<"*">>, <<"?">>, <<"[", "a", "-", "b", "]">>,
    <<"[", "!", "m", "]">>, <<"a", "*">>, <<"a", "a">> }

IncludeLists ==
  {<< >>} \cup {<<p>> : p \in Patterns} \cup {<<p, q>> : p, q \in Patterns}

IncludingFile(user, includes, name, port) ==
  TomlFile(Given([user |-> String(user), userDoublePrefix |-> Boolean(TRUE),
                  includes |-> Texts(includes), proxies |-> Array(<<Item(name, port)>>),
                  visitors |-> Array(<<Visitor(name, port)>>)]))

Includes ==
  {Launch(<<"m">> :> IncludingFile(<<"u">>, main, <<"p">>, 1)
          @@ <<"a">> :> IncludingFile(user, inA, <<"q">>, 22)
          @@ <<"b">> :> IncludingFile(NoText, << >>, <<"r">>, 2200)
          @@ <<"c">> :> c, << >>) :
     main \in IncludeLists, user \in {NoText, <<"w">>},
     inA \in {<< >>, << <<"b">> >>, << <<"m">> >>},
     c \in {Directory, Broken, Unrendered,
            IniFile(<<[name |-> <<"common">>, entries |-> << >>]>>)}}

-----------------------------------------------------------------------------
(* What a proxy has for keys                                               *)

SpecificKeys == (ProxyFields \cup {"requestHeaders"})
                  \ {"name", "type", "localIP", "localPort", "metadatas"}

KeySets ==
  {{}} \cup {{k} : k \in SpecificKeys} \cup {{k, l} : k, l \in SpecificKeys}
    \cup {FieldsOfType(type) : type \in ProxyTypes}
    \cup {{"subdomain", "multiplexer", k} : k \in SpecificKeys}

(* The value of a key in a style: well-formed or of another kind; short,   *)
(* with a space, with a prefix of the user's own, quoted, like a flag.     *)
ValueOf(key, style) ==
  LET text == CASE key = "multiplexer" -> <<"httpconnect">>
                [] style = "spaced" -> <<"x", " ", "y">>
                [] style = "prefixed" -> <<"ex_7_", "x">>
                [] style = "quoted" -> <<"\"", "x">>
                [] style = "flag" -> <<"--sd">>
                [] OTHER -> <<"x">>
  IN  CASE style = "wrong" -> Integer(70000)
        [] key = "remotePort" -> Integer(IF style = "spaced" THEN 65536 ELSE 6001)
        [] key \in ListFields -> Texts(<<text, <<"y">> >>)
        [] OTHER -> String(text)

ProxyTable(type, keys, style) ==
  Table([key \in keys \cup {"name", "type", "localPort", "metadatas"} |->
           CASE key = "name" -> String(IF style = "prefixed" THEN <<"ex_1_", "n">> ELSE <<"n">>)
             [] key = "type" -> String(<<type>>)
             [] key = "localPort" -> Integer(22)
             [] key = "metadatas" ->
                  Table([k \in {"a", "z"} |->
                           String(IF style = "prefixed" THEN <<"v", ",", "v">> ELSE <<"v">>)])
             [] OTHER -> ValueOf(key, style)])

ProxyFile(proxy, metadatas) ==
  TomlFile([auth |-> Table([token |-> String(<<"t">>), method |-> String(<<"token">>)]),
            user |-> String(<<"u">>), serverAddr |-> String(<<"h">>),
            serverPort |-> Integer(2200), metadatasEnabled |-> metadatas,
            rename |-> Integer(1), maxForwardConnections |-> Integer(1),
            metadatas |-> Table([a |-> String(<<"v">>)]),
            proxies |-> Array(<<proxy>>)])

Proxying ==
  {Launch(<<"m">> :> ProxyFile(ProxyTable(type, keys, style), Boolean(TRUE)), << >>) :
     type \in ProxyTypes \cup {"udp"}, keys \in KeySets,
     style \in {"plain", "spaced", "prefixed", "quoted", "flag", "wrong"}}

(* The elements of a set in some order.                                    *)
InSomeOrder(set) == FoldSet(LAMBDA element, seq : Append(seq, element), << >>, set)

(* The same keys in an ini section, where they are dropped or read.        *)
IniSection(type, keys) ==
  [name |-> <<"n">>,
   entries |-> <<[key |-> "type", of |-> "", v |-> <<type>>],
                 [key |-> "meta_", of |-> "a", v |-> <<"v">>],
                 [key |-> "meta_", of |-> "a", v |-> <<"w">>]>>
               \o InSomeOrder({[key |-> IniKey(key), of |-> "", v |-> ValueOf(key, "plain").holds] :
                              key \in keys \cap TextFields})
               \o InSomeOrder({[key |-> IniKey(key), of |-> "", v |-> <<"x", ",", " ", ",", " ", "y">>] :
                              key \in keys \cap ListFields})]

CommonWith(entry) ==
  [name |-> <<"common">>,
   entries |-> <<[key |-> "token", of |-> "", v |-> <<"t">>], entry>>]

IniLaunches ==
  {Launch(<<"m">> :> IniFile(<<CommonWith(entry), IniSection(type, keys)>>), << >>) :
     type \in ProxyTypes \cup {"udp"}, keys \in KeySets,
     entry \in {[key |-> "metadatas_enabled", of |-> "", v |-> <<"on">>],
                [key |-> "max_forward_connections", of |-> "", v |-> <<"0">>],
                [key |-> "ssh_known_hosts", of |-> "", v |-> <<"k">>],
                [key |-> "server_addr_remote_url", of |-> "", v |-> <<"h">>]}}
  \cup
  {Launch(<<"m">> :> IniFile(sections), << >>) :
     sections \in {<< >>, <<IniSection("tcp", {})>>,
                   <<CommonWith([key |-> "rename", of |-> "", v |-> <<"yes">>]),
                     [name |-> <<"n">>, entries |-> << >>],
                     [name |-> <<"o">>, entries |->
                        <<[key |-> "role", of |-> "", v |-> <<"visitor">>]>>]>>}}

-----------------------------------------------------------------------------
(* The command line                                                        *)

Tokens ==
  {Switch("--rename"), SwitchTo("--rename", <<"false">>), SwitchTo("--rename", <<"maybe">>),
   Switch("--no-rename"), Switch("--metadatas"), SwitchTo("--metadatas", <<"0">>),
   Switch("--no-metadatas"), Switch("-v"), Switch("-c"), SwitchTo("-c", <<"b">>),
   Switch("--ssh-private-key"), Bare(<<"b">>)}

(* Options that may take each other for their value.                       *)
Chained ==
  {Switch("--ssh-private-key"), Switch("-c"), Switch("--rename"), Switch("--no-rename"),
   Bare(<<"b">>)}

Arguing ==
  {Launch(<<"m">> :> ProxyFile(ProxyTable("tcp", {}, "plain"), metadatas)
          @@ <<"b">> :> ProxyFile(ProxyTable("https", {"subdomain"}, "plain"), Boolean(TRUE)),
          tokens) :
     metadatas \in {Boolean(FALSE), Boolean(TRUE), String(<<"true">>)},
     tokens \in UNION {[1 .. n -> Tokens] : n \in 1 .. 2}
                \cup {<<s, t, s>> : s, t \in Tokens}}
  \cup
  {Launch(<<"m">> :> ProxyFile(ProxyTable("tcp", {}, "plain"), Boolean(TRUE))
          @@ <<"b">> :> ProxyFile(ProxyTable("https", {"subdomain"}, "plain"), Boolean(TRUE)),
          tokens) : tokens \in [1 .. 4 -> Chained]}

MCLaunches == Includes \cup Proxying \cup IniLaunches \cup Arguing

-----------------------------------------------------------------------------
(* A file that includes another, which has a user or not: the launches of  *)
(* CompletesOnce.                                                          *)
PrefixLaunches ==
  {Launch(<<"m">> :> IncludingFile(<<"u">>, << <<"a">> >>, <<"p">>, 1)
          @@ <<"a">> :> IncludingFile(user, includes, <<"q">>, 22)
          @@ <<"b">> :> IncludingFile(user, << >>, <<"r">>, 2200), << >>) :
     user \in {NoText, <<"w">>}, includes \in {<< >>, << <<"b">> >>}}
=============================================================================
