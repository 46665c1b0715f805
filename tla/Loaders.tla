------------------------------ MODULE Loaders ------------------------------
(***************************************************************************)
(* The two loaders, from the parsed text of one file to a configuration:   *)
(* TOML (src/src/config/toml_load.rs) and legacy INI (ini_load.rs). The    *)
(* syntax of both is left out; so are the texts of errors and warnings: an *)
(* error is that the file is not accepted.                                 *)
(*                                                                         *)
(* A toml::Value is a record of its kind and its contents; a table is a    *)
(* function of its keys. An ini section has a name and its entries, in the *)
(* order of the file; the key of an entry named meta_x is "meta_", and x   *)
(* is its `of`.                                                            *)
(***************************************************************************)
EXTENDS Configuration, Integers

CONSTANT Numerals  \* the numbers that ini files are written with

ASSUME NumeralsAssumption ==
  /\ Numerals \subseteq Nat
  /\ \A m, n \in Numerals : ToString(m) = ToString(n) => m = n
  /\ \A n \in Numerals : ToString(n) # " "
  /\ ToString(0) = "0" /\ ToString(1) = "1"

MaxPort == 65535

-----------------------------------------------------------------------------
(* Faulty variants, used by no specification.                              *)

(* The keys of httpUser and httpPassword are swapped.                      *)
IniKeySwapped(field) ==
  CASE field = "httpUser" -> "http_pwd"
    [] field = "httpPassword" -> "http_user"
    [] field = "localIP" -> "local_ip"
    [] field = "localPort" -> "local_port"
    [] field = "remotePort" -> "remote_port"
    [] field = "customDomains" -> "custom_domains"
    [] field = "hostHeaderRewrite" -> "host_header_rewrite"
    [] field = "secretKey" -> "sk"
    [] field = "allowUsers" -> "allow_users"
    [] OTHER -> field

(* A port that does not fit is kept.                                       *)
ParsedAnyPort(parser, value) ==
  CASE parser \in {"text", "count"} -> value.holds
    [] parser = "texts" -> [i \in DOMAIN value.holds |-> value.holds[i].holds]
    [] parser = "map"   -> [key \in DOMAIN value.holds |-> value.holds[key].holds]
    [] parser = "flag"  -> IF value.kind = "boolean" THEN value.holds ELSE value.holds # 0
    [] parser = "port"  -> IF value.kind = "integer" THEN value.holds ELSE 0

(* Every key is accepted for every type.                                   *)
FieldsOfAnyType(type) ==
  {"remotePort", "customDomains", "subdomain", "locations", "httpUser",
   "httpPassword", "hostHeaderRewrite", "multiplexer", "secretKey", "allowUsers"}

-----------------------------------------------------------------------------
(* TOML values *)

String(text)    == [kind |-> "string", holds |-> text]
Integer(number) == [kind |-> "integer", holds |-> number]
Boolean(flag)   == [kind |-> "boolean", holds |-> flag]
Array(values)   == [kind |-> "array", holds |-> values]
Table(entries)  == [kind |-> "table", holds |-> entries]

IsString(value) == value.kind = "string"

(* What the parser of a key makes of a value: parse_string and parse_path, *)
(* parse_string_vec, parse_map, parse_bool, parse_usize, parse_port.       *)
Accepts(parser, value) ==
  CASE parser = "text"  -> IsString(value)
    [] parser = "texts" -> value.kind = "array"
                           /\ \A i \in DOMAIN value.holds : IsString(value.holds[i])
    [] parser = "map"   -> value.kind = "table"
                           /\ \A key \in DOMAIN value.holds : IsString(value.holds[key])
    [] parser = "flag"  -> value.kind \in {"boolean", "integer"}
    [] parser = "count" -> value.kind = "integer" /\ value.holds > 0
    [] parser = "array" -> value.kind = "array"
    [] parser \in {"port", "ignored"} -> TRUE

(* A port that does not fit is treated as unset, whatever it is.           *)
Parsed(parser, value) ==
  CASE parser \in {"text", "count"} -> value.holds
    [] parser = "texts" -> [i \in DOMAIN value.holds |-> value.holds[i].holds]
    [] parser = "map"   -> [key \in DOMAIN value.holds |-> value.holds[key].holds]
    [] parser = "flag"  -> IF value.kind = "boolean" THEN value.holds ELSE value.holds # 0
    [] parser = "port"  -> IF value.kind = "integer" /\ value.holds \in 0 .. MaxPort
                           THEN value.holds ELSE 0

(* The table has no key without a parser, and every value is accepted.     *)
TableAccepted(table, parsers) ==
  \A key \in DOMAIN table : key \in DOMAIN parsers /\ Accepts(parsers[key], table[key])

ValueOr(table, key, parser, default) ==
  IF key \in DOMAIN table THEN Parsed(parser, table[key]) ELSE default

-----------------------------------------------------------------------------
(* Proxies and visitors in TOML *)

(* The keys a proxy may have besides the common ones: frps registers other *)
(* flags for each type.                                                    *)
FieldsOfType(type) ==
  CASE type = "tcp"    -> {"remotePort"}
    [] type = "http"   -> {"customDomains", "subdomain", "locations", "httpUser",
                           "httpPassword", "hostHeaderRewrite"}
    [] type = "https"  -> {"customDomains", "subdomain"}
    [] type = "tcpmux" -> {"customDomains", "subdomain", "multiplexer",
                           "httpUser", "httpPassword"}
    [] type = "stcp"   -> {"secretKey", "allowUsers"}

(* The keys that are read and not forwarded.                               *)
Swallowed(type) ==
  CASE type = "http"   -> {"routeByHTTPUser", "requestHeaders"}
    [] type = "tcpmux" -> {"routeByHTTPUser"}
    [] OTHER -> {}

ParserOf(field) ==
  CASE field \in TextFields -> "text"
    [] field \in ListFields -> "texts"
    [] field \in PortFields -> "port"
    [] field = "metadatas"  -> "map"
    [] field \in {"type", "requestHeaders"} -> "ignored"

ProxyParsers(type) ==
  [key \in {"name", "type", "localIP", "localPort", "metadatas"}
           \cup FieldsOfType(type) \cup Swallowed(type) |-> ParserOf(key)]

TypeOf(table) == table["type"].holds[1]

TomlProxyAccepted(value) ==
  /\ value.kind = "table"
  /\ "type" \in DOMAIN value.holds
  /\ IsString(value.holds["type"])
  /\ value.holds["type"].holds \in {<<type>> : type \in ProxyTypes}
  /\ TableAccepted(value.holds, ProxyParsers(TypeOf(value.holds)))

TomlProxy(value) ==
  [field \in ProxyFields |->
     CASE field = "type" -> TypeOf(value.holds)
       [] field = "routeByHTTPUser" -> NoText
       [] OTHER -> ValueOr(value.holds, field, ParserOf(field), Unset(field))]

VisitorParsers ==
  [key \in VisitorFields |-> IF key = "bindPort" THEN "port" ELSE "text"]

TomlVisitorAccepted(value) ==
  value.kind = "table" /\ TableAccepted(value.holds, VisitorParsers)

TomlVisitor(value) ==
  [field \in VisitorFields |->
     ValueOr(value.holds, field, VisitorParsers[field],
             IF field = "bindPort" THEN 0 ELSE NoText)]

-----------------------------------------------------------------------------
(* The root of a TOML file *)

(* auth is a table of its own, and the removed keys are unknown ones with  *)
(* a message of their own.                                                 *)
RootParsers ==
  [auth |-> "map", user |-> "text", serverAddr |-> "text", serverPort |-> "port",
   metadatasEnabled |-> "flag", metadatas |-> "map", rename |-> "flag",
   userDoublePrefix |-> "flag", sshPrivateKey |-> "text", sshKnownHosts |-> "text",
   maxForwardConnections |-> "count", includes |-> "texts",
   proxies |-> "array", visitors |-> "array"]

Elements(root, key) == IF key \in DOMAIN root THEN root[key].holds ELSE << >>

(* parse_auth: a table with two keys, of which the method is not kept.     *)
AuthAccepted(root) ==
  "auth" \in DOMAIN root => DOMAIN root["auth"].holds \subseteq {"method", "token"}

AuthToken(root) ==
  IF "auth" \in DOMAIN root
  THEN ValueOr(root["auth"].holds, "token", "text", NoText) ELSE NoText

TomlAccepted(root) ==
  /\ TableAccepted(root, RootParsers)
  /\ AuthAccepted(root)
  /\ \A i \in DOMAIN Elements(root, "proxies") :
       TomlProxyAccepted(root["proxies"].holds[i])
  /\ \A i \in DOMAIN Elements(root, "visitors") :
       TomlVisitorAccepted(root["visitors"].holds[i])

(* parse() up to load_includes. Client-level metadatas are not kept.       *)
TomlConfig(root) ==
  [key \in DOMAIN DefaultConfig |->
     CASE key = "token" -> AuthToken(root)
       [] key = "proxies" ->
            [i \in DOMAIN Elements(root, key) |-> TomlProxy(root[key].holds[i])]
       [] key = "visitors" ->
            [i \in DOMAIN Elements(root, key) |-> TomlVisitor(root[key].holds[i])]
       [] OTHER -> ValueOr(root, key, RootParsers[key], DefaultConfig[key])]

-----------------------------------------------------------------------------
(* INI sections *)

Entries(section, key) == {i \in DOMAIN section.entries : section.entries[i].key = key}

Has(section, key) == Entries(section, key) # {}

(* Section::get: the first entry of a key.                                 *)
IniText(section, key) ==
  IF Has(section, key)
  THEN section.entries[CHOOSE i \in Entries(section, key) :
                         \A j \in 1 .. i - 1 : section.entries[j].key # key].v
  ELSE NoText

IniTexts(section, key) ==
  LET items == Split(IniText(section, key), Comma)
  IN  NonEmpty([i \in DOMAIN items |-> Trim(items[i])])

IniFlag(section, key) ==
  Trim(IniText(section, key)) \in {<<"1">>, <<"true">>, <<"yes">>, <<"on">>}

(* parse::<u16>() or parse::<usize>() of a text.                           *)
NumberOr(text, numbers, default) ==
  LET read == {n \in numbers : Trim(text) = <<ToString(n)>>}
  IN  IF read = {} THEN default ELSE CHOOSE n \in read : TRUE

IniPort(section, key) ==
  NumberOr(IniText(section, key), Numerals \cap (0 .. MaxPort), 0)

(* prefixed(): all entries of the section; the last one of a name counts.  *)
IniMap(section) ==
  LET metas == Entries(section, "meta_")
      given(of) == {i \in metas : section.entries[i].of = of}
  IN  [of \in {section.entries[i].of : i \in metas} |->
         section.entries[CHOOSE i \in given(of) : \A j \in given(of) : j <= i].v]

IniKey(field) ==
  CASE field = "localIP" -> "local_ip"
    [] field = "localPort" -> "local_port"
    [] field = "remotePort" -> "remote_port"
    [] field = "customDomains" -> "custom_domains"
    [] field = "httpUser" -> "http_user"
    [] field = "httpPassword" -> "http_pwd"
    [] field = "hostHeaderRewrite" -> "host_header_rewrite"
    [] field = "secretKey" -> "sk"
    [] field = "allowUsers" -> "allow_users"
    [] OTHER -> field

IniField(section, field) ==
  CASE field \in ListFields -> IniTexts(section, IniKey(field))
    [] field \in PortFields -> IniPort(section, IniKey(field))
    [] OTHER -> IniText(section, IniKey(field))

(* The match on the proxy type: keys of other types are dropped.           *)
FieldsOfIniType(type) ==
  CASE type = "tcp"    -> {"remotePort"}
    [] type = "http"   -> {"subdomain", "customDomains", "locations", "httpUser",
                           "httpPassword", "hostHeaderRewrite"}
    [] type = "https"  -> {"subdomain", "customDomains"}
    [] type = "tcpmux" -> {"subdomain", "customDomains", "multiplexer",
                           "httpUser", "httpPassword"}
    [] type = "stcp"   -> {"secretKey", "allowUsers"}

(* No type at all is tcp.                                                  *)
IniType(section) ==
  IF Has(section, "type") THEN IniText(section, "type") ELSE <<"tcp">>

IniProxyAccepted(section) ==
  /\ IniText(section, "role") # <<"visitor">>
  /\ IniType(section) \in {<<type>> : type \in ProxyTypes}

(* Keys that nobody knows are dropped as well.                             *)
IniProxy(section) ==
  LET type == IniType(section)[1]
  IN  [field \in ProxyFields |->
         CASE field = "name" -> section.name
           [] field = "type" -> type
           [] field = "metadatas" -> IniMap(section)
           [] field \in {"localIP", "localPort"} \cup FieldsOfIniType(type) ->
                IniField(section, field)
           [] OTHER -> Unset(field)]

Common(sections) == {i \in DOMAIN sections : sections[i].name = <<"common">>}

CommonSection(sections) ==
  sections[CHOOSE i \in Common(sections) : \A j \in Common(sections) : i <= j]

IniProxies(sections) == Only(sections, {s \in ToSet(sections) : s.name # <<"common">>})

IniAccepted(sections) ==
  /\ Common(sections) # {}
  /\ ~Has(CommonSection(sections), "server_addr_from_remote")
  /\ ~Has(CommonSection(sections), "server_addr_remote_url")
  /\ \A section \in ToSet(IniProxies(sections)) : IniProxyAccepted(section)

IniConfig(sections) ==
  LET common == CommonSection(sections)
      proxies == IniProxies(sections)
      proxyOf == [section \in ToSet(proxies) |-> IniProxy(section)]
  IN  [DefaultConfig EXCEPT
        !.user = IniText(common, "user"),
        !.token = IniText(common, "token"),
        !.serverAddr = IniText(common, "server_addr"),
        !.serverPort = IniPort(common, "server_port"),
        !.metadatasEnabled = IniFlag(common, "metadatas_enabled"),
        !.rename = IniFlag(common, "rename"),
        !.userDoublePrefix = IniFlag(common, "user_double_prefix"),
        !.sshPrivateKey = IniText(common, "ssh_private_key"),
        !.sshKnownHosts = IniText(common, "ssh_known_hosts"),
        !.maxForwardConnections =
          NumberOr(IniText(common, "max_forward_connections"), Numerals \ {0}, @),
        !.proxies = [i \in DOMAIN proxies |-> proxyOf[proxies[i]]]]
=============================================================================
