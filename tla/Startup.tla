------------------------------ MODULE Startup ------------------------------
(***************************************************************************)
(* From the command line to a running client (src/src/lib.rs, cli.rs): the *)
(* arguments, the configuration file with the files it includes            *)
(* (config/mod.rs, config/toml_load.rs), the overrides, the validation.    *)
(*                                                                         *)
(* The recursion of toml_load::parse is a stack of frames, one per file    *)
(* that is being loaded: a file that includes itself never leaves it. The  *)
(* file system is one directory, chosen once and not written meanwhile.    *)
(***************************************************************************)
EXTENDS Loaders, Commands, Wildcard

CONSTANTS
  Launches,   \* what the program may find: a directory, and its arguments
  FileOrder,  \* all names of files, sorted
  MaxDepth    \* bound: nested calls of parse before the stack overflows

ASSUME DepthAssumption == MaxDepth \in Nat \ {0}

(* What the toml parser makes of a file: a value holds what its kind says, *)
(* and so do the values in it, as deep as the loader looks.                *)
WellTyped(value) ==
  /\ value.kind = "string"  => value.holds \in AnyText
  /\ value.kind = "boolean" => value.holds \in BOOLEAN
  /\ value.kind = "integer" => value.holds \in Int
  /\ value.kind = "array"   => value.holds \in Seq(ToSet(value.holds))

Places(value) == IF value.kind \in {"array", "table"} THEN DOMAIN value.holds ELSE {}

TypedField(value) ==
  WellTyped(value) /\ \A place \in Places(value) : WellTyped(value.holds[place])

HasMetadatas(value) ==
  /\ value.kind = "table"
  /\ "metadatas" \in DOMAIN value.holds
  /\ value.holds["metadatas"].kind = "table"

TypedItem(value) ==
  /\ WellTyped(value)
  /\ \A place \in Places(value) : TypedField(value.holds[place])
  /\ HasMetadatas(value) =>
       DOMAIN value.holds["metadatas"].holds \subseteq ToSet(MetaKeys)

TypedSetting(value) ==
  WellTyped(value) /\ \A place \in Places(value) : TypedItem(value.holds[place])

(* What the ini parser makes of a file: sections of entries.               *)
TypedSection(section) ==
  /\ section.name \in AnyText
  /\ section.entries \in Seq(ToSet(section.entries))
  /\ \A entry \in ToSet(section.entries) :
       entry.v \in AnyText /\ (entry.key = "meta_" => entry.of \in ToSet(MetaKeys))

TypedFile(file) ==
  /\ file.format = "toml" => \A key \in DOMAIN file.root : TypedSetting(file.root[key])
  /\ file.format = "ini" =>
       /\ file.sections \in Seq(ToSet(file.sections))
       /\ \A section \in ToSet(file.sections) : TypedSection(section)

ASSUME LaunchesAssumption ==
  \A launch \in Launches :
    /\ launch.argv \in Seq(ToSet(launch.argv))
    /\ \A name \in DOMAIN launch.files : TypedFile(launch.files[name])

ASSUME FilesAssumption ==
  /\ FileOrder \in Seq(ToSet(FileOrder)) /\ ToSet(FileOrder) \subseteq Seq(Characters)
  /\ \A launch \in Launches : DOMAIN launch.files \subseteq ToSet(FileOrder)

(* No number is written as a blank or a comma.                             *)
ASSUME NumbersAssumption ==
  \A number \in 0 .. MaxPort : ToString(number) \notin {Space, Comma}

VARIABLES
  files,    \* the directory: a function from names to files
  argv,     \* the arguments
  taken,    \* how many of the arguments were taken
  args,     \* cli::Args, and how the parse of the arguments ended
  stack,    \* the frames of the files being loaded
  config,   \* what the last load of a file gave
  outcome   \* where the program is

commandLine == <<argv, taken, args>>
vars == <<files, commandLine, stack, config, outcome>>

(* A file: format "toml" has a root table, "ini" has sections, "directory" *)
(* and "broken" have nothing. `renders`: template::render accepts it.      *)

Ended == {"printed", "rejected", "running", "crashed"}

-----------------------------------------------------------------------------
(* Faulty variants, used by no specification.                              *)

(* The included proxies come before the file's own.                        *)
FinishFileIncludedFirst ==
  /\ outcome = "loading"
  /\ stack[Len(stack)].todo = << >>
  /\ stack[Len(stack)].patterns = << >>
  /\ LET done == Complete(stack[Len(stack)].config)
         parent == stack[Len(stack) - 1]
     IN  IF Len(stack) = 1
         THEN stack' = << >> /\ config' = done /\ outcome' = "loaded"
         ELSE /\ stack' = Append(SubSeq(stack, 1, Len(stack) - 2),
                           [parent EXCEPT
                              !.todo = Tail(@),
                              !.config.proxies = done.proxies \o @,
                              !.config.visitors = done.visitors \o @])
              /\ UNCHANGED <<config, outcome>>
  /\ UNCHANGED <<files, commandLine>>

(* The including file takes over the user of the included one.             *)
FinishFileTakesUser ==
  /\ outcome = "loading"
  /\ stack[Len(stack)].todo = << >>
  /\ stack[Len(stack)].patterns = << >>
  /\ LET done == Complete(stack[Len(stack)].config)
         parent == stack[Len(stack) - 1]
     IN  IF Len(stack) = 1
         THEN stack' = << >> /\ config' = done /\ outcome' = "loaded"
         ELSE /\ stack' = Append(SubSeq(stack, 1, Len(stack) - 2),
                           [parent EXCEPT
                              !.todo = Tail(@),
                              !.config.user = done.user,
                              !.config.proxies = @ \o done.proxies,
                              !.config.visitors = @ \o done.visitors])
              /\ UNCHANGED <<config, outcome>>
  /\ UNCHANGED <<files, commandLine>>

(* parse is called for the file that includes, and not for the included.   *)
LoadIncludedItself ==
  /\ outcome = "loading"
  /\ stack[Len(stack)].todo # << >>
  /\ Len(stack) < MaxDepth
  /\ stack' = Append(stack, stack[Len(stack)])
  /\ UNCHANGED <<files, commandLine, config, outcome>>

(* The first switch of a kind counts, and not the last.                    *)
SetsFlagOnce(a, flag, value) ==
  IF value = "bad" THEN [a EXCEPT !.ended = "rejected"]
  ELSE [a EXCEPT ![flag] = IF @ = "file" THEN value ELSE @]

-----------------------------------------------------------------------------
(* The command line (cli.rs) *)

DefaultArgs ==
  [config |-> <<"m">>, rename |-> "file", metadatas |-> "file",
   key |-> NoText, hasKey |-> FALSE, expects |-> "", ended |-> "run"]

(* flag_value: the boolean of `--flag`, `--flag=true`, `--flag=false`.     *)
FlagValue(token) ==
  CASE ~token.inline \/ token.v \in {<<"true">>, <<"1">>, <<"yes">>} -> "on"
    [] token.v \in {<<"false">>, <<"0">>, <<"no">>} -> "off"
    [] OTHER -> "bad"

TakesValue(a, name, value) ==
  CASE name = "-c" -> IF value = NoText THEN [a EXCEPT !.ended = "rejected"]
                      ELSE [a EXCEPT !.config = value, !.expects = ""]
    [] name = "--ssh-private-key" ->
         [a EXCEPT !.key = value, !.hasKey = TRUE, !.expects = ""]

SetsFlag(a, flag, value) ==
  IF value = "bad" THEN [a EXCEPT !.ended = "rejected"] ELSE [a EXCEPT ![flag] = value]

(* The token as it was written.                                            *)
Raw(token) ==
  (IF token.name = "" THEN NoText ELSE <<token.name>>)
  \o (IF token.inline THEN <<"=">> ELSE NoText) \o token.v

(* One round of the loop. A token is a name, with or without an inline     *)
(* value; a bare word has no name.                                         *)
TakesToken(a, token) ==
  IF a.expects # "" THEN TakesValue(a, a.expects, Raw(token))
  ELSE CASE token.name \in {"-v", "-h"} -> [a EXCEPT !.ended = "printed"]
         [] token.name \in {"-c", "--ssh-private-key"} ->
              IF token.inline THEN TakesValue(a, token.name, token.v)
              ELSE [a EXCEPT !.expects = token.name]
         [] token.name = "--rename" -> SetsFlag(a, "rename", FlagValue(token))
         [] token.name = "--no-rename" -> SetsFlag(a, "rename", "off")
         [] token.name = "--metadatas" -> SetsFlag(a, "metadatas", FlagValue(token))
         [] token.name = "--no-metadatas" -> SetsFlag(a, "metadatas", "off")
         [] OTHER -> [a EXCEPT !.ended = "rejected"]

ApplyOverrides(a, c) ==
  [c EXCEPT !.rename = IF a.rename = "file" THEN @ ELSE a.rename = "on",
            !.metadatasEnabled = IF a.metadatas = "file" THEN @ ELSE a.metadatas = "on",
            !.sshPrivateKey = IF a.hasKey THEN a.key ELSE @]
-----------------------------------------------------------------------------
(* Loading (config/mod.rs, toml_load::parse, load_includes) *)

Init ==
  /\ \E launch \in Launches : files = launch.files /\ argv = launch.argv
  /\ taken = 0
  /\ args = DefaultArgs
  /\ stack = << >>
  /\ config = DefaultConfig
  /\ outcome = "start"

(* while let Some(token) = argv.next()                                     *)
TakeArgument ==
  /\ outcome = "start"
  /\ taken < Len(argv)
  /\ taken' = taken + 1
  /\ args' = TakesToken(args, argv[taken'])
  /\ outcome' = IF args'.ended = "run" THEN outcome ELSE args'.ended
  /\ UNCHANGED <<files, argv, stack, config>>

(* The arguments are used up; the last of them may still want a value.     *)
ArgumentsEnd ==
  /\ outcome = "start"
  /\ taken = Len(argv)
  /\ outcome' = IF args.expects = "" THEN "load" ELSE "rejected"
  /\ UNCHANGED <<files, commandLine, stack, config>>

IsFile(name) == name \in DOMAIN files /\ files[name].format # "directory"

LooksLikeIni(file) == file.format = "ini" /\ Common(file.sections) # {}

ParsesAsToml(file) == file.format = "toml" /\ TomlAccepted(file.root)

(* A file that is being loaded: its own configuration and what it got from *)
(* its includes, the patterns left, and the matches left of one pattern.   *)
Frame(file) ==
  LET c == TomlConfig(file.root)
  IN  [config |-> [c EXCEPT !.includes = << >>], patterns |-> c.includes, todo |-> << >>]

Top == stack[Len(stack)]

WithTop(frame) == [stack EXCEPT ![Len(stack)] = frame]

(* Every error, wherever it is found, is returned to run_client.           *)
Reject ==
  /\ outcome' = "rejected"
  /\ UNCHANGED <<files, commandLine, stack, config>>

MainFile == files[args.config]

MainLoads ==
  /\ IsFile(args.config)
  /\ MainFile.renders
  /\ IF LooksLikeIni(MainFile) THEN IniAccepted(MainFile.sections)
     ELSE ParsesAsToml(MainFile)

LoadMainRejected == outcome = "load" /\ ~MainLoads /\ Reject

LoadMainIni ==
  /\ outcome = "load"
  /\ MainLoads
  /\ LooksLikeIni(MainFile)
  /\ config' = Complete(IniConfig(MainFile.sections))
  /\ outcome' = "loaded"
  /\ UNCHANGED <<files, commandLine, stack>>

LoadMainToml ==
  /\ outcome = "load"
  /\ MainLoads
  /\ ~LooksLikeIni(MainFile)
  /\ stack' = <<Frame(MainFile)>>
  /\ outcome' = "loading"
  /\ UNCHANGED <<files, commandLine, config>>

(* expand_pattern: the matching files, sorted.                             *)
ExpandPattern(pattern) ==
  Only(FileOrder, {name \in DOMAIN files : IsFile(name) /\ WildcardMatch(pattern, name)})

NextPattern ==
  /\ outcome = "loading"
  /\ Top.todo = << >>
  /\ Top.patterns # << >>
  /\ LET matches == ExpandPattern(Head(Top.patterns))
     IN  IF matches = << >> THEN Reject
         ELSE /\ stack' = WithTop([Top EXCEPT !.patterns = Tail(@), !.todo = matches])
              /\ UNCHANGED <<files, commandLine, config, outcome>>

Included == files[Head(Top.todo)]

(* The next call of parse is one too many.                                 *)
TooDeep == Len(stack) = MaxDepth

IncludeParses ==
  /\ IsFile(Head(Top.todo))
  /\ Included.renders
  /\ ~LooksLikeIni(Included)
  /\ TooDeep \/ ParsesAsToml(Included)

IncludeRejected ==
  /\ outcome = "loading"
  /\ Top.todo # << >>
  /\ ~IncludeParses
  /\ Reject

(* The call of parse for an included file.                                 *)
LoadIncluded ==
  /\ outcome = "loading"
  /\ Top.todo # << >>
  /\ IncludeParses
  /\ ~TooDeep
  /\ stack' = Append(stack, Frame(Included))
  /\ UNCHANGED <<files, commandLine, config, outcome>>

(* The stack is used up: the process is killed.                            *)
Overflow ==
  /\ outcome = "loading"
  /\ Top.todo # << >>
  /\ IncludeParses
  /\ TooDeep
  /\ outcome' = "crashed"
  /\ UNCHANGED <<files, commandLine, stack, config>>

(* The end of parse: the configuration is completed and returned, and the  *)
(* including file takes the proxies and the visitors of it, no more.       *)
FinishFile ==
  /\ outcome = "loading"
  /\ Top.todo = << >>
  /\ Top.patterns = << >>
  /\ LET done == Complete(Top.config)
         parent == stack[Len(stack) - 1]
     IN  IF Len(stack) = 1
         THEN stack' = << >> /\ config' = done /\ outcome' = "loaded"
         ELSE /\ stack' = Append(SubSeq(stack, 1, Len(stack) - 2),
                           [parent EXCEPT
                              !.todo = Tail(@),
                              !.config.proxies = @ \o done.proxies,
                              !.config.visitors = @ \o done.visitors])
              /\ UNCHANGED <<config, outcome>>
  /\ UNCHANGED <<files, commandLine>>

(* run_client: the overrides, and then the validation.                     *)
Start ==
  /\ outcome = "loaded"
  /\ config' = ApplyOverrides(args, config)
  /\ outcome' = IF Valid(config') THEN "running" ELSE "rejected"
  /\ UNCHANGED <<files, commandLine, stack>>

(* The client runs, or the process has exited.                             *)
Stays == outcome \in Ended /\ UNCHANGED vars

Step ==
  \/ TakeArgument \/ ArgumentsEnd
  \/ LoadMainRejected \/ LoadMainIni \/ LoadMainToml
  \/ NextPattern \/ IncludeRejected \/ LoadIncluded \/ Overflow \/ FinishFile
  \/ Start

Next == Step \/ Stays

Spec == Init /\ [][Next]_vars

(* A sequential program that nothing holds up.                             *)
FairSpec == Spec /\ WF_vars(Step)

-----------------------------------------------------------------------------
(* Properties: loading *)

Running == outcome = "running"

RunningProxies == {config.proxies[i] : i \in IF Running THEN DOMAIN config.proxies ELSE {}}

(* Every variable has its type, and a loaded configuration is in the       *)
(* ranges the fields of Config have.                                       *)
StartupTypeOK ==
  /\ outcome \in Ended \cup {"start", "load", "loading", "loaded"}
  /\ Len(stack) \in 0 .. MaxDepth
  /\ (stack # << >>) = (outcome = "loading") \/ outcome \in {"rejected", "crashed"}
  /\ DOMAIN config = DOMAIN DefaultConfig
  /\ config.rename \in BOOLEAN /\ config.metadatasEnabled \in BOOLEAN
  /\ config.serverPort \in 0 .. MaxPort
  /\ config.maxForwardConnections \in Nat \ {0}
  /\ \A i \in DOMAIN config.proxies :
       /\ config.proxies[i].type \in ProxyTypes
       /\ \A field \in PortFields : config.proxies[i][field] \in 0 .. MaxPort

(* The files an included pattern names, in order.                          *)
Named(pattern) ==
  Only(FileOrder, {name \in DOMAIN files : IsFile(name) /\ PatternDenotes(pattern, name)})

(* What a file says. One that is not loadable says nothing.                *)
ConfigOf(name) ==
  IF name \in DOMAIN files /\ ParsesAsToml(files[name])
  THEN TomlConfig(files[name].root) ELSE DefaultConfig

(* One list of files for each pattern.                                     *)
IncludesOf(name) ==
  LET patterns == ConfigOf(name).includes
  IN  [k \in DOMAIN patterns |-> Named(patterns[k])]

IncludedBy(name) ==
  UNION {ToSet(IncludesOf(name)[k]) : k \in DOMAIN IncludesOf(name)}

(* The files that d steps along the includes lead to from the main file.   *)
Reached[d \in Nat] ==
  IF d = 0 THEN {args.config} ELSE UNION {IncludedBy(name) : name \in Reached[d - 1]}

(* As many steps as there are names go round in a circle.                  *)
Cyclic == Reached[Len(FileOrder)] # {}

CompleteItem(items, item, c) ==
  IF items = "proxies"
  THEN CompleteProxy(item, IF c.userDoublePrefix THEN c.user ELSE NoText)
  ELSE CompleteVisitor(item, c.user)

AllCompleted(list, items, c) == [i \in DOMAIN list |-> CompleteItem(items, list[i], c)]

(* A list, and behind it what stands in the files of these names.          *)
WithThoseOf(list, names, written) ==
  LET upTo[j \in 0 .. Len(names)] ==
        IF j = 0 THEN list ELSE upTo[j - 1] \o written[names[j]]
  IN  upTo[Len(names)]

(* The items of a file and then those of its includes.                     *)
ItemsOf(items, c, included, written) ==
  LET upTo[k \in 0 .. Len(included)] ==
        IF k = 0 THEN c[items] ELSE WithThoseOf(upTo[k - 1], included[k], written)
  IN  upTo[Len(included)]

(* The items of the main file and of all that it leads to, as they are     *)
(* written. No path of a directory that loads is longer than the stack is  *)
(* deep.                                                                   *)
Written(items) ==
  LET at[d \in 0 .. MaxDepth] ==
        [name \in ToSet(FileOrder) |->
           IF d = 0 THEN << >>
           ELSE ItemsOf(items, ConfigOf(name), IncludesOf(name), at[d - 1])]
  IN  at[MaxDepth][args.config]

(* Reference: complete() "Runs once, at the end of loading" (model.rs): it *)
(* pushes the user of the main file into all of these items.               *)
Declared(items) == AllCompleted(Written(items), items, ConfigOf(args.config))

(* No file that is included by any other sets a user of its own.           *)
OnlyMainSetsUser ==
  \A name \in DOMAIN files :
    \A included \in IncludedBy(name) : ConfigOf(included).user = NoText

(* Items without the two fields that take a prefix.                        *)
Unnamed(list) ==
  [i \in DOMAIN list |->
     [field \in DOMAIN list[i] \ {"name", "serverName"} |-> list[i][field]]]

(* A client that runs has the proxies and the visitors its files declare,  *)
(* in the order of the files, however the files include each other. Their  *)
(* names too are the declared ones where no included file sets a user (see *)
(* CompletesOnce).                                                         *)
ItemsAreDeclared ==
  Running /\ ~LooksLikeIni(MainFile) =>
    \A items \in {"proxies", "visitors"} :
      /\ Unnamed(config[items]) = Unnamed(Declared(items))
      /\ OnlyMainSetsUser => config[items] = Declared(items)

(* What the comment on complete() says: it "Runs once, at the end of       *)
(* loading". The code completes what an included file gives before it is   *)
(* handed to the including file, which completes it again.                 *)
CompletesOnce ==
  Running /\ ~LooksLikeIni(MainFile) =>
    config.proxies = Declared("proxies") /\ config.visitors = Declared("visitors")

(* What the main file alone says.                                          *)
MainConfig ==
  IF LooksLikeIni(MainFile) THEN IniConfig(MainFile.sections) ELSE TomlConfig(MainFile.root)

(* Reference: an argument is a switch, and not the value of the one before *)
(* it, if an even number of arguments that want a value stand before it.   *)
WantsValue(i) == argv[i].name \in {"-c", "--ssh-private-key"} /\ ~argv[i].inline

IsSwitch(i) ==
  \E k \in 0 .. i - 1 :
    /\ k % 2 = 0
    /\ \A j \in i - k .. i - 1 : WantsValue(j)
    /\ k = i - 1 \/ ~WantsValue(i - k - 1)

(* The switches of these names among the first n arguments.                *)
Switches(names, n) == {i \in 1 .. n : argv[i].name \in names /\ IsSwitch(i)}

(* A setting is what the last of its switches says, or else the file.      *)
Decides(on, off, setting, fromFile) ==
  LET given == Switches({on, off}, Len(argv))
  IN  \/ given = {} /\ setting = fromFile
      \/ \E i \in given :
           /\ \A j \in given : j <= i
           /\ setting = (argv[i].name = on /\ FlagValue(argv[i]) = "on")

(* The switches of the command line win over the main file, the last one   *)
(* of each kind (cli.rs, run_client), and words that look like switches    *)
(* but are the value of an option count for nothing.                       *)
SwitchesOverride ==
  Running =>
    /\ Decides("--rename", "--no-rename", config.rename, MainConfig.rename)
    /\ Decides("--metadatas", "--no-metadatas",
               config.metadatasEnabled, MainConfig.metadatasEnabled)

(* Everything else comes from the main file alone, as it is written there  *)
(* or as its default, whatever files it includes and however these include *)
(* each other.                                                             *)
RestIsMainFiles ==
  Running =>
    /\ \A key \in {"token", "user", "userDoublePrefix", "sshKnownHosts",
                    "maxForwardConnections"} : config[key] = MainConfig[key]
    /\ config.sshPrivateKey = IF args.hasKey THEN args.key ELSE MainConfig.sshPrivateKey
    /\ MainConfig.serverAddr # NoText => config.serverAddr = MainConfig.serverAddr
    /\ MainConfig.serverPort # 0 => config.serverPort = MainConfig.serverPort

(* Loading comes to an end, one way or the other, unless the files include *)
(* each other in a circle that the main file leads to.                     *)
LoadingEnds == <>(outcome \in Ended \ {"crashed"} \/ Cyclic)

(* Reference: the ini keys of the README and of conf/frpc_full_example.ini.*)
DocumentedIniKey ==
  [type |-> "type", localIP |-> "local_ip", localPort |-> "local_port",
   remotePort |-> "remote_port", customDomains |-> "custom_domains",
   subdomain |-> "subdomain", locations |-> "locations", httpUser |-> "http_user",
   httpPassword |-> "http_pwd", hostHeaderRewrite |-> "host_header_rewrite",
   multiplexer |-> "multiplexer", secretKey |-> "sk", allowUsers |-> "allow_users",
   user |-> "user", serverAddr |-> "server_addr", serverPort |-> "server_port",
   rename |-> "rename", metadatasEnabled |-> "metadatas_enabled",
   userDoublePrefix |-> "user_double_prefix", sshPrivateKey |-> "ssh_private_key",
   sshKnownHosts |-> "ssh_known_hosts",
   maxForwardConnections |-> "max_forward_connections"]

(* How a TOML value is written in an ini file.                             *)
IniValue(value) ==
  CASE value.kind = "string"  -> value.holds
    [] value.kind = "integer" -> <<ToString(value.holds)>>
    [] value.kind = "boolean" -> IF value.holds THEN <<"true">> ELSE <<"false">>
    [] value.kind = "array"   -> JoinWith([i \in DOMAIN value.holds |-> value.holds[i].holds], Comma)

(* The documented keys in the order they are written in; metadatas follow. *)
WrittenKeys ==
  <<"type", "localIP", "localPort", "remotePort", "customDomains", "subdomain", "locations",
    "httpUser", "httpPassword", "hostHeaderRewrite", "multiplexer", "secretKey", "allowUsers",
    "user", "serverAddr", "serverPort", "rename", "metadatasEnabled", "userDoublePrefix",
    "sshPrivateKey", "sshKnownHosts", "maxForwardConnections">>

KeyEntry(table, key) ==
  [key |-> DocumentedIniKey[key], of |-> "", v |-> IniValue(table[key])]

MetaEntry(metas, name) == [key |-> "meta_", of |-> name, v |-> metas[name].holds]

MetasIn(table) == IF "metadatas" \in DOMAIN table THEN table["metadatas"].holds ELSE NoText

IniEntries(table) ==
  LET keys == Only(WrittenKeys, DOMAIN table)
      names == Only(MetaKeys, DOMAIN MetasIn(table))
  IN  [i \in DOMAIN keys |-> KeyEntry(table, keys[i])]
      \o [i \in DOMAIN names |-> MetaEntry(MetasIn(table), names[i])]

AsIni(root) ==
  LET token == TomlConfig(root).token
      proxies == Elements(root, "proxies")
  IN  <<[name |-> <<"common">>,
         entries |-> IniEntries([key \in DOMAIN root \ {"metadatas"} |-> root[key]])
                     \o <<[key |-> "token", of |-> "", v |-> token]>>]>>
      \o [i \in DOMAIN proxies |->
            [name |-> TomlProxy(proxies[i]).name, entries |-> IniEntries(proxies[i].holds)]]

(* What a list in ini has for items, and what it can say for a number or a *)
(* flag: any integer but 0 is true in TOML, and only 1 in ini.             *)
IniItem(text) == text # NoText /\ Trim(text) = text /\ ~Contains(text, Comma)

IsOneOf(value, numbers) == value.kind = "integer" /\ value.holds \in numbers

ExpressibleTable(table, parsers) ==
  \A key \in DOMAIN table :
    /\ parsers[key] \in {"port", "count"} => IsOneOf(table[key], Numerals)
    /\ parsers[key] = "flag" => table[key].kind = "boolean" \/ IsOneOf(table[key], {0, 1})
    /\ parsers[key] = "texts" =>
         \A i \in DOMAIN table[key].holds : IniItem(table[key].holds[i].holds)

ExpressibleProxy(value) ==
  /\ TomlProxy(value).name # <<"common">>
  /\ ExpressibleTable(value.holds, ProxyParsers(TypeOf(value.holds)))

(* An ini file can say it: it has no includes and no visitors, and one     *)
(* section of the name "common".                                           *)
ExpressibleInIni(root) ==
  /\ TomlAccepted(root)
  /\ Elements(root, "includes") = << >> /\ Elements(root, "visitors") = << >>
  /\ ExpressibleTable(root, RootParsers)
  /\ \A i \in DOMAIN Elements(root, "proxies") : ExpressibleProxy(root["proxies"].holds[i])

(* "Both loaders fill the same Config value" (config/mod.rs): a TOML file  *)
(* and its transcription to ini, key by key as documented, load to equal   *)
(* configurations.                                                         *)
LoadersAgree ==
  outcome = "load" /\ IsFile(args.config) /\ MainFile.format = "toml" =>
    (ExpressibleInIni(MainFile.root) =>
       /\ IniAccepted(AsIni(MainFile.root))
       /\ IniConfig(AsIni(MainFile.root)) = TomlConfig(MainFile.root))

(* The files included are those the pattern names (wildcard_match): so it  *)
(* is for well-formed patterns. For a "[" that starts no class the code    *)
(* accepts any file that has one at that place, where its comment says     *)
(* "treat '[' literally".                                                  *)
IncludesAreNamed ==
  outcome = "loading" /\ Top.patterns # << >> =>
    ExpandPattern(Head(Top.patterns)) = Named(Head(Top.patterns))

(* No include pattern of the directory has a stray "[", or ranges that     *)
(* touch each other, of which the documentation says nothing.              *)
PatternsAreWellFormed ==
  \A name \in DOMAIN files :
    files[name].format = "toml" =>
      LET patterns == TomlConfig(files[name].root).includes
      IN  \A k \in DOMAIN patterns : WellFormed(patterns[k])

-----------------------------------------------------------------------------
(* Properties: what is sent *)

(* Reference: the keys of each type in the table of the README, as flags.  *)
KnownFlags(type) ==
  {"--proxy-name", "--metadatas", "--user", "--token"} \cup
  CASE type = "tcp"    -> {"--remote-port"}
    [] type = "http"   -> {"--custom-domain", "--sd", "--locations", "--http-user",
                           "--http-pwd", "--host-header-rewrite"}
    [] type = "https"  -> {"--custom-domain", "--sd"}
    [] type = "tcpmux" -> {"--custom-domain", "--sd", "--mux", "--http-user", "--http-pwd"}
    [] type = "stcp"   -> {"--sk", "--allow-users"}

(* "an unregistered flag fails the whole registration" (parse_proxy of     *)
(* both loaders): no proxy of any type, from a file of either format with  *)
(* any keys in it, is sent with a flag that frps does not know for it.     *)
RegistersOnlyKnownFlags ==
  \A p \in RunningProxies :
    \A i \in DOMAIN Arguments(p, config) :
      Arguments(p, config)[i][1] \in KnownFlags(p.type)

(* The values that warn_unrepresentable does not look at have no space.    *)
UnwatchedHaveNoSpace(p) ==
  \A text \in {p.subdomain, p.httpUser, p.multiplexer}
              \cup ToSet(p.locations) \cup ToSet(p.allowUsers) :
    ~Contains(text, Space)

(* A list is joined by commas, so no item may be empty or have one.        *)
ItemsAreWhole(p) ==
  \A field \in ListFields : \A i \in DOMAIN p[field] :
    p[field][i] # NoText /\ ~Contains(p[field][i], Comma)

(* No value has a space, warned of or not, and all items are whole.        *)
Plain(p, c) ==
  ~WarnsUnrepresentable(p, c) /\ UnwatchedHaveNoSpace(p) /\ ItemsAreWhole(p)

(* gen_extra joins the metadatas by commas and escapes none.               *)
NoCommaInMetadatas(p) ==
  \A key \in DOMAIN p.metadatas : key # Comma /\ ~Contains(p.metadatas[key], Comma)

ListIn(payload, flag) ==
  LET text == FlagValueIn(payload, flag)
  IN  IF text = NoText THEN << >> ELSE Split(text, Comma)

(* frps, which splits the payload at every space, reads the proxy in it.   *)
ReadsBack(p, c) ==
  LET payload == GenExtra(p, c)
  IN  /\ FrpsReads(payload).type = <<p.type>>
      /\ FlagValueIn(payload, "--proxy-name") = p.name
      /\ FlagValueIn(payload, "--remote-port") =
           IF p.remotePort = 0 THEN NoText ELSE <<ToString(p.remotePort)>>
      /\ ListIn(payload, "--custom-domain") = p.customDomains
      /\ ListIn(payload, "--locations") = p.locations
      /\ ListIn(payload, "--allow-users") = p.allowUsers
      /\ FlagValueIn(payload, "--sd") = p.subdomain
      /\ FlagValueIn(payload, "--http-user") = p.httpUser
      /\ FlagValueIn(payload, "--http-pwd") = p.httpPassword
      /\ FlagValueIn(payload, "--host-header-rewrite") = p.hostHeaderRewrite
      /\ FlagValueIn(payload, "--sk") = p.secretKey
      /\ FlagValueIn(payload, "--mux") = p.multiplexer
      /\ FlagValueIn(payload, "--user") = c.user
      /\ FlagValueIn(payload, "--token") = c.token
      /\ NoCommaInMetadatas(p) =>
           ToSet(ListIn(payload, "--metadatas")) =
             {<<key, "=">> \o p.metadatas[key] :
                key \in IF c.metadatasEnabled THEN DOMAIN p.metadatas ELSE {}}

(* frps reads back every proxy as it was configured, if no value that is   *)
(* sent has a space and no item of a list is empty or has a comma          *)
(* (gen_extra). That there was no warning is not enough: the client does   *)
(* not look at the values of UnwatchedHaveNoSpace.                         *)
PayloadReadsBack ==
  \A p \in RunningProxies : Plain(p, config) => ReadsBack(p, config)

(* The proxy under another public name: its name and every domain it has.  *)
RenamedProxy(p, prefix) ==
  [p EXCEPT
    !.name = <<prefix>> \o @,
    !.subdomain = IF @ = NoText THEN @ ELSE <<prefix>> \o @,
    !.customDomains = [i \in DOMAIN @ |-> <<prefix>> \o @[i]]]

HasExName(p) ==
  \E text \in {p.name, p.subdomain} \cup ToSet(p.customDomains) :
    text # NoText /\ text[1] \in ExPieces

(* No value but those that are renamed is one of the flags before these.   *)
NoValueIsNamingFlag(p, c) ==
  \A i \in DOMAIN Arguments(p, c) :
    Arguments(p, c)[i][1] \notin NamingFlags =>
      Arguments(p, c)[i][2] \notin {<<flag>> : flag \in NamingFlags}

(* The candidate is the command of the renamed proxy, if its values are    *)
(* plain, its names and domains have no ex_N_ of the user's own, which the *)
(* code strips, and no other value is a naming flag, which it takes for    *)
(* one. And whatever the values are, "prefixes never stack" (rename.rs):   *)
(* it does not depend on earlier candidates.                               *)
CandidateIsRenamedProxy ==
  \A p \in RunningProxies, n \in DOMAIN ExPrefixes :
    LET payload == GenExtra(p, config)
        candidate == ApplyRenamePrefix(payload, ExPrefixes[n])
    IN  /\ Plain(p, config) /\ ~HasExName(p) /\ NoValueIsNamingFlag(p, config) =>
             candidate = GenExtra(RenamedProxy(p, ExPrefixes[n]), config)
        /\ \A m \in DOMAIN ExPrefixes :
             ApplyRenamePrefix(candidate, ExPrefixes[m]) =
               ApplyRenamePrefix(payload, ExPrefixes[m])

(* The command line has no quotes, and no space in what is not a proxy's.  *)
PlainCommand(p, c) ==
  /\ ToSet(NativeCommand(p, c)) \cap Quotes = {}
  /\ \A text \in {c.serverAddr, c.sshKnownHosts, p.localIP} : ~Contains(text, Space)

(* Both front ends ask frps for the same proxy: the words tiny-frpc-ssh    *)
(* gives to ssh make up the payload that tiny-frpc sends, where the values *)
(* are plain, none of them, host and paths included, has a quote, which    *)
(* shell_words takes for its own, and no host or path has a space.         *)
FrontEndsAgree ==
  \A p \in RunningProxies :
    Plain(p, config) /\ PlainCommand(p, config) =>
      SshExecutes(ShellWords(NativeCommand(p, config))) = GenExtra(p, config)
=============================================================================
