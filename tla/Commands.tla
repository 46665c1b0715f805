------------------------------ MODULE Commands ------------------------------
(***************************************************************************)
(* What is sent to frps: the payload of the exec request (command.rs), its *)
(* rename to an ex_N_ candidate (rename.rs), and the command line of the   *)
(* native variant with its split into words (command.rs, ssh/native.rs).   *)
(* A payload is one text; frps splits it at every single space.            *)
(***************************************************************************)
EXTENDS Configuration

CONSTANTS
  ExPieces,  \* the prefixes strip_one knows: ex_, digits and an underscore
  MetaKeys   \* the keys metadatas may have, in the order of a BTreeMap

ExPrefixes == <<"ex_1_", "ex_2_", "ex_3_">>

ASSUME ExPiecesAssumption ==
  ToSet(ExPrefixes) \subseteq ExPieces /\ {Space, Comma} \cap ExPieces = {}

ASSUME MetaKeysAssumption == MetaKeys \in Seq(STRING)

Quotes == {"'", "\""}

-----------------------------------------------------------------------------
(* Faulty variants, used by no specification.                              *)

(* `--custom-domain` is renamed as one value.                              *)
RenamedFirstDomain(flag, value, prefix) ==
  IF flag \in {<<"--proxy-name">>, <<"--sd">>, <<"--custom-domain">>}
  THEN <<prefix>> \o SelectSeq(value, LAMBDA piece : piece \notin ExPieces)
  ELSE value

(* The items of a list are joined by blanks.                               *)
PushListSpaced(flag, texts) ==
  IF texts = << >> THEN << >> ELSE << <<flag, JoinWith(texts, Space)>> >>

(* A word that is not ended by a blank is forgotten.                       *)
ShellWordsButLast(command) == Front(NonEmpty(Split(command, Space)))

-----------------------------------------------------------------------------
(* gen_extra *)

MetaText(metadatas) ==
  LET keys == Only(MetaKeys, DOMAIN metadatas)
  IN  JoinWith([i \in DOMAIN keys |-> <<keys[i], "=">> \o metadatas[keys[i]]], Comma)

(* push, push_num, push_list: an empty text, a 0 and an empty list are     *)
(* omitted with their flag.                                                *)
Push(flag, text) == IF text = NoText THEN << >> ELSE << <<flag, text>> >>

PushNum(flag, number) == IF number = 0 THEN << >> ELSE << <<flag, <<ToString(number)>> >> >>

PushList(flag, texts) ==
  IF texts = << >> THEN << >> ELSE << <<flag, JoinWith(texts, Comma)>> >>

PushMetas(flag, metadatas) ==
  IF DOMAIN metadatas = {} THEN << >> ELSE Push(flag, MetaText(metadatas))

(* The flags of a payload with their values.                               *)
Arguments(p, c) ==
  Push("--proxy-name", p.name)
  \o (IF p.type = "tcp" THEN PushNum("--remote-port", p.remotePort) ELSE << >>)
  \o PushList("--custom-domain", p.customDomains)
  \o PushList("--locations", p.locations)
  \o Push("--sd", p.subdomain)
  \o Push("--http-user", p.httpUser)
  \o Push("--http-pwd", p.httpPassword)
  \o Push("--host-header-rewrite", p.hostHeaderRewrite)
  \o Push("--sk", p.secretKey)
  \o PushList("--allow-users", p.allowUsers)
  \o Push("--mux", p.multiplexer)
  \o (IF c.metadatasEnabled THEN PushMetas("--metadatas", p.metadatas) ELSE << >>)
  \o Push("--user", c.user)
  \o Push("--token", c.token)

GenExtra(p, c) ==
  FoldLeft(LAMBDA payload, argument :
             payload \o <<Space, argument[1], Space>> \o argument[2],
           <<p.type>>, Arguments(p, c))

(* warn_unrepresentable: the values it looks at for a space.               *)
WarnsUnrepresentable(p, c) ==
  LET checked == {p.name, c.token, c.user, p.httpPassword, p.secretKey,
                  p.hostHeaderRewrite} \cup ToSet(p.customDomains)
                 \cup {p.metadatas[key] : key \in DOMAIN p.metadatas}
                 \cup {<<key>> : key \in DOMAIN p.metadatas}
  IN  \E text \in checked : Contains(text, Space)

-----------------------------------------------------------------------------
(* apply_rename_prefix *)

(* strip_rename_prefix: every prefix, one at a time.                       *)
StripRenamePrefix(value) ==
  LET first == {i \in DOMAIN value : value[i] \notin ExPieces}
  IN  IF first = {} THEN NoText
      ELSE SubSeq(value, CHOOSE i \in first : \A j \in first : i <= j, Len(value))

RenamedValue(flag, value, prefix) ==
  CASE flag \in {<<"--proxy-name">>, <<"--sd">>} ->
         <<prefix>> \o StripRenamePrefix(value)
    [] flag = <<"--custom-domain">> ->
         LET domains == Split(value, Comma)
         IN  JoinWith([i \in DOMAIN domains |->
                         <<prefix>> \o StripRenamePrefix(domains[i])], Comma)
    [] OTHER -> value

NamingFlags == {"--proxy-name", "--sd", "--custom-domain"}

(* The word after a naming flag is its value, even if it looks like a flag.*)
ApplyRenamePrefix(payload, prefix) ==
  LET words == Words(payload)
      naming == {<<flag>> : flag \in NamingFlags}
      isValue[i \in 0 .. Len(words)] ==
        i > 1 /\ words[i - 1] \in naming /\ ~isValue[i - 1]
  IN  JoinWith([i \in DOMAIN words |->
                  IF isValue[i] THEN RenamedValue(words[i - 1], words[i], prefix)
                  ELSE words[i]], Space)

-----------------------------------------------------------------------------
(* The native variant *)

(* parse_to_native_ssh; a host is a text without colons here.              *)
NativeCommand(p, c) ==
  <<"ssh", Space, "v0@">> \o c.serverAddr
  \o <<Space, "-p", Space, ToString(c.serverPort), Space, "-R", Space, ":80:">>
  \o p.localIP \o <<":", ToString(p.localPort), Space>>
  \o (IF c.sshKnownHosts = NoText
      THEN <<"-o", Space, "StrictHostKeyChecking=no", Space, "-o", Space,
             "UserKnownHostsFile=/dev/null", Space>>
      ELSE <<"-o", Space, "UserKnownHostsFile=">> \o c.sshKnownHosts \o <<Space>>)
  \o GenExtra(p, c)

(* shell_words, one character after the other; there are no backslashes.   *)
(* A quote of Space is none.                                               *)
Between(words) ==
  [words |-> words, current |-> NoText, hasWord |-> FALSE, quote |-> Space]

EndsWord(s) ==
  Between(IF s.hasWord \/ s.current # NoText THEN Append(s.words, s.current) ELSE s.words)

ReadsPiece(s, ch) ==
  IF s.quote # Space
  THEN IF ch = s.quote THEN [s EXCEPT !.quote = Space]
       ELSE [s EXCEPT !.current = Append(@, ch)]
  ELSE IF ch \in Quotes THEN [s EXCEPT !.quote = ch, !.hasWord = TRUE]
  ELSE IF ch = Space THEN EndsWord(s)
  ELSE [s EXCEPT !.current = Append(@, ch), !.hasWord = TRUE]

ShellWords(command) == EndsWord(FoldLeft(ReadsPiece, Between(<< >>), command)).words

-----------------------------------------------------------------------------
(* External: frps and ssh *)

(* frps: the proxy type, then flags and values in turn.                    *)
FrpsReads(payload) ==
  LET tokens == Split(payload, Space)
  IN  [type |-> tokens[1],
       flags |-> [i \in 1 .. (Len(tokens) - 1) \div 2 |->
                    <<tokens[2 * i], tokens[2 * i + 1]>>]]

(* The value behind the first of the flags of this name.                   *)
FlagValueIn(payload, flag) ==
  LET flags == FrpsReads(payload).flags
      given == {i \in DOMAIN flags : flags[i][1] = <<flag>>}
  IN  IF given = {} THEN NoText
      ELSE flags[CHOOSE i \in given : \A j \in given : i <= j][2]

(* ssh: what follows the destination and its options (ssh, v0@host, and    *)
(* pairs of an option and its value) is the command, joined by blanks.     *)
SshExecutes(words) ==
  LET options == {i \in 3 .. Len(words) :
                    \A j \in 3 .. i : j % 2 = 1 => words[j] \in {<<"-p">>, <<"-R">>, <<"-o">>}}
      last == IF options = {} THEN 2 ELSE CHOOSE i \in options : \A j \in options : j <= i
  IN  JoinWith(SubSeq(words, last + 1, Len(words)), Space)
=============================================================================
