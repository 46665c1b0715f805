-------------------------------- MODULE Text --------------------------------
(***************************************************************************)
(* Texts, as far as the program takes them apart: a text is a sequence of  *)
(* pieces, and a piece is a string that the program never splits. Blanks   *)
(* and commas are pieces of their own.                                     *)
(***************************************************************************)
EXTENDS Naturals, SequencesExt

AnyText == Seq(STRING)

NoText == << >>

Space == " "
Comma == ","

(* str::split: n separators make n + 1 parts, some of them empty.          *)
Split(text, separator) ==
  FoldLeft(LAMBDA parts, piece :
             IF piece = separator THEN Append(parts, NoText)
             ELSE [parts EXCEPT ![Len(parts)] = Append(@, piece)],
           <<NoText>>, text)

(* [T]::join                                                               *)
JoinWith(texts, separator) ==
  FoldLeftDomain(LAMBDA joined, i :
                   IF i = 1 THEN texts[1] ELSE Append(joined, separator) \o texts[i],
                 NoText, texts)

(* The elements of a sequence that are in a set.                           *)
Only(seq, members) ==
  LET kept[n \in 0 .. Len(seq)] ==
        CASE n = 0 -> << >>
          [] n > 0 /\ seq[n] \in members -> Append(kept[n - 1], seq[n])
          [] OTHER -> kept[n - 1]
  IN  kept[Len(seq)]

NonEmpty(texts) ==
  FoldLeft(LAMBDA kept, text : IF text = NoText THEN kept ELSE Append(kept, text),
           << >>, texts)

(* str::split_whitespace: no empty words.                                  *)
Words(text) == NonEmpty(Split(text, Space))

(* str::trim                                                               *)
Trim(text) ==
  LET solid == {i \in DOMAIN text : text[i] # Space}
  IN  IF solid = {} THEN NoText
      ELSE SubSeq(text, CHOOSE i \in solid : \A j \in solid : i <= j,
                        CHOOSE i \in solid : \A j \in solid : i >= j)
=============================================================================
