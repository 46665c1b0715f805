------------------------------ MODULE Wildcard ------------------------------
(***************************************************************************)
(* The patterns of `includes` (wildcard_match in                           *)
(* src/src/config/toml_load.rs): the matcher of the code, and a reference  *)
(* that takes the pattern apart first and then looks for cuts of the name. *)
(* The memo of the code is left out: it holds results only.                *)
(***************************************************************************)
EXTENDS Naturals, SequencesExt

CONSTANT Alphabet  \* the characters, in the order of their code points

Characters == ToSet(Alphabet)

Rank(ch) == CHOOSE i \in DOMAIN Alphabet : Alphabet[i] = ch

InRange(ch, low, high) == Rank(low) <= Rank(ch) /\ Rank(ch) <= Rank(high)

Separators == {"/", "\\"}

-----------------------------------------------------------------------------
(* The class that starts at pattern[start], against one character (or none *)
(* at the end of the name): whether it is closed, whether it matches, and  *)
(* the index after it. A "]" in the first place is a member.               *)
MatchClass(pattern, start, candidates) ==
  LET negated == start < Len(pattern) /\ pattern[start + 1] \in {"^", "!"}
      first == IF negated THEN start + 2 ELSE start + 1
      isRange(i) == /\ i + 2 <= Len(pattern)
                    /\ pattern[i + 1] = "-"
                    /\ pattern[i + 2] # "]"
      closed[i \in Nat] ==
        IF i > Len(pattern) THEN [closed |-> FALSE, hit |-> FALSE, next |-> i]
        ELSE IF pattern[i] = "]" /\ i # first
        THEN [closed |-> TRUE, hit |-> FALSE, next |-> i + 1]
        ELSE IF isRange(i)
        THEN [closed[i + 3] EXCEPT !.hit =
                @ \/ \E ch \in candidates : InRange(ch, pattern[i], pattern[i + 2])]
        ELSE [closed[i + 1] EXCEPT !.hit = @ \/ pattern[i] \in candidates]
      scan == closed[first]
  IN  [closed |-> scan.closed,
       matched |-> candidates # {} /\ scan.hit # negated,
       next |-> scan.next]

WildcardMatch(pattern, name) ==
  LET at(n) == IF n <= Len(name) THEN {name[n]} ELSE {}
      afterStars(p) == CHOOSE q \in p + 1 .. Len(pattern) + 1 :
                         /\ \A i \in p .. q - 1 : pattern[i] = "*"
                         /\ q <= Len(pattern) => pattern[q] # "*"
      matches[place \in Nat \X Nat] ==
        LET p == place[1]
            n == place[2]
        IN  IF p > Len(pattern) THEN n = Len(name) + 1
            ELSE CASE pattern[p] = "*" ->
                        \E m \in n .. Len(name) + 1 :
                          /\ \A i \in n .. m - 1 : name[i] \notin Separators
                          /\ matches[<<afterStars(p), m>>]
                   [] pattern[p] = "?" ->
                        /\ at(n) # {} /\ at(n) \cap Separators = {}
                        /\ matches[<<p + 1, n + 1>>]
                   [] pattern[p] = "[" ->
                        LET class == MatchClass(pattern, p, at(n))
                        IN  IF class.closed
                            THEN class.matched /\ matches[<<class.next, n + 1>>]
                            ELSE at(n) = {"["}
                   [] OTHER -> at(n) = {pattern[p]} /\ matches[<<p + 1, n + 1>>]
  IN  matches[<<1, 1>>]

-----------------------------------------------------------------------------
(* Reference *)

(* The end of the class at p: the first "]" after its first member.        *)
ClassEnds(pattern, p) ==
  LET negated == p < Len(pattern) /\ pattern[p + 1] \in {"^", "!"}
      first == IF negated THEN p + 2 ELSE p + 1
  IN  {e \in first + 1 .. Len(pattern) :
         pattern[e] = "]" /\ \A i \in first + 1 .. e - 1 : pattern[i] # "]"}

(* The characters between the indices, as a class: a dash between two of   *)
(* them makes them a range.                                                *)
Members(pattern, first, last) ==
  LET dashes == {i \in first + 1 .. last - 1 : pattern[i] = "-"}
      single == {i \in first .. last : \A d \in dashes : i \notin d - 1 .. d + 1}
  IN  {pattern[i] : i \in single}
        \cup {ch \in Characters :
                \E d \in dashes : InRange(ch, pattern[d - 1], pattern[d + 1])}

(* The pattern as a sequence of items; an item is the set of the single    *)
(* characters it stands for, and `many` if it stands for any number. A "[" *)
(* that starts no class is an ordinary character.                          *)
Items(pattern) ==
  LET from[p \in Nat] ==
        IF p > Len(pattern) THEN << >>
        ELSE IF pattern[p] = "*"
        THEN <<[many |-> TRUE, chars |-> Characters \ Separators]>> \o from[p + 1]
        ELSE IF pattern[p] = "?"
        THEN <<[many |-> FALSE, chars |-> Characters \ Separators]>> \o from[p + 1]
        ELSE IF pattern[p] = "[" /\ ClassEnds(pattern, p) # {}
        THEN LET end == CHOOSE e \in ClassEnds(pattern, p) : TRUE
                 negated == pattern[p + 1] \in {"^", "!"}
                 chars == Members(pattern, IF negated THEN p + 2 ELSE p + 1, end - 1)
             IN  <<[many |-> FALSE, chars |-> IF negated THEN Characters \ chars ELSE chars]>>
                 \o from[end + 1]
        ELSE <<[many |-> FALSE, chars |-> {pattern[p]}]>> \o from[p + 1]
  IN  from[1]

(* Some cut of the name gives every item what it stands for.               *)
PatternDenotes(pattern, name) ==
  LET items == Items(pattern)
  IN  \E cut \in [0 .. Len(items) -> 0 .. Len(name)] :
        /\ cut[0] = 0 /\ cut[Len(items)] = Len(name)
        /\ \A i \in DOMAIN items :
             /\ cut[i - 1] <= cut[i]
             /\ items[i].many \/ cut[i] = cut[i - 1] + 1
             /\ \A j \in cut[i - 1] + 1 .. cut[i] : name[j] \in items[i].chars

(* Every "[" starts a class, in which no two ranges share a character.     *)
WellFormed(pattern) ==
  \A p \in DOMAIN pattern :
    pattern[p] = "[" =>
      \E end \in ClassEnds(pattern, p) :
        \A i, j \in p .. end :
          pattern[i] = "-" /\ pattern[j] = "-" /\ i < j => i + 2 < j
=============================================================================
