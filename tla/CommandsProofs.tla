--------------------------- MODULE CommandsProofs ---------------------------
(***************************************************************************)
(* Proofs about Commands: what its folds over texts compute (splitting a   *)
(* payload into words, joining them, renaming what stands behind a naming  *)
(* flag), for texts of any length.                                         *)
(***************************************************************************)
EXTENDS Commands, WellFoundedInduction, SequenceTheorems, TLAPS

-----------------------------------------------------------------------------
(* Induction. The schemes of the library take an operator; these take the  *)
(* set of which it is shown that it has every number, or every text.       *)

(* A set of numbers that is not empty has a least one.                     *)
LEMMA LeastNumber ==
  ASSUME NEW T, T \subseteq Nat, T # {}
  PROVE  \E x \in T : \A y \in T : x <= y
<1> DEFINE R == OpToRel(<, Nat)
<1>1. IsWellFoundedOn(R, Nat)
  BY NatLessThanWellFounded
<1>2. R = {ss \in Nat \X Nat : ss[1] < ss[2]}
  BY DEF OpToRel
<1> HIDE DEF R
<1>3. PICK x \in T : \A y \in T : ~(<<y, x>> \in R)
  BY <1>1, WFMin
<1>4. \A y \in T : ~(y < x)
  BY <1>2, <1>3
<1> QED
  BY <1>3, <1>4

LEMMA NumberInduction ==
  ASSUME NEW T, 0 \in T, \A n \in Nat : n \in T => n + 1 \in T
  PROVE  Nat \subseteq T
<1> SUFFICES ASSUME Nat \ T # {} PROVE FALSE
  OBVIOUS
<1>1. PICK x \in Nat \ T : \A y \in Nat \ T : x <= y
  BY LeastNumber
<1>2. x # 0 /\ x - 1 \in Nat
  BY <1>1
<1>3. x - 1 \in T
  BY <1>1, <1>2
<1> QED
  BY <1>1, <1>2, <1>3

LEMMA SequenceInduction ==
  ASSUME NEW P, NEW T, << >> \in T,
         \A s \in Seq(P), e \in P : s \in T => Append(s, e) \in T
  PROVE  Seq(P) \subseteq T
<1> DEFINE U == {n \in Nat : \A s \in Seq(P) : Len(s) = n => s \in T}
<1>1. 0 \in U
  <2>1. \A s \in Seq(P) : Len(s) = 0 => s = << >>
    OBVIOUS
  <2> QED
    BY <2>1
<1>2. ASSUME NEW n \in Nat, n \in U PROVE n + 1 \in U
  <2> SUFFICES ASSUME NEW s \in Seq(P), Len(s) = n + 1 PROVE s \in T
    OBVIOUS
  <2> DEFINE front == SubSeq(s, 1, n)
  <2>1. front \in Seq(P) /\ Len(front) = n /\ s[n + 1] \in P
    OBVIOUS
  <2>2. s = Append(front, s[n + 1])
    OBVIOUS
  <2>3. front \in T
    BY <1>2, <2>1
  <2> QED
    BY <2>1, <2>2, <2>3
<1> HIDE DEF U
<1>3. Nat \subseteq U
  BY <1>1, <1>2, NumberInduction
<1>4. \A s \in Seq(P) : Len(s) \in Nat
  OBVIOUS
<1> QED
  BY <1>3, <1>4 DEF U

-----------------------------------------------------------------------------
(* Sequences *)

(* What is appended to a text is appended behind what is before it.        *)
LEMMA ConcatAppend ==
  ASSUME NEW S, NEW s \in Seq(S), NEW t \in Seq(S), NEW e \in S
  PROVE  s \o Append(t, e) = Append(s \o t, e)
OBVIOUS

LEMMA ReplaceAppended ==
  ASSUME NEW S, NEW s \in Seq(S), NEW d \in S, NEW e \in S
  PROVE  /\ Len(Append(s, d)) = Len(s) + 1
         /\ Append(s, d)[Len(s) + 1] = d
         /\ [Append(s, d) EXCEPT ![Len(s) + 1] = e] = Append(s, e)
<1> DEFINE t == Append(s, d)
           u == Append(s, e)
           v == [t EXCEPT ![Len(s) + 1] = e]
<1>1. /\ t \in Seq(S) /\ Len(t) = Len(s) + 1 /\ t[Len(s) + 1] = d
      /\ u \in Seq(S) /\ Len(u) = Len(s) + 1 /\ u[Len(s) + 1] = e
      /\ \A i \in 1 .. Len(s) : t[i] = s[i] /\ u[i] = s[i]
      /\ Len(s) \in Nat /\ Len(s) + 1 \in 1 .. Len(t)
  OBVIOUS
<1>2. /\ v \in Seq(S) /\ Len(v) = Len(t)
      /\ \A i \in 1 .. Len(t) : v[i] = IF i = Len(s) + 1 THEN e ELSE t[i]
  <2> HIDE DEF t
  <2> QED
    BY <1>1, ExceptSeq
<1>3. \A i \in 1 .. Len(u) : v[i] = u[i]
  <2> HIDE DEF t, u, v
  <2>1. \A i \in 1 .. Len(u) : i \in 1 .. Len(s) \/ i = Len(s) + 1
    BY <1>1
  <2> QED
    BY <1>1, <1>2, <2>1
<1>4. v = u
  <2> HIDE DEF t, u, v
  <2> QED
    BY <1>1, <1>2, <1>3, SeqEqual
<1> QED
  BY <1>1, <1>4

-----------------------------------------------------------------------------
(* Folds. FoldLeft walks down the sets 1..n, by their maximum.             *)

(* A set of some of the first n numbers has a greatest element.            *)
LEMMA MaxOfSome ==
  ASSUME NEW n \in Nat, NEW s \in SUBSET (1 .. n), s # {}
  PROVE  Max(s) \in s /\ \A y \in s : y <= Max(s)
<1> DEFINE T == {n - y : y \in s}
<1>1. T \subseteq Nat /\ T # {}
  <2>1. \A y \in s : y \in 1 .. n /\ n - y \in Nat
    OBVIOUS
  <2> QED
    BY <2>1
<1>2. PICK z \in T : \A y \in T : z <= y
  BY <1>1, LeastNumber
<1>3. PICK x \in s : z = n - x
  BY <1>2
<1>4. ASSUME NEW y \in s PROVE x >= y
  <2>1. n - y \in T
    OBVIOUS
  <2>2. n - x <= n - y
    BY <1>2, <1>3, <2>1
  <2> QED
    BY <2>2
<1>5. \E m \in s : \A y \in s : m >= y
  BY <1>4
<1>6. Max(s) \in s /\ \A y \in s : Max(s) >= y
  BY <1>5 DEF Max
<1> QED
  BY <1>6

LEMMA RestBelowMax ==
  ASSUME NEW k \in Nat, NEW s \in SUBSET (1 .. (k + 1)), s # {}
  PROVE  Max(s) \in 1 .. (k + 1) /\ s \ {Max(s)} \in SUBSET (1 .. k)
<1>1. k + 1 \in Nat
  OBVIOUS
<1>2. PICK m : m = Max(s)
  OBVIOUS
<1>3. m \in s /\ \A y \in s : y <= m
  BY <1>1, <1>2, MaxOfSome
<1>4. \A y \in s : y \in 1 .. (k + 1)
  OBVIOUS
<1>5. \A y \in s \ {m} : y \in 1 .. k
  <2> SUFFICES ASSUME NEW y \in s \ {m} PROVE y \in 1 .. k
    OBVIOUS
  <2>1. y <= m /\ y # m /\ y \in 1 .. (k + 1) /\ m \in 1 .. (k + 1)
    BY <1>3, <1>4
  <2> QED
    BY <2>1
<1> QED
  BY <1>2, <1>3, <1>4, <1>5

LEMMA MaxOfInitial ==
  ASSUME NEW n \in Nat, NEW k \in 1 .. n
  PROVE  Max(1 .. k) = k /\ (1 .. k) \ {k} = 1 .. (k - 1) /\ 1 .. k \in SUBSET (1 .. n)
<1>1. 1 .. k \in SUBSET (1 .. n) /\ 1 .. k # {} /\ k \in 1 .. k
  OBVIOUS
<1>2. Max(1 .. k) \in 1 .. k /\ k <= Max(1 .. k)
  BY <1>1, MaxOfSome
<1> QED
  BY <1>1, <1>2

(* iter folds step, over the set of the indices.                           *)
IsFold(iter, n, base, step) ==
  iter = [s \in SUBSET (1 .. n) |->
            IF s = {} THEN base ELSE step[<<Max(s), iter[s \ {Max(s)}]>>]]

(* The recursive function a fold over an index set stands for exists.      *)
LEMMA FoldExists ==
  ASSUME NEW S, NEW n \in Nat, NEW base \in S, NEW step \in [(1 .. n) \X S -> S]
  PROVE  \E iter \in [SUBSET (1 .. n) -> S] : IsFold(iter, n, base, step)
<1> DEFINE HasFold(k) == \E iter \in [SUBSET (1 .. k) -> S] : IsFold(iter, k, base, step)
           T == {k \in Nat : k <= n => HasFold(k)}
<1>1. HasFold(0)
  <2> DEFINE iter == [s \in SUBSET (1 .. 0) |-> base]
  <2>1. \A s \in SUBSET (1 .. 0) : s = {}
    OBVIOUS
  <2>2. iter \in [SUBSET (1 .. 0) -> S] /\ IsFold(iter, 0, base, step)
    BY <2>1 DEF IsFold
  <2> QED
    BY <2>2
<1>2. ASSUME NEW k \in Nat, k + 1 <= n, HasFold(k) PROVE HasFold(k + 1)
  <2>1. PICK f \in [SUBSET (1 .. k) -> S] : IsFold(f, k, base, step)
    BY <1>2
  <2> DEFINE rest(s) == s \ {Max(s)}
             g == [s \in SUBSET (1 .. (k + 1)) |->
                     IF s = {} THEN base ELSE step[<<Max(s), f[rest(s)]>>]]
  <2>2. ASSUME NEW s \in SUBSET (1 .. (k + 1)), s # {}
        PROVE  rest(s) \in SUBSET (1 .. k) /\ Max(s) \in 1 .. n
    <3>1. Max(s) \in 1 .. (k + 1) /\ rest(s) \in SUBSET (1 .. k)
      BY <2>2, RestBelowMax
    <3> QED
      BY <1>2, <3>1
  <2>3. \A u \in SUBSET (1 .. k) : u \in SUBSET (1 .. (k + 1)) /\ g[u] = f[u]
    <3> SUFFICES ASSUME NEW u \in SUBSET (1 .. k)
                 PROVE  u \in SUBSET (1 .. (k + 1)) /\ g[u] = f[u]
      OBVIOUS
    <3>1. u \in SUBSET (1 .. (k + 1))
      OBVIOUS
    <3>2. f[u] = IF u = {} THEN base ELSE step[<<Max(u), f[rest(u)]>>]
      BY <2>1 DEF IsFold
    <3> QED
      BY <3>1, <3>2
  <2>4. \A s \in SUBSET (1 .. (k + 1)) : s # {} => g[rest(s)] = f[rest(s)]
    BY <2>2, <2>3
  <2>5. g = [s \in SUBSET (1 .. (k + 1)) |->
               IF s = {} THEN base ELSE step[<<Max(s), g[rest(s)]>>]]
    BY <2>4
  <2>6. \A s \in SUBSET (1 .. (k + 1)) : s # {} => step[<<Max(s), f[rest(s)]>>] \in S
    BY <2>2
  <2>7. g \in [SUBSET (1 .. (k + 1)) -> S]
    BY <2>6
  <2> QED
    BY <2>5, <2>7 DEF IsFold
<1> HIDE DEF HasFold
<1>3. 0 \in T /\ \A k \in Nat : k \in T => k + 1 \in T
  BY <1>1, <1>2
<1>4. Nat \subseteq T
  <2> HIDE DEF T
  <2> QED
    BY <1>3, NumberInduction
<1>5. HasFold(n)
  BY <1>4
<1> QED
  BY <1>5 DEF HasFold

(* Two runs of the same steps, which agree.                                *)
SameSteps(q, r, n) ==
  /\ q[0] = r[0]
  /\ \A k \in 1 .. n : q[k - 1] = r[k - 1] => q[k] = r[k]

(* Two runs that start alike and take the same steps agree.                *)
LEMMA RunsAgree ==
  ASSUME NEW n \in Nat, NEW q, NEW r, SameSteps(q, r, n)
  PROVE  q[n] = r[n]
<1> DEFINE T == {k \in Nat : k <= n => q[k] = r[k]}
<1>1. 0 \in T /\ \A k \in Nat : k \in T => k + 1 \in T
  <2>1. \A k \in Nat : k + 1 <= n => k + 1 \in 1 .. n /\ (k + 1) - 1 = k /\ k <= n
    OBVIOUS
  <2> QED
    BY <2>1 DEF SameSteps
<1>2. Nat \subseteq T
  <2> HIDE DEF T
  <2> QED
    BY <1>1, NumberInduction
<1> QED
  BY <1>2

-----------------------------------------------------------------------------
(* Split *)

(* The parts with one more piece read.                                     *)
Added(parts, piece, separator) ==
  IF piece = separator THEN Append(parts, NoText)
  ELSE [parts EXCEPT ![Len(parts)] = Append(@, piece)]

Texts(P) == Seq(Seq(P))

Without(P, e) == P \ {e}

LEMMA WithoutIsSubset ==
  ASSUME NEW P, NEW e
  PROVE  /\ Without(P, e) \subseteq P
         /\ Seq(Without(P, e)) \subseteq Seq(P)
         /\ Texts(Without(P, e)) \subseteq Texts(P)
<1>1. Without(P, e) \subseteq P
  BY DEF Without
<1>2. Seq(Without(P, e)) \subseteq Seq(P)
  BY <1>1, SeqMonotonic
<1>3. Texts(Without(P, e)) \subseteq Texts(P)
  BY <1>2, SeqMonotonic DEF Texts
<1> QED
  BY <1>1, <1>2, <1>3

(* Split keeps a text that is not empty of parts.                          *)
LEMMA AddedType ==
  ASSUME NEW P, NEW parts \in Texts(P), parts # << >>, NEW piece, NEW separator,
         piece \in P \/ piece = separator
  PROVE  Added(parts, piece, separator) \in Texts(P) \ {<< >>}
<1>1. NoText \in Seq(P) /\ Len(parts) \in 1 .. Len(parts) /\ parts[Len(parts)] \in Seq(P)
  BY DEF NoText, Texts
<1>2. CASE piece = separator
  BY <1>1, <1>2 DEF Added, Texts
<1>3. CASE piece # separator
  <2>1. Append(parts[Len(parts)], piece) \in Seq(P)
    BY <1>1, <1>3
  <2>2. /\ [parts EXCEPT ![Len(parts)] = Append(@, piece)] \in Seq(Seq(P))
        /\ Len([parts EXCEPT ![Len(parts)] = Append(@, piece)]) = Len(parts)
    BY <1>1, <2>1, ExceptSeq DEF Texts
  <2> QED
    BY <1>1, <1>3, <2>2 DEF Added, Texts
<1> QED
  BY <1>2, <1>3

(* q gives the parts of each beginning of a text.                          *)
SplitsInSteps(q, text, separator) ==
  /\ q[0] = <<NoText>>
  /\ \A k \in 1 .. Len(text) : q[k] = Added(q[k - 1], text[k], separator)
  /\ Split(text, separator) = q[Len(text)]

(* Split is the end of a run through the pieces of its text.               *)
LEMMA SplitRun ==
  ASSUME NEW P, NEW text \in Seq(P), NEW separator
  PROVE  \E q : SplitsInSteps(q, text, separator)
<1> DEFINE n == Len(text)
           S == Texts(P) \ {<< >>}
           step == [x \in (1 .. n) \X S |-> Added(x[2], text[x[1]], separator)]
           Parts(iter) ==
             iter = [s \in SUBSET DOMAIN text |->
                       IF s = {} THEN <<NoText>>
                       ELSE Added(iter[s \ {Max(s)}], text[Max(s)], separator)]
           c == CHOOSE iter : Parts(iter)
<1>1. n \in Nat /\ DOMAIN text = 1 .. n /\ \A i \in 1 .. n : text[i] \in P
  OBVIOUS
<1>2. step \in [(1 .. n) \X S -> S]
  <2>1. \A x \in (1 .. n) \X S : Added(x[2], text[x[1]], separator) \in S
    BY <1>1, AddedType
  <2> QED
    BY <2>1
<1>3. <<NoText>> \in S
  BY DEF NoText, Texts
<1>4. \E iter : Parts(iter)
  <2>1. PICK iter \in [SUBSET (1 .. n) -> S] : IsFold(iter, n, <<NoText>>, step)
    <3> HIDE DEF step, S, n
    <3> QED
      BY <1>1, <1>2, <1>3, FoldExists
  <2>2. ASSUME NEW s \in SUBSET (1 .. n), s # {}
        PROVE  step[<<Max(s), iter[s \ {Max(s)}]>>]
                 = Added(iter[s \ {Max(s)}], text[Max(s)], separator)
    <3>1. Max(s) \in 1 .. n /\ s \ {Max(s)} \in SUBSET (1 .. n)
      <4> HIDE DEF n
      <4> QED
        BY <1>1, <2>2, MaxOfSome
    <3>2. iter[s \ {Max(s)}] \in S
      BY <2>1, <3>1
    <3> HIDE DEF S, n
    <3> QED
      BY <3>1, <3>2
  <2>3. Parts(iter)
    <3> HIDE DEF S, n, step
    <3> QED
      BY <1>1, <2>1, <2>2 DEF IsFold
  <2> QED
    BY <2>3
<1>5. Parts(c)
  <2> HIDE DEF Parts
  <2> QED
    BY <1>4
<1>6. Split(text, separator) = c[DOMAIN text]
  BY Zenon DEF Split, FoldLeft, MapThenFoldSet, Added
<1> DEFINE q == [k \in 0 .. n |-> c[1 .. k]]
<1> HIDE DEF c
<1>7. q[0] = <<NoText>>
  <2>1. 1 .. 0 = {} /\ {} \in SUBSET DOMAIN text /\ 0 \in 0 .. n
    BY <1>1
  <2>2. c[{}] = <<NoText>>
    BY <1>5, <2>1
  <2> HIDE DEF Parts, n
  <2> QED
    BY <2>1, <2>2
<1>8. ASSUME NEW k \in 1 .. n PROVE q[k] = Added(q[k - 1], text[k], separator)
  <2>1. /\ Max(1 .. k) = k /\ (1 .. k) \ {k} = 1 .. (k - 1)
        /\ 1 .. k \in SUBSET DOMAIN text /\ 1 .. k # {}
        /\ k \in 0 .. n /\ k - 1 \in 0 .. n
    BY <1>1, MaxOfInitial
  <2>2. c[1 .. k] = Added(c[(1 .. k) \ {Max(1 .. k)}], text[Max(1 .. k)], separator)
    BY <1>5, <2>1
  <2> HIDE DEF Parts, n
  <2> QED
    BY <2>1, <2>2
<1>9. Split(text, separator) = q[n]
  <2> HIDE DEF Parts
  <2> QED
    BY <1>1, <1>6
<1> HIDE DEF q
<1>10. SplitsInSteps(q, text, separator)
  BY <1>7, <1>8, <1>9 DEF SplitsInSteps
<1> QED
  BY <1>10

LEMMA SplitNothing == ASSUME NEW separator PROVE Split(<< >>, separator) = <<NoText>>
<1>1. << >> \in Seq({}) /\ Len(<< >>) = 0
  OBVIOUS
<1>2. PICK q : SplitsInSteps(q, << >>, separator)
  BY <1>1, SplitRun
<1> QED
  BY <1>1, <1>2 DEF SplitsInSteps

(* One more piece of a text is one more step of its split.                 *)
LEMMA SplitOneMore ==
  ASSUME NEW P, NEW text \in Seq(P), NEW piece \in P, NEW separator
  PROVE  Split(Append(text, piece), separator) = Added(Split(text, separator), piece, separator)
<1> DEFINE longer == Append(text, piece)
<1>1. /\ longer \in Seq(P) /\ Len(longer) = Len(text) + 1 /\ Len(text) \in Nat
      /\ longer[Len(text) + 1] = piece
      /\ \A k \in 1 .. Len(text) : longer[k] = text[k] /\ k \in 1 .. Len(longer)
      /\ Len(text) + 1 \in 1 .. Len(longer)
  OBVIOUS
<1> HIDE DEF longer
<1>2. PICK q : SplitsInSteps(q, text, separator)
  BY SplitRun
<1>3. PICK r : SplitsInSteps(r, longer, separator)
  BY <1>1, SplitRun
<1>4. SameSteps(q, r, Len(text))
  BY <1>1, <1>2, <1>3 DEF SplitsInSteps, SameSteps
<1>5. q[Len(text)] = r[Len(text)]
  BY <1>1, <1>4, RunsAgree
<1>6. r[Len(longer)] = Added(r[Len(text)], piece, separator)
  BY <1>1, <1>3 DEF SplitsInSteps
<1> QED
  BY <1>2, <1>3, <1>5, <1>6 DEF longer, SplitsInSteps

(* The parts of a split hold no separator, and there is one at least.      *)
LEMMA SplitType ==
  ASSUME NEW P, NEW text \in Seq(P), NEW separator
  PROVE  Split(text, separator) \in Texts(Without(P, separator)) \ {<< >>}
<1> DEFINE Q == Without(P, separator)
           T == {t \in Seq(P) : Split(t, separator) \in Texts(Q) \ {<< >>}}
<1>1. << >> \in T
  <2>1. << >> \in Seq(P) /\ <<NoText>> \in Texts(Q) \ {<< >>}
    BY DEF NoText, Texts
  <2> QED
    BY <2>1, SplitNothing
<1>2. ASSUME NEW t \in Seq(P), NEW e \in P, t \in T PROVE Append(t, e) \in T
  <2>1. Split(t, separator) \in Texts(Q) /\ Split(t, separator) # << >>
    BY <1>2
  <2>2. e \in Q \/ e = separator
    BY DEF Without
  <2>3. Added(Split(t, separator), e, separator) \in Texts(Q) \ {<< >>}
    <3> HIDE DEF Q, T
    <3> QED
      BY <2>1, <2>2, AddedType
  <2>4. Split(Append(t, e), separator) = Added(Split(t, separator), e, separator)
    BY SplitOneMore
  <2>5. Append(t, e) \in Seq(P)
    OBVIOUS
  <2> QED
    BY <2>3, <2>4, <2>5
<1>3. Seq(P) \subseteq T
  <2> HIDE DEF T
  <2> QED
    BY <1>1, <1>2, SequenceInduction
<1> QED
  BY <1>3

(* The parts with more text behind the last one.                           *)
Extended(parts, word) == [parts EXCEPT ![Len(parts)] = parts[Len(parts)] \o word]

(* A word without a separator goes to the last part.                       *)
LEMMA SplitConcat ==
  ASSUME NEW P, NEW separator, NEW text \in Seq(P), NEW word \in Seq(Without(P, separator))
  PROVE  Split(text \o word, separator) = Extended(Split(text, separator), word)
<1> DEFINE Q == Without(P, separator)
           parts == Split(text, separator)
           T == {w \in Seq(Q) : Split(text \o w, separator) = Extended(parts, w)}
<1>1. parts \in Seq(Seq(Q)) /\ parts # << >>
  BY SplitType DEF Texts
<1>2. Len(parts) \in 1 .. Len(parts) /\ parts[Len(parts)] \in Seq(Q)
  <2> HIDE DEF parts, Q
  <2> QED
    BY <1>1
<1>3. << >> \in T
  <2>1. text \o << >> = text
    OBVIOUS
  <2>2. parts[Len(parts)] \o << >> = parts[Len(parts)]
    <3> HIDE DEF parts, Q
    <3> QED
      BY <1>2
  <2>3. Extended(parts, << >>) = parts
    <3> HIDE DEF parts, Q
    <3> QED
      BY <1>1, <1>2, <2>2 DEF Extended
  <2> QED
    BY <2>1, <2>3
<1>4. ASSUME NEW w \in Seq(Q), NEW e \in Q, w \in T PROVE Append(w, e) \in T
  <2>1. text \o w \in Seq(P) /\ text \o Append(w, e) = Append(text \o w, e) /\ e \in P
    <3>1. w \in Seq(P) /\ e \in P
      BY WithoutIsSubset
    <3> HIDE DEF T
    <3> QED
      BY <3>1
  <2>2. Split(text \o Append(w, e), separator) = Added(Extended(parts, w), e, separator)
    BY <1>4, <2>1, SplitOneMore
  <2>3. Added(Extended(parts, w), e, separator) = Extended(parts, Append(w, e))
    <3>1. e # separator
      BY DEF Without
    <3> HIDE DEF parts, Q, T
    <3>2. parts[Len(parts)] \o Append(w, e) = Append(parts[Len(parts)] \o w, e)
      <4>1. PICK last \in Seq(Q) : last = parts[Len(parts)]
        BY <1>2
      <4>2. last \o Append(w, e) = Append(last \o w, e)
        BY ConcatAppend
      <4> QED
        BY <4>1, <4>2
    <3>3. /\ Extended(parts, w) \in Seq(Seq(Q))
          /\ Len(Extended(parts, w)) = Len(parts)
          /\ Extended(parts, w)[Len(parts)] = parts[Len(parts)] \o w
      <4>1. parts[Len(parts)] \o w \in Seq(Q)
        BY <1>2
      <4> QED
        BY <1>1, <1>2, <4>1, ExceptSeq DEF Extended
    <3>4. Added(Extended(parts, w), e, separator)
            = [Extended(parts, w) EXCEPT ![Len(parts)] = Append(parts[Len(parts)] \o w, e)]
      BY <3>1, <3>3 DEF Added
    <3> QED
      BY <1>1, <1>2, <3>2, <3>4 DEF Extended
  <2>4. Append(w, e) \in Seq(Q)
    OBVIOUS
  <2> QED
    BY <2>2, <2>3, <2>4
<1>5. Seq(Q) \subseteq T
  <2> HIDE DEF T, Q
  <2> QED
    BY <1>3, <1>4, SequenceInduction
<1> QED
  BY <1>5

(* A word behind a separator is a part of its own.                         *)
LEMMA SplitBehindSeparator ==
  ASSUME NEW P, NEW separator, NEW text \in Seq(P), NEW word \in Seq(Without(P, separator))
  PROVE  Split(Append(text, separator) \o word, separator)
           = Append(Split(text, separator), word)
<1> DEFINE Q == Without(P, separator)
           parts == Split(text, separator)
<1>1. parts \in Seq(Seq(Q)) /\ parts # << >>
  BY SplitType DEF Texts
<1>2. /\ text \in Seq(P \cup {separator})
      /\ Append(text, separator) \in Seq(P \cup {separator})
      /\ Without(P \cup {separator}, separator) = Q
  BY DEF Without
<1>3. Split(Append(text, separator), separator) = Append(parts, NoText)
  BY <1>2, SplitOneMore DEF Added
<1>4. Split(Append(text, separator) \o word, separator) = Extended(Append(parts, NoText), word)
  <2> DEFINE before == Append(text, separator)
             R == P \cup {separator}
  <2>1. before \in Seq(R) /\ word \in Seq(Without(R, separator))
    BY <1>2
  <2>2. Split(before \o word, separator) = Extended(Split(before, separator), word)
    <3> HIDE DEF before, R
    <3> QED
      BY <2>1, SplitConcat
  <2> QED
    BY <1>3, <2>2
<1>5. Extended(Append(parts, NoText), word) = Append(parts, word)
  <2>1. << >> \o word = word /\ << >> \in Seq(Q) /\ word \in Seq(Q)
    OBVIOUS
  <2> HIDE DEF parts, Q
  <2>2. /\ Len(Append(parts, << >>)) = Len(parts) + 1
        /\ Append(parts, << >>)[Len(parts) + 1] = << >>
        /\ [Append(parts, << >>) EXCEPT ![Len(parts) + 1] = word] = Append(parts, word)
    <3>1. PICK S : S = Seq(Q)
      OBVIOUS
    <3>2. PICK none \in S : none = << >>
      BY <2>1, <3>1
    <3>3. parts \in Seq(S) /\ word \in S
      BY <1>1, <2>1, <3>1
    <3> QED
      BY <3>2, <3>3, ReplaceAppended
  <2> QED
    BY <2>1, <2>2 DEF Extended, NoText
<1> QED
  BY <1>4, <1>5

-----------------------------------------------------------------------------
(* NonEmpty *)

Kept(kept, text) == IF text = NoText THEN kept ELSE Append(kept, text)

(* q gives the texts kept of each beginning of a list.                     *)
KeepsInSteps(q, texts) ==
  /\ q[0] = << >>
  /\ \A k \in 1 .. Len(texts) : q[k] = Kept(q[k - 1], texts[k])
  /\ NonEmpty(texts) = q[Len(texts)]

(* NonEmpty is the end of a run through its texts.                         *)
LEMMA NonEmptyRun ==
  ASSUME NEW P, NEW texts \in Texts(P)
  PROVE  \E q : KeepsInSteps(q, texts)
<1> DEFINE n == Len(texts)
           S == Seq(Seq(P) \ {<< >>})
           step == [x \in (1 .. n) \X S |-> Kept(x[2], texts[x[1]])]
           Results(iter) ==
             iter = [s \in SUBSET DOMAIN texts |->
                       IF s = {} THEN << >>
                       ELSE Kept(iter[s \ {Max(s)}], texts[Max(s)])]
           c == CHOOSE iter : Results(iter)
<1>1. n \in Nat /\ DOMAIN texts = 1 .. n /\ \A i \in 1 .. n : texts[i] \in Seq(P)
  BY DEF Texts
<1>2. step \in [(1 .. n) \X S -> S]
  <2>1. ASSUME NEW i \in 1 .. n, NEW r \in S PROVE Kept(r, texts[i]) \in S
    <3>1. texts[i] \in Seq(P)
      BY <1>1
    <3> HIDE DEF n
    <3> QED
      BY <3>1 DEF Kept, NoText
  <2>2. \A x \in (1 .. n) \X S : Kept(x[2], texts[x[1]]) \in S
    <3> SUFFICES ASSUME NEW x \in (1 .. n) \X S PROVE Kept(x[2], texts[x[1]]) \in S
      OBVIOUS
    <3>1. x[1] \in 1 .. n /\ x[2] \in S
      OBVIOUS
    <3> HIDE DEF S, n
    <3> QED
      BY <2>1, <3>1
  <2> QED
    BY <2>2
<1>3. << >> \in S
  BY DEF NoText
<1>4. \E iter : Results(iter)
  <2>1. PICK iter \in [SUBSET (1 .. n) -> S] : IsFold(iter, n, << >>, step)
    <3> HIDE DEF step, S, n
    <3> QED
      BY <1>1, <1>2, <1>3, FoldExists
  <2>2. ASSUME NEW s \in SUBSET (1 .. n), s # {}
        PROVE  step[<<Max(s), iter[s \ {Max(s)}]>>] = Kept(iter[s \ {Max(s)}], texts[Max(s)])
    <3>1. Max(s) \in 1 .. n /\ s \ {Max(s)} \in SUBSET (1 .. n)
      <4> HIDE DEF n
      <4> QED
        BY <1>1, <2>2, MaxOfSome
    <3>2. iter[s \ {Max(s)}] \in S
      BY <2>1, <3>1
    <3> HIDE DEF S, n
    <3> QED
      BY <3>1, <3>2
  <2>3. Results(iter)
    <3> HIDE DEF S, n, step
    <3> QED
      BY <1>1, <2>1, <2>2 DEF IsFold
  <2> QED
    BY <2>3
<1>5. Results(c)
  <2> HIDE DEF Results
  <2> QED
    BY <1>4
<1>6. NonEmpty(texts) = c[DOMAIN texts]
  BY Zenon DEF NonEmpty, FoldLeft, MapThenFoldSet, Kept
<1> DEFINE q == [k \in 0 .. n |-> c[1 .. k]]
<1> HIDE DEF c
<1>7. q[0] = << >>
  <2>1. 1 .. 0 = {} /\ {} \in SUBSET DOMAIN texts /\ 0 \in 0 .. n
    BY <1>1
  <2>2. c[{}] = << >>
    BY <1>5, <2>1
  <2> HIDE DEF Results, n
  <2> QED
    BY <2>1, <2>2
<1>8. ASSUME NEW k \in 1 .. n PROVE q[k] = Kept(q[k - 1], texts[k])
  <2>1. /\ Max(1 .. k) = k /\ (1 .. k) \ {k} = 1 .. (k - 1)
        /\ 1 .. k \in SUBSET DOMAIN texts /\ 1 .. k # {}
        /\ k \in 0 .. n /\ k - 1 \in 0 .. n
    <3> HIDE DEF n, Results
    <3>1. n \in Nat /\ DOMAIN texts = 1 .. n
      BY <1>1
    <3>2. Max(1 .. k) = k /\ (1 .. k) \ {k} = 1 .. (k - 1) /\ 1 .. k \in SUBSET (1 .. n)
      BY <3>1, MaxOfInitial
    <3>3. 1 .. k # {} /\ k \in 0 .. n /\ k - 1 \in 0 .. n
      BY <3>1
    <3> QED
      BY <3>1, <3>2, <3>3, Zenon
  <2>2. c[1 .. k] = Kept(c[(1 .. k) \ {Max(1 .. k)}], texts[Max(1 .. k)])
    BY <1>5, <2>1
  <2> HIDE DEF Results, n
  <2> QED
    BY <2>1, <2>2
<1>9. NonEmpty(texts) = q[n]
  <2> HIDE DEF Results
  <2> QED
    BY <1>1, <1>6
<1> HIDE DEF q
<1>10. KeepsInSteps(q, texts)
  BY <1>7, <1>8, <1>9 DEF KeepsInSteps
<1> QED
  BY <1>10

-----------------------------------------------------------------------------
(* JoinWith *)

JoinedTo(joined, texts, i, separator) ==
  IF i = 1 THEN texts[1] ELSE Append(joined, separator) \o texts[i]

(* q gives each beginning of a list joined.                                *)
JoinsInSteps(q, texts, separator) ==
  /\ q[0] = NoText
  /\ \A k \in 1 .. Len(texts) : q[k] = JoinedTo(q[k - 1], texts, k, separator)
  /\ JoinWith(texts, separator) = q[Len(texts)]

(* JoinWith is the end of a run through its texts.                         *)
LEMMA JoinRun ==
  ASSUME NEW P, NEW texts \in Texts(P), NEW separator
  PROVE  \E q : JoinsInSteps(q, texts, separator)
<1> DEFINE n == Len(texts)
           S == Seq(P \cup {separator})
           step == [x \in (1 .. n) \X S |-> JoinedTo(x[2], texts, x[1], separator)]
           index == [i \in DOMAIN texts |-> i]
           Results(iter) ==
             iter = [s \in SUBSET DOMAIN texts |->
                       IF s = {} THEN NoText
                       ELSE JoinedTo(iter[s \ {Max(s)}], texts, index[Max(s)], separator)]
           c == CHOOSE iter : Results(iter)
<1>1. n \in Nat /\ DOMAIN texts = 1 .. n /\ \A i \in 1 .. n : texts[i] \in Seq(P)
  BY DEF Texts
<1>2. step \in [(1 .. n) \X S -> S]
  <2>1. ASSUME NEW i \in 1 .. n, NEW r \in S PROVE JoinedTo(r, texts, i, separator) \in S
    <3>1. /\ texts[i] \in Seq(P \cup {separator})
          /\ i = 1 => texts[1] \in Seq(P \cup {separator})
          /\ Append(r, separator) \in Seq(P \cup {separator})
      <4>1. texts[i] \in Seq(P)
        BY <1>1
      <4> HIDE DEF n
      <4> QED
        BY <4>1
    <3> HIDE DEF n
    <3> QED
      BY <3>1 DEF JoinedTo
  <2>2. \A x \in (1 .. n) \X S : JoinedTo(x[2], texts, x[1], separator) \in S
    <3> SUFFICES ASSUME NEW x \in (1 .. n) \X S PROVE JoinedTo(x[2], texts, x[1], separator) \in S
      OBVIOUS
    <3>1. x[1] \in 1 .. n /\ x[2] \in S
      OBVIOUS
    <3> HIDE DEF S, n
    <3> QED
      BY <2>1, <3>1
  <2> QED
    BY <2>2
<1>3. NoText \in S
  BY DEF NoText
<1>4. \E iter : Results(iter)
  <2>1. PICK iter \in [SUBSET (1 .. n) -> S] : IsFold(iter, n, NoText, step)
    <3> HIDE DEF step, S, n
    <3> QED
      BY <1>1, <1>2, <1>3, FoldExists
  <2>2. ASSUME NEW s \in SUBSET (1 .. n), s # {}
        PROVE  step[<<Max(s), iter[s \ {Max(s)}]>>]
                 = JoinedTo(iter[s \ {Max(s)}], texts, index[Max(s)], separator)
    <3>1. Max(s) \in 1 .. n /\ s \ {Max(s)} \in SUBSET (1 .. n)
      <4> HIDE DEF n
      <4> QED
        BY <1>1, <2>2, MaxOfSome
    <3>2. iter[s \ {Max(s)}] \in S /\ index[Max(s)] = Max(s)
      BY <1>1, <2>1, <3>1
    <3> HIDE DEF S, n, index
    <3> QED
      BY <3>1, <3>2
  <2>3. Results(iter)
    <3> HIDE DEF S, n, step, index
    <3> QED
      BY <1>1, <2>1, <2>2 DEF IsFold
  <2> QED
    BY <2>3
<1>5. Results(c)
  <2> HIDE DEF Results
  <2> QED
    BY <1>4
<1>6. JoinWith(texts, separator) = c[DOMAIN texts]
  <2>1. DOMAIN index = DOMAIN texts
    OBVIOUS
  <2> QED
    BY <2>1, Zenon DEF JoinWith, FoldLeftDomain, FoldLeft, MapThenFoldSet, JoinedTo
<1> DEFINE q == [k \in 0 .. n |-> c[1 .. k]]
<1> HIDE DEF c
<1>7. q[0] = NoText
  <2>1. 1 .. 0 = {} /\ {} \in SUBSET DOMAIN texts /\ 0 \in 0 .. n
    BY <1>1
  <2>2. c[{}] = NoText
    BY <1>5, <2>1
  <2> HIDE DEF Results, n
  <2> QED
    BY <2>1, <2>2
<1>8. ASSUME NEW k \in 1 .. n PROVE q[k] = JoinedTo(q[k - 1], texts, k, separator)
  <2>1. /\ Max(1 .. k) = k /\ (1 .. k) \ {k} = 1 .. (k - 1)
        /\ 1 .. k \in SUBSET DOMAIN texts /\ 1 .. k # {}
        /\ k \in 0 .. n /\ k - 1 \in 0 .. n
    <3> HIDE DEF n, Results
    <3>1. n \in Nat /\ DOMAIN texts = 1 .. n
      BY <1>1
    <3>2. Max(1 .. k) = k /\ (1 .. k) \ {k} = 1 .. (k - 1) /\ 1 .. k \in SUBSET (1 .. n)
      BY <3>1, MaxOfInitial
    <3>3. 1 .. k # {} /\ k \in 0 .. n /\ k - 1 \in 0 .. n
      BY <3>1
    <3> QED
      BY <3>1, <3>2, <3>3, Zenon
  <2>2. c[1 .. k] = JoinedTo(c[(1 .. k) \ {Max(1 .. k)}], texts, index[Max(1 .. k)], separator)
    <3> HIDE DEF index
    <3> QED
      BY <1>5, <2>1
  <2>3. index[Max(1 .. k)] = k
    BY <1>1, <2>1
  <2> HIDE DEF Results, n, index
  <2> QED
    BY <2>1, <2>2, <2>3
<1>9. JoinWith(texts, separator) = q[n]
  <2> HIDE DEF Results
  <2> QED
    BY <1>1, <1>6
<1> HIDE DEF q
<1>10. JoinsInSteps(q, texts, separator)
  BY <1>7, <1>8, <1>9 DEF JoinsInSteps
<1> QED
  BY <1>10

-----------------------------------------------------------------------------
(* What NonEmpty and JoinWith do with one more text *)

LEMMA NonEmptyNothing == NonEmpty(<< >>) = << >>
<1>1. << >> \in Texts({}) /\ Len(<< >>) = 0
  BY DEF Texts
<1>2. PICK q : KeepsInSteps(q, << >>)
  BY <1>1, NonEmptyRun
<1> QED
  BY <1>1, <1>2 DEF KeepsInSteps

(* A list with one more text.                                              *)
LEMMA OneMore ==
  ASSUME NEW P, NEW texts \in Texts(P), NEW text \in Seq(P)
  PROVE  /\ Append(texts, text) \in Texts(P)
         /\ Len(Append(texts, text)) = Len(texts) + 1 /\ Len(texts) \in Nat
         /\ Append(texts, text)[Len(texts) + 1] = text
         /\ \A k \in 1 .. Len(texts) : /\ Append(texts, text)[k] = texts[k]
                                        /\ k \in 1 .. Len(Append(texts, text))
         /\ Len(texts) + 1 \in 1 .. Len(Append(texts, text))
BY DEF Texts

(* One more text is kept unless it is empty.                               *)
LEMMA NonEmptyOneMore ==
  ASSUME NEW P, NEW texts \in Texts(P), NEW text \in Seq(P)
  PROVE  NonEmpty(Append(texts, text)) = Kept(NonEmpty(texts), text)
<1> DEFINE longer == Append(texts, text)
<1>1. /\ longer \in Texts(P)
      /\ Len(longer) = Len(texts) + 1 /\ Len(texts) \in Nat
      /\ longer[Len(texts) + 1] = text
      /\ \A k \in 1 .. Len(texts) : longer[k] = texts[k] /\ k \in 1 .. Len(longer)
      /\ Len(texts) + 1 \in 1 .. Len(longer)
  BY OneMore
<1> HIDE DEF longer
<1>2. PICK q : KeepsInSteps(q, texts)
  BY NonEmptyRun
<1>3. PICK r : KeepsInSteps(r, longer)
  BY <1>1, NonEmptyRun
<1>4. SameSteps(q, r, Len(texts))
  BY <1>1, <1>2, <1>3 DEF KeepsInSteps, SameSteps
<1>5. q[Len(texts)] = r[Len(texts)]
  BY <1>1, <1>4, RunsAgree
<1>6. r[Len(longer)] = Kept(r[Len(texts)], text)
  BY <1>1, <1>3 DEF KeepsInSteps
<1> QED
  BY <1>2, <1>3, <1>5, <1>6 DEF longer, KeepsInSteps

LEMMA JoinNothing == ASSUME NEW separator PROVE JoinWith(<< >>, separator) = NoText
<1>1. << >> \in Texts({}) /\ Len(<< >>) = 0
  BY DEF Texts
<1>2. PICK q : JoinsInSteps(q, << >>, separator)
  BY <1>1, JoinRun
<1> QED
  BY <1>1, <1>2 DEF JoinsInSteps

(* One more text is put behind a separator, the first one is not.          *)
LEMMA JoinOneMore ==
  ASSUME NEW P, NEW texts \in Texts(P), NEW text \in Seq(P), NEW separator
  PROVE  JoinWith(Append(texts, text), separator)
           = IF texts = << >> THEN text
             ELSE Append(JoinWith(texts, separator), separator) \o text
<1> DEFINE longer == Append(texts, text)
<1>1. /\ longer \in Texts(P)
      /\ Len(longer) = Len(texts) + 1 /\ Len(texts) \in Nat
      /\ longer[Len(texts) + 1] = text
      /\ \A k \in 1 .. Len(texts) : longer[k] = texts[k] /\ k \in 1 .. Len(longer)
      /\ Len(texts) + 1 \in 1 .. Len(longer)
  BY OneMore
<1>2. texts = << >> <=> Len(texts) = 0
  BY DEF Texts
<1> HIDE DEF longer
<1>3. PICK q : JoinsInSteps(q, texts, separator)
  BY JoinRun
<1>4. PICK r : JoinsInSteps(r, longer, separator)
  BY <1>1, JoinRun
<1>5. SameSteps(q, r, Len(texts))
  <2>1. q[0] = r[0]
    BY <1>3, <1>4 DEF JoinsInSteps
  <2>2. ASSUME NEW k \in 1 .. Len(texts), q[k - 1] = r[k - 1]
        PROVE  q[k] = r[k]
    <3>1. k = 1 => longer[1] = texts[1]
      BY <1>1
    <3>2. longer[k] = texts[k] /\ k \in 1 .. Len(longer)
      BY <1>1
    <3>3. JoinedTo(q[k - 1], texts, k, separator) = JoinedTo(r[k - 1], longer, k, separator)
      BY <2>2, <3>1, <3>2 DEF JoinedTo
    <3> QED
      BY <1>3, <1>4, <3>2, <3>3 DEF JoinsInSteps
  <2> QED
    BY <2>1, <2>2 DEF SameSteps
<1>6. q[Len(texts)] = r[Len(texts)]
  BY <1>1, <1>5, RunsAgree
<1>7. r[Len(longer)] = JoinedTo(r[Len(texts)], longer, Len(texts) + 1, separator)
  BY <1>1, <1>4 DEF JoinsInSteps
<1>8. JoinWith(texts, separator) = r[Len(texts)] /\ JoinWith(longer, separator) = r[Len(longer)]
  BY <1>3, <1>4, <1>6 DEF JoinsInSteps
<1>9. CASE Len(texts) = 0
  <2>1. longer[1] = text
    BY <1>1, <1>9
  <2> QED
    BY <1>2, <1>7, <1>8, <1>9, <2>1 DEF longer, JoinedTo
<1>10. CASE Len(texts) # 0
  <2>1. Len(texts) + 1 # 1
    BY <1>1, <1>10
  <2>2. r[Len(longer)] = Append(r[Len(texts)], separator) \o text
    BY <1>1, <1>7, <2>1 DEF JoinedTo
  <2> QED
    BY <1>2, <1>8, <1>10, <2>2 DEF longer
<1> QED
  BY <1>9, <1>10

-----------------------------------------------------------------------------
(* What NonEmpty, JoinWith and Words return *)

Solid(P) == Seq(P) \ {<< >>}

(* What NonEmpty keeps are texts that are not empty.                       *)
LEMMA NonEmptyType ==
  ASSUME NEW P, NEW texts \in Texts(P)
  PROVE  NonEmpty(texts) \in Seq(Solid(P))
<1> DEFINE T == {ts \in Texts(P) : NonEmpty(ts) \in Seq(Solid(P))}
<1>1. << >> \in T
  <2>1. << >> \in Texts(P) /\ << >> \in Seq(Solid(P))
    BY DEF Texts
  <2> QED
    BY <2>1, NonEmptyNothing
<1>2. ASSUME NEW ts \in Seq(Seq(P)), NEW t \in Seq(P), ts \in T PROVE Append(ts, t) \in T
  <2>1. NonEmpty(ts) \in Seq(Solid(P)) /\ ts \in Texts(P) /\ Append(ts, t) \in Texts(P)
    BY <1>2 DEF Texts
  <2>2. NonEmpty(Append(ts, t)) = Kept(NonEmpty(ts), t)
    BY <2>1, NonEmptyOneMore
  <2>3. Kept(NonEmpty(ts), t) \in Seq(Solid(P))
    <3>1. CASE t = NoText
      BY <2>1, <3>1 DEF Kept
    <3>2. CASE t # NoText
      <4>1. t \in Solid(P)
        BY <3>2 DEF Solid, NoText
      <4> QED
        BY <2>1, <3>2, <4>1 DEF Kept
    <3> QED
      BY <3>1, <3>2
  <2> QED
    BY <2>1, <2>2, <2>3
<1>3. Seq(Seq(P)) \subseteq T
  <2>1. PICK S : S = Seq(P)
    OBVIOUS
  <2> HIDE DEF T
  <2> QED
    BY <1>1, <1>2, <2>1, SequenceInduction
<1> QED
  BY <1>3 DEF Texts

(* NonEmpty drops none of these.                                           *)
LEMMA NonEmptyKeepsSolid ==
  ASSUME NEW P, NEW texts \in Seq(Solid(P))
  PROVE  NonEmpty(texts) = texts
<1> DEFINE T == {ts \in Seq(Solid(P)) : NonEmpty(ts) = ts}
<1>1. << >> \in T
  BY NonEmptyNothing
<1>2. ASSUME NEW ts \in Seq(Solid(P)), NEW t \in Solid(P), ts \in T PROVE Append(ts, t) \in T
  <2>1. ts \in Texts(P) /\ t \in Seq(P) /\ t # NoText
    BY SeqMonotonic DEF Texts, Solid, NoText
  <2>2. NonEmpty(Append(ts, t)) = Append(ts, t)
    BY <1>2, <2>1, NonEmptyOneMore DEF Kept
  <2> QED
    BY <2>2
<1>3. Seq(Solid(P)) \subseteq T
  <2> HIDE DEF T
  <2> QED
    BY <1>1, <1>2, SequenceInduction
<1> QED
  BY <1>3

(* What is joined is a text of the pieces and the separator.               *)
LEMMA JoinType ==
  ASSUME NEW P, NEW separator \in P, NEW texts \in Texts(P)
  PROVE  JoinWith(texts, separator) \in Seq(P)
<1> DEFINE T == {ts \in Texts(P) : JoinWith(ts, separator) \in Seq(P)}
<1>1. << >> \in T
  <2>1. << >> \in Texts(P) /\ NoText \in Seq(P)
    BY DEF Texts, NoText
  <2> QED
    BY <2>1, JoinNothing
<1>2. ASSUME NEW ts \in Seq(Seq(P)), NEW t \in Seq(P), ts \in T PROVE Append(ts, t) \in T
  <2>1. ts \in Texts(P) /\ Append(ts, t) \in Texts(P) /\ JoinWith(ts, separator) \in Seq(P)
    BY <1>2 DEF Texts
  <2>2. Append(JoinWith(ts, separator), separator) \o t \in Seq(P)
    BY <2>1
  <2>3. JoinWith(Append(ts, t), separator) \in Seq(P)
    <3>1. PICK us \in Texts(P) : us = ts
      BY <2>1
    <3>2. JoinWith(Append(us, t), separator)
            = IF us = << >> THEN t ELSE Append(JoinWith(us, separator), separator) \o t
      BY JoinOneMore
    <3> QED
      BY <2>2, <3>1, <3>2
  <2> QED
    BY <2>1, <2>3
<1>3. Seq(Seq(P)) \subseteq T
  <2>1. PICK S : S = Seq(P)
    OBVIOUS
  <2> HIDE DEF T
  <2> QED
    BY <1>1, <1>2, <2>1, SequenceInduction
<1> QED
  BY <1>3 DEF Texts

(* Some texts that are not empty join to one that is not.                  *)
LEMMA JoinOfSolid ==
  ASSUME NEW P, NEW separator \in P, NEW texts \in Seq(Solid(P)), texts # << >>
  PROVE  JoinWith(texts, separator) \in Solid(P)
<1> DEFINE T == {ts \in Seq(Solid(P)) : ts # << >> => JoinWith(ts, separator) # << >>}
<1>1. << >> \in T
  OBVIOUS
<1>2. ASSUME NEW ts \in Seq(Solid(P)), NEW t \in Solid(P) PROVE Append(ts, t) \in T
  <2>1. ts \in Texts(P) /\ t \in Seq(P) /\ t # << >>
    BY SeqMonotonic DEF Texts, Solid
  <2>2. JoinWith(ts, separator) \in Seq(P)
    BY <2>1, JoinType
  <2>3. Append(JoinWith(ts, separator), separator) \o t # << >>
    BY <2>1, <2>2
  <2> QED
    BY <2>1, <2>3, JoinOneMore
<1>3. Seq(Solid(P)) \subseteq T
  <2> HIDE DEF T
  <2> QED
    BY <1>1, <1>2, SequenceInduction
<1>4. texts \in Texts(P)
  BY SeqMonotonic DEF Texts, Solid
<1> QED
  BY <1>3, <1>4, JoinType DEF Solid

(* A list of texts without the separator is read back from its join.       *)
LEMMA JoinThenSplit ==
  ASSUME NEW P, NEW separator \in P, NEW texts \in Texts(Without(P, separator)), texts # << >>
  PROVE  Split(JoinWith(texts, separator), separator) = texts
<1> DEFINE Q == Without(P, separator)
           T == {ts \in Texts(Q) :
                   ts # << >> => Split(JoinWith(ts, separator), separator) = ts}
<1>1. << >> \in T
  BY DEF Texts
<1>2. ASSUME NEW ts \in Seq(Seq(Q)), NEW t \in Seq(Q), ts \in T PROVE Append(ts, t) \in T
  <2>1. ts \in Texts(Q) /\ ts \in Texts(P) /\ t \in Seq(P) /\ Append(ts, t) \in Texts(Q)
    <3>1. ts \in Texts(Q) /\ Append(ts, t) \in Texts(Q)
      BY DEF Texts
    <3> QED
      BY <3>1, WithoutIsSubset
  <2>2. CASE ts = << >>
    <3>1. JoinWith(Append(ts, t), separator) = t
      BY <2>1, <2>2, JoinOneMore
    <3>2. Split(t, separator) = Append(ts, t)
      <4>1. << >> \in Seq(P) /\ << >> \o t = t
        BY <2>1
      <4>2. PICK none \in Seq(P) : none = << >>
        BY <4>1
      <4>3. Split(none \o t, separator) = Extended(Split(none, separator), t)
        BY SplitConcat
      <4>4. Split(t, separator) = Extended(<<NoText>>, t)
        BY <4>1, <4>2, <4>3, SplitNothing
      <4> QED
        BY <2>2, <4>1, <4>4 DEF Extended, NoText
    <3> QED
      BY <2>1, <3>1, <3>2
  <2>3. CASE ts # << >>
    <3>1. /\ JoinWith(ts, separator) \in Seq(P)
          /\ JoinWith(Append(ts, t), separator)
               = Append(JoinWith(ts, separator), separator) \o t
      BY <2>1, <2>3, JoinType, JoinOneMore
    <3>2. Split(JoinWith(Append(ts, t), separator), separator)
            = Append(Split(JoinWith(ts, separator), separator), t)
      <4>1. PICK joined \in Seq(P) : joined = JoinWith(ts, separator)
        BY <3>1
      <4>2. Split(Append(joined, separator) \o t, separator)
              = Append(Split(joined, separator), t)
        <5>1. t \in Seq(Without(P, separator))
          OBVIOUS
        <5> HIDE DEF T, Q
        <5> QED
          BY <5>1, SplitBehindSeparator
      <4> QED
        BY <3>1, <4>1, <4>2
    <3> QED
      BY <1>2, <2>1, <2>3, <3>2
  <2> QED
    BY <2>2, <2>3
<1>3. Seq(Seq(Q)) \subseteq T
  <2>1. PICK S : S = Seq(Q)
    OBVIOUS
  <2> HIDE DEF T
  <2> QED
    BY <1>1, <1>2, <2>1, SequenceInduction
<1> QED
  BY <1>3 DEF Texts

(* The words of a text are not empty and hold no blank.                    *)
LEMMA WordsType ==
  ASSUME NEW P, NEW text \in Seq(P)
  PROVE  Words(text) \in Seq(Solid(Without(P, Space)))
<1>1. Split(text, Space) \in Texts(Without(P, Space))
  BY SplitType
<1> QED
  BY <1>1, NonEmptyType DEF Words

(* Words that are not empty and have no space are read back from a line.   *)
LEMMA JoinThenWords ==
  ASSUME NEW P, Space \in P, NEW words \in Seq(Solid(Without(P, Space)))
  PROVE  Words(JoinWith(words, Space)) = words
<1>1. NonEmpty(words) = words
  BY NonEmptyKeepsSolid
<1>2. CASE words = << >>
  <2>1. Words(JoinWith(words, Space)) = NonEmpty(<<NoText>>)
    BY <1>2, JoinNothing, SplitNothing DEF Words, NoText
  <2>2. << >> \in Texts({}) /\ NoText \in Seq({}) /\ Append(<< >>, NoText) = <<NoText>>
    BY DEF Texts, NoText
  <2>3. NonEmpty(<<NoText>>) = << >>
    BY <2>2, NonEmptyNothing, NonEmptyOneMore DEF Kept
  <2> QED
    BY <1>2, <2>1, <2>3
<1>3. CASE words # << >>
  <2>1. words \in Texts(Without(P, Space))
    BY SeqMonotonic DEF Texts, Solid
  <2>2. Split(JoinWith(words, Space), Space) = words
    BY <1>3, <2>1, JoinThenSplit
  <2> QED
    BY <1>1, <2>2 DEF Words
<1> QED
  BY <1>2, <1>3

-----------------------------------------------------------------------------
(* The rename of a value *)

LEMMA ExPiecesSeparateNothing == Space \notin ExPieces /\ Comma \notin ExPieces
BY ExPiecesAssumption

(* No ex_N_ at the beginning.                                              *)
Stripped(text) == text = << >> \/ text[1] \notin ExPieces

(* strip_rename_prefix leaves a text that no prefix begins.                *)
LEMMA StripType ==
  ASSUME NEW P, NEW value \in Seq(P)
  PROVE  StripRenamePrefix(value) \in Seq(P) /\ Stripped(StripRenamePrefix(value))
<1> DEFINE first == {i \in DOMAIN value : value[i] \notin ExPieces}
           m == CHOOSE i \in first : \A j \in first : i <= j
<1>1. CASE first = {}
  <2>1. StripRenamePrefix(value) = << >>
    BY <1>1 DEF StripRenamePrefix, NoText
  <2> QED
    BY <2>1 DEF Stripped
<1>2. CASE first # {}
  <2>1. first \subseteq Nat
    OBVIOUS
  <2>2. \E i \in first : \A j \in first : i <= j
    <3> HIDE DEF first
    <3> QED
      BY <1>2, <2>1, LeastNumber
  <2>3. m \in first
    BY <2>2
  <2>4. m \in 1 .. Len(value) /\ value[m] \notin ExPieces
    <3> HIDE DEF m
    <3> QED
      BY <2>3
  <2>5. StripRenamePrefix(value) = SubSeq(value, m, Len(value))
    BY <1>2 DEF StripRenamePrefix
  <2> HIDE DEF first, m
  <2>6. SubSeq(value, m, Len(value)) \in Seq(P) /\ SubSeq(value, m, Len(value))[1] = value[m]
    BY <2>4
  <2> QED
    BY <2>4, <2>5, <2>6 DEF Stripped
<1> QED
  BY <1>1, <1>2

(* strip_rename_prefix sees through a prefix in front of a text.           *)
LEMMA StripBehindPrefix ==
  ASSUME NEW P, NEW text \in Seq(P), Stripped(text), NEW prefix \in ExPieces
  PROVE  StripRenamePrefix(<<prefix>> \o text) = text
<1> DEFINE value == <<prefix>> \o text
           first == {i \in DOMAIN value : value[i] \notin ExPieces}
<1>1. /\ DOMAIN value = 1 .. (Len(text) + 1) /\ Len(value) = Len(text) + 1
      /\ Len(text) \in Nat /\ value[1] = prefix
      /\ \A i \in 1 .. Len(text) : value[i + 1] = text[i]
  OBVIOUS
<1>2. CASE text = << >>
  <2>1. first = {}
    <3>1. Len(text) = 0
      BY <1>2
    <3>2. \A i \in DOMAIN value : i = 1
      BY <1>1, <3>1
    <3> HIDE DEF value
    <3> QED
      BY <1>1, <3>2
  <2> QED
    BY <1>2, <2>1 DEF StripRenamePrefix, NoText
<1>3. CASE text # << >>
  <2>1. Len(text) \in Nat \ {0} /\ text[1] \notin ExPieces
    BY <1>3 DEF Stripped
  <2>2. 2 \in first /\ \A j \in first : 2 <= j
    <3>1. 2 \in DOMAIN value /\ value[1 + 1] = text[1]
      BY <1>1, <2>1
    <3>2. \A i \in DOMAIN value : i \in Nat /\ (i = 1 \/ 2 <= i)
      BY <1>1
    <3> HIDE DEF value
    <3> QED
      BY <1>1, <2>1, <3>1, <3>2
  <2>3. first # {} /\ \A i \in first : i \in Nat
    <3> HIDE DEF value
    <3> QED
      BY <1>1, <2>2
  <2>4. (CHOOSE i \in first : \A j \in first : i <= j) = 2
    <3> HIDE DEF first
    <3> QED
      BY <2>2, <2>3
  <2>5. StripRenamePrefix(value) = SubSeq(value, 2, Len(value))
    BY <2>3, <2>4 DEF StripRenamePrefix
  <2>6. SubSeq(value, 2, Len(value)) = text
    <3>1. PICK S : prefix \in S /\ text \in Seq(S)
      <4>1. text \in Seq(P \cup ExPieces)
        BY SeqMonotonic
      <4> QED
        BY <4>1
    <3>2. SubSeq(value, 2, Len(value)) \in Seq(S)
      <4>1. value \in Seq(S)
        BY <3>1
      <4>2. \A i \in 2 .. Len(value) : value[i] \in S
        <5> HIDE DEF value
        <5> QED
          BY <4>1
      <4> HIDE DEF value
      <4> QED
        BY <1>1, <4>2, SubSeqProperties
    <3>3. Len(SubSeq(value, 2, Len(value))) = Len(text)
      BY <1>1
    <3>4. \A i \in 1 .. Len(text) : SubSeq(value, 2, Len(value))[i] = text[i]
      BY <1>1
    <3> QED
      BY <3>1, <3>2, <3>3, <3>4, SeqEqual
  <2> QED
    BY <2>5, <2>6
<1> QED
  BY <1>2, <1>3

(* The items of a list, each renamed.                                      *)
Renamed(items, prefix) ==
  [i \in DOMAIN items |-> <<prefix>> \o StripRenamePrefix(items[i])]

(* Renamed items are as many, none empty, each with the prefix in front.   *)
LEMMA RenamedType ==
  ASSUME NEW P, NEW items \in Texts(P), NEW prefix \in P
  PROVE  /\ Renamed(items, prefix) \in Seq(Solid(P)) /\ Renamed(items, prefix) \in Texts(P)
         /\ Len(Renamed(items, prefix)) = Len(items)
         /\ DOMAIN Renamed(items, prefix) = DOMAIN items
<1>1. items \in Seq(Seq(P))
  BY DEF Texts
<1>2. ASSUME NEW i \in DOMAIN items
      PROVE  <<prefix>> \o StripRenamePrefix(items[i]) \in Solid(P)
  <2>1. items[i] \in Seq(P)
    BY <1>1
  <2>2. PICK text \in Seq(P) : text = StripRenamePrefix(items[i])
    BY <2>1, StripType
  <2>3. <<prefix>> \o text \in Seq(P) /\ <<prefix>> \o text # << >>
    OBVIOUS
  <2> QED
    BY <2>2, <2>3 DEF Solid
<1>3. Len(items) \in Nat /\ DOMAIN items = 1 .. Len(items)
  BY <1>1
<1>4. Renamed(items, prefix) \in [1 .. Len(items) -> Solid(P)]
  BY <1>2, <1>3 DEF Renamed
<1>5. Renamed(items, prefix) \in Seq(Solid(P)) /\ Len(Renamed(items, prefix)) = Len(items)
  BY <1>3, <1>4
<1>6. Solid(P) \subseteq Seq(P)
  BY DEF Solid
<1> QED
  BY <1>3, <1>4, <1>5, <1>6, SeqMonotonic DEF Texts

(* Renaming the items of a list again leaves the last prefix.              *)
LEMMA RenamedAgain ==
  ASSUME NEW P, NEW items \in Texts(P), NEW a \in ExPieces, NEW b \in ExPieces, ExPieces \subseteq P
  PROVE  Renamed(Renamed(items, a), b) = Renamed(items, b)
<1>1. DOMAIN Renamed(items, a) = DOMAIN items /\ items \in Seq(Seq(P))
  BY DEF Renamed, Texts
<1>2. ASSUME NEW i \in DOMAIN items
      PROVE  StripRenamePrefix(Renamed(items, a)[i]) = StripRenamePrefix(items[i])
  <2>1. items[i] \in Seq(P)
    BY <1>1
  <2>2. PICK text \in Seq(P) : text = StripRenamePrefix(items[i]) /\ Stripped(text)
    BY <2>1, StripType
  <2>3. StripRenamePrefix(<<a>> \o text) = text
    BY <2>2, StripBehindPrefix
  <2>4. Renamed(items, a)[i] = <<a>> \o text
    BY <2>2 DEF Renamed
  <2> QED
    BY <2>2, <2>3, <2>4
<1>3. Renamed(Renamed(items, a), b)
        = [i \in DOMAIN items |-> <<b>> \o StripRenamePrefix(Renamed(items, a)[i])]
  BY <1>1 DEF Renamed
<1> QED
  BY <1>2, <1>3 DEF Renamed

NameFlags == {<<"--proxy-name">>, <<"--sd">>}
DomainFlag == <<"--custom-domain">>

(* What RenamedValue does with the value of each kind of flag.             *)
LEMMA RenamedValueCases ==
  ASSUME NEW flag, NEW value, NEW prefix
  PROVE  /\ flag \in NameFlags =>
              RenamedValue(flag, value, prefix) = <<prefix>> \o StripRenamePrefix(value)
         /\ flag = DomainFlag =>
              RenamedValue(flag, value, prefix)
                = JoinWith(Renamed(Split(value, Comma), prefix), Comma)
         /\ flag \notin NameFlags /\ flag # DomainFlag =>
              RenamedValue(flag, value, prefix) = value
<1>1. DomainFlag \notin NameFlags
  BY DEF DomainFlag, NameFlags
<1> QED
  BY <1>1 DEF RenamedValue, Renamed, NameFlags, DomainFlag

(* A renamed value is a word again.                                        *)
LEMMA RenamedValueType ==
  ASSUME NEW P, Comma \in P, NEW flag, NEW value \in Solid(P), NEW prefix \in P
  PROVE  RenamedValue(flag, value, prefix) \in Solid(P)
<1>1. value \in Seq(P)
  BY DEF Solid
<1>2. CASE flag \in NameFlags
  <2>1. PICK text \in Seq(P) : text = StripRenamePrefix(value)
    BY <1>1, StripType
  <2>2. <<prefix>> \o text \in Seq(P) /\ <<prefix>> \o text # << >>
    OBVIOUS
  <2> QED
    BY <1>2, <2>1, <2>2, RenamedValueCases DEF Solid
<1>3. CASE flag = DomainFlag
  <2>1. PICK items \in Texts(P) : items = Split(value, Comma) /\ items # << >>
    BY <1>1, SplitType, WithoutIsSubset
  <2>2. Renamed(items, prefix) \in Seq(Solid(P)) /\ Renamed(items, prefix) # << >>
    <3>1. Renamed(items, prefix) \in Seq(Solid(P)) /\ Len(Renamed(items, prefix)) = Len(items)
      BY RenamedType
    <3>2. Len(items) # 0
      BY <2>1 DEF Texts
    <3> QED
      BY <3>1, <3>2
  <2>3. JoinWith(Renamed(items, prefix), Comma) \in Solid(P)
    BY <2>2, JoinOfSolid
  <2> QED
    BY <1>3, <2>1, <2>3, RenamedValueCases
<1> QED
  BY <1>2, <1>3, RenamedValueCases

(* Renaming a value again leaves the last prefix.                          *)
LEMMA RenamedValueAgain ==
  ASSUME NEW P, Comma \in P, ExPieces \subseteq P,
         NEW flag, NEW value \in Solid(P), NEW a \in ExPieces, NEW b \in ExPieces
  PROVE  RenamedValue(flag, RenamedValue(flag, value, a), b) = RenamedValue(flag, value, b)
<1>1. value \in Seq(P)
  BY DEF Solid
<1>2. CASE flag \in NameFlags
  <2>1. PICK text \in Seq(P) : text = StripRenamePrefix(value) /\ Stripped(text)
    BY <1>1, StripType
  <2>2. StripRenamePrefix(<<a>> \o text) = text
    BY <2>1, StripBehindPrefix
  <2>3. RenamedValue(flag, value, a) = <<a>> \o text
    BY <1>2, <2>1, RenamedValueCases
  <2>4. RenamedValue(flag, <<a>> \o text, b) = <<b>> \o text
    BY <1>2, <2>2, RenamedValueCases
  <2> QED
    BY <1>2, <2>1, <2>3, <2>4, RenamedValueCases
<1>3. CASE flag = DomainFlag
  <2> DEFINE Q == Without(P, Comma)
  <2>1. PICK items \in Texts(Q) : items = Split(value, Comma) /\ items # << >>
    BY <1>1, SplitType
  <2>2. ExPieces \subseteq Q
    BY ExPiecesSeparateNothing DEF Without
  <2>3. Renamed(items, a) \in Texts(Q) /\ Renamed(items, a) # << >>
    <3>1. Renamed(items, a) \in Texts(Q) /\ Len(Renamed(items, a)) = Len(items)
      BY <2>2, RenamedType
    <3>2. Len(items) # 0
      BY <2>1 DEF Texts
    <3> QED
      BY <3>1, <3>2
  <2>4. Split(JoinWith(Renamed(items, a), Comma), Comma) = Renamed(items, a)
    BY <2>3, JoinThenSplit
  <2>5. Renamed(Renamed(items, a), b) = Renamed(items, b)
    BY <2>2, RenamedAgain
  <2> HIDE DEF Q
  <2>6. PICK once : once = RenamedValue(flag, value, a)
    OBVIOUS
  <2>7. once = JoinWith(Renamed(items, a), Comma)
    BY <1>3, <2>1, <2>6, RenamedValueCases
  <2>8. RenamedValue(flag, once, b) = JoinWith(Renamed(items, b), Comma)
    BY <1>3, <2>4, <2>5, <2>7, RenamedValueCases
  <2> QED
    BY <1>3, <2>1, <2>6, <2>8, RenamedValueCases
<1> QED
  BY <1>2, <1>3, RenamedValueCases

-----------------------------------------------------------------------------
(* The rename of a payload *)

Naming == NameFlags \cup {DomainFlag}

(* isValue tells which words are the values of naming flags.               *)
IsFlagWalk(isValue, words) ==
  isValue = [i \in 0 .. Len(words) |-> i > 1 /\ words[i - 1] \in Naming /\ ~isValue[i - 1]]

(* ApplyRenamePrefix walks the words by a recursive function; it exists.   *)
LEMMA FlagWalkExists ==
  ASSUME NEW W, NEW words \in Seq(W)
  PROVE  \E isValue \in [0 .. Len(words) -> BOOLEAN] : IsFlagWalk(isValue, words)
<1> DEFINE n == Len(words)
           step == [x \in (1 .. n) \X BOOLEAN |->
                      x[1] > 1 /\ words[x[1] - 1] \in Naming /\ ~x[2]]
<1>1. n \in Nat /\ FALSE \in BOOLEAN /\ step \in [(1 .. n) \X BOOLEAN -> BOOLEAN]
  OBVIOUS
<1>2. PICK iter \in [SUBSET (1 .. n) -> BOOLEAN] : IsFold(iter, n, FALSE, step)
  <2> HIDE DEF n, step
  <2> QED
    BY <1>1, FoldExists
<1> DEFINE isValue == [i \in 0 .. n |-> iter[1 .. i]]
<1>3. \A i \in 0 .. n : 1 .. i \in SUBSET (1 .. n)
  OBVIOUS
<1>4. isValue \in [0 .. n -> BOOLEAN]
  <2> HIDE DEF n
  <2> QED
    BY <1>2, <1>3
<1>5. isValue[0] = FALSE
  <2>1. 1 .. 0 = {} /\ {} \in SUBSET (1 .. n) /\ 0 \in 0 .. n
    BY <1>1
  <2>2. iter[{}] = FALSE
    BY <1>2, <2>1 DEF IsFold
  <2> HIDE DEF n
  <2> QED
    BY <2>1, <2>2
<1>6. ASSUME NEW i \in 1 .. n
      PROVE  isValue[i] = (i > 1 /\ words[i - 1] \in Naming /\ ~isValue[i - 1])
  <2>1. i \in 0 .. n /\ i - 1 \in 0 .. n /\ 1 .. i # {}
    <3> HIDE DEF n, isValue, step
    <3>1. n \in Nat
      BY <1>1
    <3>2. i \in 0 .. n /\ i - 1 \in 0 .. n /\ i \in 1 .. i
      BY <3>1
    <3> QED
      BY <3>2
  <2>2. Max(1 .. i) = i /\ (1 .. i) \ {i} = 1 .. (i - 1) /\ 1 .. i \in SUBSET (1 .. n)
    <3> HIDE DEF n
    <3> QED
      BY <1>1, MaxOfInitial
  <2>3. iter[1 .. i] = step[<<i, iter[1 .. (i - 1)]>>]
    <3> HIDE DEF n, step
    <3> QED
      BY <1>2, <2>1, <2>2 DEF IsFold
  <2>4. iter[1 .. (i - 1)] \in BOOLEAN
    <3> HIDE DEF n
    <3> QED
      BY <1>2, <1>3, <2>1
  <2>5. step[<<i, iter[1 .. (i - 1)]>>]
          = (i > 1 /\ words[i - 1] \in Naming /\ ~iter[1 .. (i - 1)])
    <3> HIDE DEF n
    <3> QED
      BY <2>4
  <2> HIDE DEF n, step
  <2> QED
    BY <2>1, <2>3, <2>5
<1>7. IsFlagWalk(isValue, words)
  <2>1. ASSUME NEW i \in 0 .. n
        PROVE  isValue[i] = (i > 1 /\ words[i - 1] \in Naming /\ ~isValue[i - 1])
    <3> HIDE DEF n, isValue
    <3>1. i = 0 \/ i \in 1 .. n
      BY <1>1
    <3>2. CASE i = 0
      <4>1. ~(i > 1)
        BY <3>2
      <4> QED
        BY <1>5, <3>2, <4>1
    <3>3. CASE i \in 1 .. n
      BY <1>6, <3>3
    <3> QED
      BY <3>1, <3>2, <3>3
  <2>2. isValue = [i \in 0 .. n |-> isValue[i]]
    OBVIOUS
  <2> HIDE DEF isValue
  <2> QED
    BY <2>1, <2>2 DEF IsFlagWalk
<1> QED
  BY <1>4, <1>7

(* The words with the values that isValue marks renamed.                   *)
RenamedWords(words, isValue, prefix) ==
  [i \in DOMAIN words |-> IF isValue[i] THEN RenamedValue(words[i - 1], words[i], prefix)
                          ELSE words[i]]

(* isValue marks the values of naming flags among words, and the rename of *)
(* payload is these words with the values renamed.                         *)
RenamesBy(isValue, words, payload, prefix) ==
  /\ IsFlagWalk(isValue, words)
  /\ ApplyRenamePrefix(payload, prefix) = JoinWith(RenamedWords(words, isValue, prefix), Space)

(* ApplyRenamePrefix renames by such a walk.                               *)
LEMMA ApplyOverWords ==
  ASSUME NEW payload, NEW prefix, NEW W, Words(payload) \in Seq(W)
  PROVE  \E isValue : RenamesBy(isValue, Words(payload), payload, prefix)
<1> DEFINE words == Words(payload)
           c == CHOOSE isValue : IsFlagWalk(isValue, words)
<1>1. IsFlagWalk(c, words)
  BY FlagWalkExists
<1>2. ApplyRenamePrefix(payload, prefix) =
        JoinWith([i \in DOMAIN words |->
                    IF c[i] THEN RenamedValue(words[i - 1], words[i], prefix)
                    ELSE words[i]], Space)
  <2>1. Naming = {<<flag>> : flag \in NamingFlags}
    BY DEF Naming, NameFlags, DomainFlag, NamingFlags
  <2> QED
    BY <2>1 DEF ApplyRenamePrefix, IsFlagWalk
<1>3. RenamesBy(c, Words(payload), payload, prefix)
  BY <1>1, <1>2 DEF RenamesBy, RenamedWords
<1> QED
  BY <1>3

(* The values of naming flags among words of which these values were       *)
(* renamed are where they were.                                            *)
LEMMA SameFlagWalk ==
  ASSUME NEW W, NEW words \in Seq(W), NEW V, NEW renamed \in Seq(V), Len(renamed) = Len(words),
         NEW f, IsFlagWalk(f, words), NEW g, IsFlagWalk(g, renamed),
         \A i \in 1 .. Len(words) : ~f[i] => renamed[i] = words[i]
  PROVE  \A i \in 1 .. Len(words) : f[i] = g[i]
<1> DEFINE n == Len(words)
           T == {k \in Nat : k <= n => f[k] = g[k]}
<1>1. n \in Nat
  OBVIOUS
<1>2. \A i \in 0 .. n :
        /\ f[i] = (i > 1 /\ words[i - 1] \in Naming /\ ~f[i - 1])
        /\ g[i] = (i > 1 /\ renamed[i - 1] \in Naming /\ ~g[i - 1])
  BY DEF IsFlagWalk
<1>3. 0 \in T
  <2>1. 0 \in 0 .. n /\ ~(0 > 1)
    BY <1>1
  <2> HIDE DEF n
  <2>2. f[0] = FALSE /\ g[0] = FALSE
    BY <1>2, <2>1
  <2> QED
    BY <2>2
<1>4. ASSUME NEW k \in Nat, k \in T PROVE k + 1 \in T
  <2> SUFFICES ASSUME k + 1 <= n PROVE f[k + 1] = g[k + 1]
    OBVIOUS
  <2> HIDE DEF n
  <2>1. k + 1 \in 0 .. n /\ (k + 1) - 1 = k /\ f[k] = g[k] /\ k \in 0 .. n
    BY <1>1, <1>4
  <2>2. /\ f[k + 1] = (k + 1 > 1 /\ words[k] \in Naming /\ ~f[k])
        /\ g[k + 1] = (k + 1 > 1 /\ renamed[k] \in Naming /\ ~g[k])
    BY <1>2, <2>1
  <2>3. CASE k = 0
    <3>1. ~(k + 1 > 1)
      BY <2>3
    <3> QED
      BY <2>2, <3>1
  <2>4. CASE f[k]
    BY <2>1, <2>2, <2>4
  <2>5. CASE k # 0 /\ ~f[k]
    <3>1. k \in 1 .. Len(words)
      BY <1>1, <2>1, <2>5 DEF n
    <3>2. renamed[k] = words[k]
      BY <2>5, <3>1
    <3> QED
      BY <2>1, <2>2, <2>5, <3>2
  <2> QED
    BY <2>3, <2>4, <2>5
<1>5. Nat \subseteq T
  <2> HIDE DEF T
  <2> QED
    BY <1>3, <1>4, NumberInduction
<1>6. \A i \in 1 .. n : i \in T /\ i <= n
  BY <1>1, <1>5
<1> QED
  BY <1>6

(* Renamed words are words, and as many.                                   *)
LEMMA RenamedWordsType ==
  ASSUME NEW P, Comma \in P, NEW words \in Seq(Solid(P)), NEW isValue, NEW prefix \in P
  PROVE  /\ RenamedWords(words, isValue, prefix) \in Seq(Solid(P))
         /\ Len(RenamedWords(words, isValue, prefix)) = Len(words)
         /\ DOMAIN RenamedWords(words, isValue, prefix) = DOMAIN words
<1>1. Len(words) \in Nat /\ DOMAIN words = 1 .. Len(words)
      /\ \A i \in 1 .. Len(words) : words[i] \in Solid(P)
  OBVIOUS
<1>2. \A i \in 1 .. Len(words) : RenamedValue(words[i - 1], words[i], prefix) \in Solid(P)
  BY <1>1, RenamedValueType
<1>3. RenamedWords(words, isValue, prefix) \in [1 .. Len(words) -> Solid(P)]
  BY <1>1, <1>2 DEF RenamedWords
<1> QED
  BY <1>1, <1>3

(* A rename of a payload is the rename of its words, which can be read     *)
(* back from it.                                                           *)
LEMMA ApplyRenamesWords ==
  ASSUME NEW P, Space \in P, Comma \in P, ExPieces \subseteq P,
         NEW words \in Seq(Solid(Without(P, Space))), NEW payload, words = Words(payload),
         NEW prefix \in ExPieces
  PROVE  \E isValue :
           /\ RenamesBy(isValue, words, payload, prefix)
           /\ Words(ApplyRenamePrefix(payload, prefix)) = RenamedWords(words, isValue, prefix)
<1> DEFINE Q == Without(P, Space)
<1>1. PICK isValue : RenamesBy(isValue, words, payload, prefix)
  <2>1. Words(payload) \in Seq(Solid(Without(P, Space)))
    OBVIOUS
  <2>2. \E isValue : RenamesBy(isValue, Words(payload), payload, prefix)
    BY <2>1, ApplyOverWords
  <2> QED
    BY <2>2
<1>2. ApplyRenamePrefix(payload, prefix) = JoinWith(RenamedWords(words, isValue, prefix), Space)
  BY <1>1 DEF RenamesBy
<1>3. Comma \in Q /\ prefix \in Q
  BY ExPiecesSeparateNothing DEF Without, Space, Comma
<1>4. RenamedWords(words, isValue, prefix) \in Seq(Solid(Q))
  <2> HIDE DEF Q
  <2>1. words \in Seq(Solid(Q))
    BY DEF Q
  <2> QED
    BY <1>3, <2>1, RenamedWordsType
<1>5. Words(JoinWith(RenamedWords(words, isValue, prefix), Space))
        = RenamedWords(words, isValue, prefix)
  BY <1>4, JoinThenWords
<1> QED
  BY <1>1, <1>2, <1>5

(* "Prefixes never stack" (rename.rs): whatever is in a payload, its       *)
(* candidate under one prefix renamed to another is the candidate under    *)
(* the other, of which switching_prefixes_does_not_stack_them tests an     *)
(* instance. So a candidate is the same whether apply_rename_prefix is     *)
(* run on the original command or on one that was renamed before.          *)
THEOREM PrefixesNeverStack ==
  ASSUME NEW P, NEW payload \in Seq(P), NEW a \in ExPieces, NEW b \in ExPieces
  PROVE  ApplyRenamePrefix(ApplyRenamePrefix(payload, a), b) = ApplyRenamePrefix(payload, b)
<1> DEFINE all == P \cup ExPieces \cup {Space, Comma}
           Q == Without(all, Space)
           once == ApplyRenamePrefix(payload, a)
<1>1. Space \in all /\ Comma \in all /\ ExPieces \subseteq all /\ payload \in Seq(all)
  <2>1. P \subseteq all
    OBVIOUS
  <2>2. payload \in Seq(all)
    BY <2>1, SeqMonotonic
  <2> QED
    BY <2>2
<1>2. Comma \in Q /\ ExPieces \subseteq Q
  BY <1>1, ExPiecesSeparateNothing DEF Without, Space, Comma
<1> HIDE DEF all, Q, once
<1>3. PICK words \in Seq(Solid(Q)) : words = Words(payload)
  BY <1>1, WordsType DEF Q
<1>4. PICK f : /\ RenamesBy(f, words, payload, a)
               /\ Words(once) = RenamedWords(words, f, a)
  <2>1. words \in Seq(Solid(Without(all, Space)))
    BY DEF Q
  <2> QED
    BY <1>1, <1>3, <2>1, ApplyRenamesWords DEF once
<1>5. PICK h : RenamesBy(h, words, payload, b)
  <2>1. words \in Seq(Solid(Without(all, Space)))
    BY DEF Q
  <2> QED
    BY <1>1, <1>3, <2>1, ApplyRenamesWords
<1>6. PICK renamed \in Seq(Solid(Q)) :
        /\ renamed = Words(once) /\ renamed = RenamedWords(words, f, a)
        /\ Len(renamed) = Len(words) /\ DOMAIN renamed = DOMAIN words
  BY <1>2, <1>4, RenamedWordsType
<1>7. PICK g : RenamesBy(g, renamed, once, b)
  <2>1. renamed \in Seq(Solid(Without(all, Space))) /\ renamed = Words(once)
    BY <1>6 DEF Q
  <2>2. \E g : /\ RenamesBy(g, renamed, once, b)
               /\ Words(ApplyRenamePrefix(once, b)) = RenamedWords(renamed, g, b)
    BY <1>1, <2>1, ApplyRenamesWords
  <2> QED
    BY <2>2
<1>8. IsFlagWalk(f, words) /\ IsFlagWalk(h, words) /\ IsFlagWalk(g, renamed)
  BY <1>4, <1>5, <1>7 DEF RenamesBy
<1>9. Len(words) \in Nat /\ DOMAIN words = 1 .. Len(words)
      /\ \A i \in 1 .. Len(words) : words[i] \in Solid(Q)
  OBVIOUS
<1>10. \A i \in 1 .. Len(words) :
        renamed[i] = IF f[i] THEN RenamedValue(words[i - 1], words[i], a) ELSE words[i]
  BY <1>6, <1>9 DEF RenamedWords
<1>11. \A i \in 1 .. Len(words) : f[i] = g[i]
  <2>1. \A i \in 1 .. Len(words) : ~f[i] => renamed[i] = words[i]
    BY <1>10
  <2> QED
    BY <1>6, <1>8, <2>1, SameFlagWalk
<1>12. \A i \in 1 .. Len(words) : f[i] = h[i]
  <2>1. \A i \in 1 .. Len(words) : ~f[i] => words[i] = words[i]
    OBVIOUS
  <2> QED
    BY <1>8, <2>1, SameFlagWalk
<1>13. ASSUME NEW i \in 1 .. Len(words)
       PROVE  (IF g[i] THEN RenamedValue(renamed[i - 1], renamed[i], b) ELSE renamed[i])
                = (IF h[i] THEN RenamedValue(words[i - 1], words[i], b) ELSE words[i])
  <2>1. CASE ~f[i]
    BY <1>10, <1>11, <1>12, <2>1
  <2>2. CASE f[i]
    <3>1. i > 1 /\ ~f[i - 1]
      <4>1. \A k \in 0 .. Len(words) :
              f[k] = (k > 1 /\ words[k - 1] \in Naming /\ ~f[k - 1])
        BY <1>8 DEF IsFlagWalk
      <4>2. i \in 0 .. Len(words)
        BY <1>9
      <4>3. f[i] = (i > 1 /\ words[i - 1] \in Naming /\ ~f[i - 1])
        BY <4>1, <4>2
      <4> QED
        BY <2>2, <4>3
    <3>2. renamed[i - 1] = words[i - 1]
      <4>1. i - 1 \in 1 .. Len(words)
        BY <1>9, <3>1
      <4> QED
        BY <1>10, <3>1, <4>1
    <3>3. renamed[i] = RenamedValue(words[i - 1], words[i], a)
      BY <1>10, <2>2
    <3>4. RenamedValue(words[i - 1], renamed[i], b) = RenamedValue(words[i - 1], words[i], b)
      <4>1. PICK value \in Solid(Q) : value = words[i]
        BY <1>9
      <4> QED
        BY <1>2, <3>3, <4>1, RenamedValueAgain
    <3> QED
      BY <1>11, <1>12, <2>2, <3>2, <3>4
  <2> QED
    BY <2>1, <2>2
<1>14. RenamedWords(renamed, g, b) = RenamedWords(words, h, b)
  BY <1>6, <1>9, <1>13 DEF RenamedWords
<1> QED
  BY <1>5, <1>7, <1>14 DEF once, RenamesBy

(* A flag with its value.                                                  *)
Pairs(F, P) == F \X Seq(P)

Told(payload, argument) == payload \o <<Space, argument[1], Space>> \o argument[2]

Payload(type, arguments) ==
  FoldLeft(LAMBDA payload, argument :
             payload \o <<Space, argument[1], Space>> \o argument[2],
           <<type>>, arguments)

(* q gives the payload of each beginning of a list of arguments.           *)
TellsInSteps(q, type, arguments) ==
  /\ q[0] = <<type>>
  /\ \A k \in 1 .. Len(arguments) : q[k] = Told(q[k - 1], arguments[k])
  /\ Payload(type, arguments) = q[Len(arguments)]

LEMMA ToldType ==
  ASSUME NEW P, Space \in P, NEW payload \in Seq(P), NEW argument \in Pairs(P, P)
  PROVE  Told(payload, argument) \in Seq(P)
<1>1. argument[1] \in P /\ argument[2] \in Seq(P)
  BY DEF Pairs
<1>2. <<Space, argument[1], Space>> \in Seq(P)
  BY <1>1
<1> QED
  BY <1>1, <1>2 DEF Told

(* A payload is the end of a run through its arguments.                    *)
LEMMA PayloadRun ==
  ASSUME NEW P, Space \in P, NEW type \in P, NEW arguments \in Seq(Pairs(P, P))
  PROVE  \E q : TellsInSteps(q, type, arguments)
<1> DEFINE n == Len(arguments)
           S == Seq(P)
           step == [x \in (1 .. n) \X S |-> Told(x[2], arguments[x[1]])]
           Results(iter) ==
             iter = [s \in SUBSET DOMAIN arguments |->
                       IF s = {} THEN <<type>>
                       ELSE Told(iter[s \ {Max(s)}], arguments[Max(s)])]
           c == CHOOSE iter : Results(iter)
<1>1. n \in Nat /\ DOMAIN arguments = 1 .. n /\ \A i \in 1 .. n : arguments[i] \in Pairs(P, P)
  OBVIOUS
<1>2. step \in [(1 .. n) \X S -> S]
  <2>1. \A x \in (1 .. n) \X S : Told(x[2], arguments[x[1]]) \in S
    BY <1>1, ToldType
  <2> QED
    BY <2>1
<1>3. <<type>> \in S
  OBVIOUS
<1>4. \E iter : Results(iter)
  <2>1. PICK iter \in [SUBSET (1 .. n) -> S] : IsFold(iter, n, <<type>>, step)
    <3> HIDE DEF step, S, n
    <3> QED
      BY <1>1, <1>2, <1>3, FoldExists
  <2>2. ASSUME NEW s \in SUBSET (1 .. n), s # {}
        PROVE  step[<<Max(s), iter[s \ {Max(s)}]>>]
                 = Told(iter[s \ {Max(s)}], arguments[Max(s)])
    <3>1. Max(s) \in 1 .. n /\ s \ {Max(s)} \in SUBSET (1 .. n)
      <4> HIDE DEF n
      <4> QED
        BY <1>1, <2>2, MaxOfSome
    <3>2. iter[s \ {Max(s)}] \in S
      BY <2>1, <3>1
    <3> HIDE DEF S, n
    <3> QED
      BY <3>1, <3>2
  <2>3. Results(iter)
    <3> HIDE DEF S, n, step
    <3> QED
      BY <1>1, <2>1, <2>2 DEF IsFold
  <2> QED
    BY <2>3
<1>5. Results(c)
  <2> HIDE DEF Results
  <2> QED
    BY <1>4
<1>6. Payload(type, arguments) = c[DOMAIN arguments]
  BY Zenon DEF Payload, FoldLeft, MapThenFoldSet, Told
<1> DEFINE q == [k \in 0 .. n |-> c[1 .. k]]
<1> HIDE DEF c
<1>7. q[0] = <<type>>
  <2>1. 1 .. 0 = {} /\ {} \in SUBSET DOMAIN arguments /\ 0 \in 0 .. n
    BY <1>1
  <2>2. c[{}] = <<type>>
    BY <1>5, <2>1
  <2> HIDE DEF Results, n
  <2> QED
    BY <2>1, <2>2
<1>8. ASSUME NEW k \in 1 .. n PROVE q[k] = Told(q[k - 1], arguments[k])
  <2>1. /\ Max(1 .. k) = k /\ (1 .. k) \ {k} = 1 .. (k - 1)
        /\ 1 .. k \in SUBSET DOMAIN arguments /\ 1 .. k # {}
        /\ k \in 0 .. n /\ k - 1 \in 0 .. n
    <3> HIDE DEF n, Results
    <3>1. n \in Nat /\ DOMAIN arguments = 1 .. n
      BY <1>1
    <3>2. Max(1 .. k) = k /\ (1 .. k) \ {k} = 1 .. (k - 1) /\ 1 .. k \in SUBSET (1 .. n)
      BY <3>1, MaxOfInitial
    <3>3. k \in 1 .. k /\ k \in 0 .. n /\ k - 1 \in 0 .. n
      <4> HIDE DEF step
      <4> QED
        BY <3>1
    <3> QED
      BY <3>1, <3>2, <3>3, Zenon
  <2>2. c[1 .. k] = Told(c[(1 .. k) \ {Max(1 .. k)}], arguments[Max(1 .. k)])
    BY <1>5, <2>1
  <2> HIDE DEF Results, n
  <2> QED
    BY <2>1, <2>2
<1>9. Payload(type, arguments) = q[n]
  <2> HIDE DEF Results
  <2> QED
    BY <1>1, <1>6
<1> HIDE DEF q
<1>10. TellsInSteps(q, type, arguments)
  BY <1>7, <1>8, <1>9 DEF TellsInSteps
<1> QED
  BY <1>10

LEMMA PayloadNothing ==
  ASSUME NEW P, Space \in P, NEW type \in P
  PROVE  Payload(type, << >>) = <<type>>
<1>1. << >> \in Seq(Pairs(P, P)) /\ Len(<< >>) = 0
  OBVIOUS
<1>2. PICK q : TellsInSteps(q, type, << >>)
  BY <1>1, PayloadRun
<1> QED
  BY <1>1, <1>2 DEF TellsInSteps

(* One more argument is put behind the others.                             *)
LEMMA PayloadOneMore ==
  ASSUME NEW P, Space \in P, NEW type \in P, NEW arguments \in Seq(Pairs(P, P)),
         NEW argument \in Pairs(P, P)
  PROVE  Payload(type, Append(arguments, argument)) = Told(Payload(type, arguments), argument)
<1> DEFINE longer == Append(arguments, argument)
<1>1. /\ longer \in Seq(Pairs(P, P)) /\ Len(longer) = Len(arguments) + 1 /\ Len(arguments) \in Nat
      /\ longer[Len(arguments) + 1] = argument
      /\ \A k \in 1 .. Len(arguments) : longer[k] = arguments[k] /\ k \in 1 .. Len(longer)
      /\ Len(arguments) + 1 \in 1 .. Len(longer)
  OBVIOUS
<1> HIDE DEF longer
<1>2. PICK q : TellsInSteps(q, type, arguments)
  BY PayloadRun
<1>3. PICK r : TellsInSteps(r, type, longer)
  BY <1>1, PayloadRun
<1>4. SameSteps(q, r, Len(arguments))
  BY <1>1, <1>2, <1>3 DEF TellsInSteps, SameSteps
<1>5. q[Len(arguments)] = r[Len(arguments)]
  BY <1>1, <1>4, RunsAgree
<1>6. r[Len(longer)] = Told(r[Len(arguments)], argument)
  BY <1>1, <1>3 DEF TellsInSteps
<1> QED
  BY <1>2, <1>3, <1>5, <1>6 DEF longer, TellsInSteps

LEMMA PayloadType ==
  ASSUME NEW P, Space \in P, NEW type \in P, NEW arguments \in Seq(Pairs(P, P))
  PROVE  Payload(type, arguments) \in Seq(P)
<1> DEFINE T == {a \in Seq(Pairs(P, P)) : Payload(type, a) \in Seq(P)}
<1>1. << >> \in T
  <2>1. << >> \in Seq(Pairs(P, P)) /\ <<type>> \in Seq(P)
    OBVIOUS
  <2>2. Payload(type, << >>) = <<type>>
    BY PayloadNothing
  <2> QED
    BY <2>1, <2>2
<1>2. ASSUME NEW a \in Seq(Pairs(P, P)), NEW e \in Pairs(P, P), a \in T PROVE Append(a, e) \in T
  <2>1. Payload(type, a) \in Seq(P) /\ Append(a, e) \in Seq(Pairs(P, P))
    BY <1>2
  <2>2. Told(Payload(type, a), e) \in Seq(P)
    BY <2>1, ToldType
  <2>3. Payload(type, Append(a, e)) = Told(Payload(type, a), e)
    BY PayloadOneMore
  <2> QED
    BY <2>1, <2>2, <2>3
<1>3. Seq(Pairs(P, P)) \subseteq T
  <2>1. PICK S : S = Pairs(P, P)
    OBVIOUS
  <2> HIDE DEF T
  <2> QED
    BY <1>1, <1>2, <2>1, SequenceInduction
<1> QED
  BY <1>3

-----------------------------------------------------------------------------
(* The words of a payload *)

(* t is the type, and then flags and values in turn.                       *)
IsTokens(t, type, arguments) ==
  /\ Len(t) = 2 * Len(arguments) + 1
  /\ t[1] = <<type>>
  /\ \A i \in 1 .. Len(arguments) :
       t[2 * i] = <<arguments[i][1]>> /\ t[2 * i + 1] = arguments[i][2]

LEMMA ThreeMore ==
  ASSUME NEW S, NEW s \in Seq(S), NEW a \in S, NEW b \in S, NEW c \in S
  PROVE  s \o <<a, b, c>> = Append(Append(s, a) \o <<b>>, c)
OBVIOUS

(* The tokens of one argument more.                                        *)
LEMMA TokensOneMore ==
  ASSUME NEW A, NEW arguments \in Seq(A), NEW argument \in A, NEW type,
         NEW W, NEW t \in Seq(W), IsTokens(t, type, arguments),
         <<argument[1]>> \in W, argument[2] \in W
  PROVE  IsTokens(Append(Append(t, <<argument[1]>>), argument[2]), type,
                  Append(arguments, argument))
<1> DEFINE n == Len(arguments)
           longer == Append(arguments, argument)
           u == Append(t, <<argument[1]>>)
           v == Append(u, argument[2])
<1>1. /\ n \in Nat /\ Len(longer) = n + 1 /\ longer[n + 1] = argument
      /\ \A i \in 1 .. n : longer[i] = arguments[i]
  OBVIOUS
<1>2. Len(t) = 2 * n + 1
  BY DEF IsTokens
<1>3. /\ u \in Seq(W) /\ Len(u) = Len(t) + 1 /\ u[Len(t) + 1] = <<argument[1]>>
      /\ \A k \in 1 .. Len(t) : u[k] = t[k]
  OBVIOUS
<1> HIDE DEF u
<1>4. /\ Len(v) = Len(u) + 1 /\ v[Len(u) + 1] = argument[2]
      /\ \A k \in 1 .. Len(u) : v[k] = u[k]
  BY <1>3
<1> HIDE DEF v, longer, n
<1>5. /\ Len(v) = 2 * (n + 1) + 1
      /\ v[2 * (n + 1)] = <<argument[1]>> /\ v[2 * (n + 1) + 1] = argument[2]
      /\ \A k \in 1 .. 2 * n + 1 : v[k] = t[k]
  <2>1. 2 * n + 1 \in Nat /\ 2 * (n + 1) = (2 * n + 1) + 1
    BY <1>1
  <2>2. PICK m \in Nat : m = 2 * n + 1
    BY <2>1
  <2>3. Len(t) = m /\ Len(u) = m + 1 /\ Len(v) = m + 2
    BY <1>2, <1>3, <1>4, <2>2
  <2>4. v[m + 1] = <<argument[1]>> /\ v[m + 2] = argument[2]
    <3>1. m + 1 \in 1 .. Len(u) /\ (m + 1) + 1 = m + 2
      BY <2>3
    <3> QED
      BY <1>3, <1>4, <2>3, <3>1
  <2>5. \A k \in 1 .. m : v[k] = t[k]
    <3>1. \A k \in 1 .. m : k \in 1 .. Len(u) /\ k \in 1 .. Len(t)
      BY <2>3
    <3> QED
      BY <1>3, <1>4, <3>1
  <2>6. 2 * (n + 1) = m + 1 /\ 2 * (n + 1) + 1 = m + 2
    BY <1>1, <2>2
  <2> QED
    BY <2>2, <2>3, <2>4, <2>5, <2>6
<1>6. v[1] = <<type>>
  <2>1. 1 \in 1 .. 2 * n + 1
    BY <1>1
  <2> QED
    BY <1>5, <2>1 DEF IsTokens
<1>7. ASSUME NEW i \in 1 .. Len(longer)
      PROVE  v[2 * i] = <<longer[i][1]>> /\ v[2 * i + 1] = longer[i][2]
  <2>1. i = n + 1 \/ i \in 1 .. n
    BY <1>1
  <2>2. CASE i = n + 1
    BY <1>1, <1>5, <2>2
  <2>3. CASE i \in 1 .. n
    <3>1. 2 * i \in 1 .. 2 * n + 1 /\ 2 * i + 1 \in 1 .. 2 * n + 1
      BY <1>1, <2>3
    <3>2. t[2 * i] = <<arguments[i][1]>> /\ t[2 * i + 1] = arguments[i][2]
      BY <2>3 DEF IsTokens, n
    <3> QED
      BY <1>1, <1>5, <2>3, <3>1, <3>2
  <2> QED
    BY <2>1, <2>2, <2>3
<1>8. IsTokens(v, type, longer)
  BY <1>1, <1>5, <1>6, <1>7 DEF IsTokens
<1> QED
  BY <1>8 DEF v, u, longer

(* The pieces of Q are among those of P.                                   *)
LEMMA SolidIsText ==
  ASSUME NEW P, NEW Q, Q \subseteq P
  PROVE  /\ Solid(Q) \subseteq Seq(P) /\ Seq(Q) \subseteq Seq(P)
         /\ Seq(Solid(Q)) \subseteq Texts(P) /\ Seq(Solid(Q)) \subseteq Texts(Q)
         /\ Seq(Q \X Solid(Q)) \subseteq Seq(Pairs(P, P))
<1>1. Seq(Q) \subseteq Seq(P)
  BY SeqMonotonic
<1>2. Solid(Q) \subseteq Seq(P) /\ Solid(Q) \subseteq Seq(Q)
  BY <1>1 DEF Solid
<1>3. Seq(Solid(Q)) \subseteq Texts(P) /\ Seq(Solid(Q)) \subseteq Texts(Q)
  BY <1>2, SeqMonotonic DEF Texts
<1>4. Q \X Solid(Q) \subseteq Pairs(P, P)
  BY <1>2 DEF Pairs
<1>5. Seq(Q \X Solid(Q)) \subseteq Seq(Pairs(P, P))
  BY <1>4, SeqMonotonic
<1> QED
  BY <1>1, <1>2, <1>3, <1>5

(* The payload with one more argument, as its tokens are joined.           *)
LEMMA JoinTold ==
  ASSUME NEW P, Space \in P, NEW t \in Texts(P), t # << >>, NEW flag \in P,
         NEW value \in Seq(P)
  PROVE  JoinWith(Append(Append(t, <<flag>>), value), Space)
           = Told(JoinWith(t, Space), <<flag, value>>)
<1>1. <<flag>> \in Seq(P)
  OBVIOUS
<1>2. PICK u \in Texts(P) : u = Append(t, <<flag>>)
  BY <1>1, OneMore
<1>3. u # << >>
  <2>1. Len(u) = Len(t) + 1 /\ Len(t) \in Nat
    BY <1>1, <1>2, OneMore
  <2> QED
    BY <2>1
<1>4. JoinWith(u, Space) = Append(JoinWith(t, Space), Space) \o <<flag>>
  BY <1>1, <1>2, JoinOneMore
<1>5. JoinWith(Append(u, value), Space) = Append(JoinWith(u, Space), Space) \o value
  BY <1>3, JoinOneMore
<1>6. PICK joined \in Seq(P) : joined = JoinWith(t, Space)
  BY JoinType
<1>7. joined \o <<Space, flag, Space>> = Append(Append(joined, Space) \o <<flag>>, Space)
  BY ThreeMore
<1> QED
  BY <1>2, <1>4, <1>5, <1>6, <1>7 DEF Told

(* A payload is its tokens, joined by blanks.                              *)
LEMMA PayloadTokens ==
  ASSUME NEW P, Space \in P, NEW Q, Q \subseteq P, NEW type \in Q,
         NEW arguments \in Seq(Q \X Solid(Q))
  PROVE  \E t \in Seq(Solid(Q)) :
           IsTokens(t, type, arguments) /\ Payload(type, arguments) = JoinWith(t, Space)
<1> DEFINE A == Q \X Solid(Q)
           Holds(a) == \E t \in Seq(Solid(Q)) :
                         IsTokens(t, type, a) /\ Payload(type, a) = JoinWith(t, Space)
           T == {a \in Seq(A) : Holds(a)}
<1>1. type \in P /\ \A a \in Seq(A) : a \in Seq(Pairs(P, P))
  BY SolidIsText
<1>2. << >> \in T
  <2>1. <<type>> \in Solid(Q) /\ << >> \in Texts(Q)
    BY DEF Solid, Texts
  <2>2. JoinWith(Append(<< >>, <<type>>), Space) = <<type>>
    BY <2>1, JoinOneMore DEF Solid
  <2>3. PICK t \in Seq(Solid(Q)) : t = Append(<< >>, <<type>>)
    <3>1. PICK W : W = Solid(Q)
      OBVIOUS
    <3>2. PICK word \in W : word = <<type>>
      BY <2>1, <3>1
    <3>3. Append(<< >>, word) \in Seq(W)
      OBVIOUS
    <3> QED
      BY <3>1, <3>2, <3>3
  <2>4. Len(t) = 1 /\ t[1] = <<type>>
    BY <2>3
  <2>5. Payload(type, << >>) = <<type>>
    BY <1>1, PayloadNothing
  <2>6. IsTokens(t, type, << >>)
    BY <2>4 DEF IsTokens
  <2>7. << >> \in Seq(A)
    <3> HIDE DEF A
    <3> QED
      OBVIOUS
  <2> HIDE DEF A
  <2> QED
    BY <2>2, <2>3, <2>5, <2>6, <2>7, Zenon
<1>3. ASSUME NEW a \in Seq(A), NEW e \in A, a \in T PROVE Append(a, e) \in T
  <2>1. PICK t \in Seq(Solid(Q)) :
          IsTokens(t, type, a) /\ Payload(type, a) = JoinWith(t, Space)
    BY <1>3
  <2>2. PICK flag \in Q, value \in Solid(Q) : e = <<flag, value>>
    OBVIOUS
  <2>3. e \in Pairs(P, P) /\ flag \in P /\ <<flag>> \in Solid(Q)
    BY <2>2, SolidIsText DEF Solid, Pairs
  <2>4. PICK W : W = Solid(Q)
    OBVIOUS
  <2>5. PICK v \in Seq(Solid(Q)) : v = Append(Append(t, <<flag>>), value)
    <3> HIDE DEF T, A
    <3>1. PICK word \in W : word = <<flag>>
      BY <2>3, <2>4
    <3>2. Append(Append(t, word), value) \in Seq(W)
      BY <2>4
    <3> QED
      BY <2>4, <3>1, <3>2
  <2>6. IsTokens(v, type, Append(a, e))
    <3> HIDE DEF T, A
    <3>1. e[1] = flag /\ e[2] = value
      BY <2>2
    <3> QED
      BY <2>1, <2>3, <2>5, <3>1, TokensOneMore
  <2>7. t # << >>
    <3> HIDE DEF T, A
    <3>1. Len(t) = 2 * Len(a) + 1 /\ Len(a) \in Nat
      BY <2>1 DEF IsTokens
    <3> QED
      BY <3>1
  <2>8. JoinWith(v, Space) = Told(JoinWith(t, Space), e)
    <3>1. t \in Texts(P) /\ value \in Seq(P)
      BY SolidIsText
    <3> HIDE DEF T, A
    <3> QED
      BY <2>2, <2>3, <2>5, <2>7, <3>1, JoinTold
  <2>9. Payload(type, Append(a, e)) = Told(JoinWith(t, Space), e)
    <3>1. a \in Seq(Pairs(P, P))
      BY <1>1
    <3> HIDE DEF T, A
    <3> QED
      BY <1>1, <2>1, <2>3, <3>1, PayloadOneMore
  <2>10. Append(a, e) \in Seq(A)
    <3> HIDE DEF T, A
    <3> QED
      OBVIOUS
  <2> QED
    BY <2>6, <2>8, <2>9, <2>10
<1>4. Seq(A) \subseteq T
  <2> HIDE DEF T, A
  <2> QED
    BY <1>2, <1>3, SequenceInduction
<1> QED
  BY <1>4

(* t are the words of the payload.                                         *)
ReadsAs(payload, t) ==
  payload = JoinWith(t, Space) /\ Split(payload, Space) = t /\ Words(payload) = t

(* If no piece is a blank, the tokens are read back from the payload.      *)
LEMMA PayloadWords ==
  ASSUME NEW P, Space \in P, NEW Q, Q = Without(P, Space), NEW type \in Q,
         NEW arguments \in Seq(Q \X Solid(Q))
  PROVE  \E t \in Seq(Solid(Q)) :
           IsTokens(t, type, arguments) /\ ReadsAs(Payload(type, arguments), t)
<1>1. Q \subseteq P
  BY WithoutIsSubset
<1>2. PICK t \in Seq(Solid(Q)) :
        IsTokens(t, type, arguments) /\ Payload(type, arguments) = JoinWith(t, Space)
  BY <1>1, PayloadTokens
<1>3. t # << >>
  <2>1. Len(t) = 2 * Len(arguments) + 1 /\ Len(arguments) \in Nat
    BY <1>2 DEF IsTokens
  <2> QED
    BY <2>1
<1>4. t \in Texts(Without(P, Space)) /\ t \in Seq(Solid(Without(P, Space)))
  BY <1>1, SolidIsText
<1>5. Split(JoinWith(t, Space), Space) = t
  BY <1>3, <1>4, JoinThenSplit
<1>6. Words(JoinWith(t, Space)) = t
  BY <1>4, JoinThenWords
<1> QED
  BY <1>2, <1>5, <1>6 DEF ReadsAs

-----------------------------------------------------------------------------
(* What frps reads in a payload *)

LEMMA Halves == ASSUME NEW n \in Nat PROVE (2 * n + 1 - 1) \div 2 = n
<1>1. 2 * n + 1 - 1 = 2 * n
  OBVIOUS
<1>2. (2 * n) \div 2 = n
  OBVIOUS
<1> QED
  BY <1>1, <1>2

(* If no piece is a blank, frps reads the flags and values that were told. *)
LEMMA FrpsReadsArguments ==
  ASSUME NEW P, Space \in P, NEW Q, Q = Without(P, Space), NEW type \in Q,
         NEW arguments \in Seq(Q \X Solid(Q))
  PROVE  FrpsReads(Payload(type, arguments)) =
           [type |-> <<type>>,
            flags |-> [i \in 1 .. Len(arguments) |->
                         <<<<arguments[i][1]>>, arguments[i][2]>>]]
<1> DEFINE n == Len(arguments)
           payload == Payload(type, arguments)
<1>1. PICK t \in Seq(Solid(Q)) : IsTokens(t, type, arguments) /\ Split(payload, Space) = t
  BY PayloadWords DEF ReadsAs
<1>2. n \in Nat
  OBVIOUS
<1>3. Len(t) = 2 * n + 1 /\ t[1] = <<type>>
  BY <1>1 DEF IsTokens
<1> HIDE DEF n, payload
<1>4. (Len(t) - 1) \div 2 = n
  BY <1>2, <1>3, Halves
<1>5. \A i \in 1 .. n : <<t[2 * i], t[2 * i + 1]>> = <<<<arguments[i][1]>>, arguments[i][2]>>
  BY <1>1 DEF IsTokens, n
<1>6. [i \in 1 .. n |-> <<t[2 * i], t[2 * i + 1]>>]
        = [i \in 1 .. n |-> <<<<arguments[i][1]>>, arguments[i][2]>>]
  BY <1>5
<1>7. FrpsReads(payload) = [type |-> t[1], flags |-> [i \in 1 .. n |-> <<t[2 * i], t[2 * i + 1]>>]]
  BY <1>1, <1>4 DEF FrpsReads
<1> QED
  BY <1>3, <1>6, <1>7 DEF n, payload

-----------------------------------------------------------------------------
(* The flags of a payload, each with its value *)

(* All the parts of a payload, one behind the other.                       *)
Together(parts) ==
  parts[1] \o parts[2] \o parts[3] \o parts[4] \o parts[5] \o parts[6] \o parts[7]
  \o parts[8] \o parts[9] \o parts[10] \o parts[11] \o parts[12] \o parts[13] \o parts[14]

(* The flags in the order of gen_extra.                                    *)
Flags ==
  <<"--proxy-name", "--remote-port", "--custom-domain", "--locations", "--sd",
    "--http-user", "--http-pwd", "--host-header-rewrite", "--sk", "--allow-users",
    "--mux", "--metadatas", "--user", "--token">>

FlagNames == {Flags[i] : i \in 1 .. 14}

Pushed(value) == [i \in 1 .. 14 |-> Push(Flags[i], value[Flags[i]])]

(* The flags that have a value.                                            *)
Given(value) == Together(Pushed(value))

(* What holds of all parts and their counterparts, and of what it holds    *)
(* put together, holds of all of them together.                            *)
LEMMA TogetherPairs ==
  ASSUME NEW T, \A s, t, x, y : <<s, x>> \in T /\ <<t, y>> \in T => <<s \o t, x \o y>> \in T,
         NEW a, NEW b, \A i \in 1 .. 14 : <<a[i], b[i]>> \in T
  PROVE  <<Together(a), Together(b)>> \in T
<1>1. /\ <<a[1], b[1]>> \in T /\ <<a[2], b[2]>> \in T /\ <<a[3], b[3]>> \in T
      /\ <<a[4], b[4]>> \in T /\ <<a[5], b[5]>> \in T /\ <<a[6], b[6]>> \in T
      /\ <<a[7], b[7]>> \in T /\ <<a[8], b[8]>> \in T /\ <<a[9], b[9]>> \in T
      /\ <<a[10], b[10]>> \in T /\ <<a[11], b[11]>> \in T /\ <<a[12], b[12]>> \in T
      /\ <<a[13], b[13]>> \in T /\ <<a[14], b[14]>> \in T
  OBVIOUS
<1> DEFINE c2 == a[1] \o a[2]
           d2 == b[1] \o b[2]
           c3 == c2 \o a[3]
           d3 == d2 \o b[3]
           c4 == c3 \o a[4]
           d4 == d3 \o b[4]
           c5 == c4 \o a[5]
           d5 == d4 \o b[5]
           c6 == c5 \o a[6]
           d6 == d5 \o b[6]
           c7 == c6 \o a[7]
           d7 == d6 \o b[7]
           c8 == c7 \o a[8]
           d8 == d7 \o b[8]
           c9 == c8 \o a[9]
           d9 == d8 \o b[9]
           c10 == c9 \o a[10]
           d10 == d9 \o b[10]
           c11 == c10 \o a[11]
           d11 == d10 \o b[11]
           c12 == c11 \o a[12]
           d12 == d11 \o b[12]
           c13 == c12 \o a[13]
           d13 == d12 \o b[13]
           c14 == c13 \o a[14]
           d14 == d13 \o b[14]
<1>2. <<c2, d2>> \in T
  BY <1>1, Zenon
<1> HIDE DEF c2, d2
<1>3. <<c3, d3>> \in T
  BY <1>1, <1>2, Zenon
<1> HIDE DEF c3, d3
<1>4. <<c4, d4>> \in T
  BY <1>1, <1>3, Zenon
<1> HIDE DEF c4, d4
<1>5. <<c5, d5>> \in T
  BY <1>1, <1>4, Zenon
<1> HIDE DEF c5, d5
<1>6. <<c6, d6>> \in T
  BY <1>1, <1>5, Zenon
<1> HIDE DEF c6, d6
<1>7. <<c7, d7>> \in T
  BY <1>1, <1>6, Zenon
<1> HIDE DEF c7, d7
<1>8. <<c8, d8>> \in T
  BY <1>1, <1>7, Zenon
<1> HIDE DEF c8, d8
<1>9. <<c9, d9>> \in T
  BY <1>1, <1>8, Zenon
<1> HIDE DEF c9, d9
<1>10. <<c10, d10>> \in T
  BY <1>1, <1>9, Zenon
<1> HIDE DEF c10, d10
<1>11. <<c11, d11>> \in T
  BY <1>1, <1>10, Zenon
<1> HIDE DEF c11, d11
<1>12. <<c12, d12>> \in T
  BY <1>1, <1>11, Zenon
<1> HIDE DEF c12, d12
<1>13. <<c13, d13>> \in T
  BY <1>1, <1>12, Zenon
<1> HIDE DEF c13, d13
<1>14. <<c14, d14>> \in T
  BY <1>1, <1>13, Zenon
<1> HIDE DEF c14, d14
<1>15. Together(a) = c14
  BY Zenon DEF Together, c2, c3, c4, c5, c6, c7, c8, c9, c10, c11, c12, c13, c14
<1>16. Together(b) = d14
  BY Zenon DEF Together, d2, d3, d4, d5, d6, d7, d8, d9, d10, d11, d12, d13, d14
<1> QED
  BY <1>14, <1>15, <1>16, Zenon

(* The members of the parts are those of all of them together.             *)
LEMMA TogetherMembers ==
  ASSUME NEW S, NEW a, \A i \in 1 .. 14 : a[i] \in Seq(S)
  PROVE  /\ Together(a) \in Seq(S)
         /\ \A i \in 1 .. 14 : Range(a[i]) \subseteq Range(Together(a))
<1>1. ASSUME NEW s \in Seq(S), NEW i \in 1 .. 14
      PROVE  s \o a[i] \in Seq(S) /\ Range(s \o a[i]) = Range(s) \cup Range(a[i])
  <2>1. PICK t \in Seq(S) : t = a[i]
    OBVIOUS
  <2> QED
    BY <2>1, ConcatProperties, RangeConcatenation
<1>0. /\ 1 \in 1 .. 14 /\ 2 \in 1 .. 14 /\ 3 \in 1 .. 14 /\ 4 \in 1 .. 14 /\ 5 \in 1 .. 14
      /\ 6 \in 1 .. 14 /\ 7 \in 1 .. 14 /\ 8 \in 1 .. 14 /\ 9 \in 1 .. 14 /\ 10 \in 1 .. 14
      /\ 11 \in 1 .. 14 /\ 12 \in 1 .. 14 /\ 13 \in 1 .. 14 /\ 14 \in 1 .. 14
  OBVIOUS
<1> DEFINE c2 == a[1] \o a[2]
           c3 == c2 \o a[3]
           c4 == c3 \o a[4]
           c5 == c4 \o a[5]
           c6 == c5 \o a[6]
           c7 == c6 \o a[7]
           c8 == c7 \o a[8]
           c9 == c8 \o a[9]
           c10 == c9 \o a[10]
           c11 == c10 \o a[11]
           c12 == c11 \o a[12]
           c13 == c12 \o a[13]
           c14 == c13 \o a[14]
<1>2. c2 \in Seq(S) /\ Range(c2) = Range(a[1]) \cup Range(a[2])
  BY <1>0, <1>1, Zenon
<1> HIDE DEF c2
<1>3. c3 \in Seq(S) /\ Range(c3) = Range(c2) \cup Range(a[3])
  BY <1>0, <1>1, <1>2, Zenon
<1> HIDE DEF c3
<1>4. c4 \in Seq(S) /\ Range(c4) = Range(c3) \cup Range(a[4])
  BY <1>0, <1>1, <1>3, Zenon
<1> HIDE DEF c4
<1>5. c5 \in Seq(S) /\ Range(c5) = Range(c4) \cup Range(a[5])
  BY <1>0, <1>1, <1>4, Zenon
<1> HIDE DEF c5
<1>6. c6 \in Seq(S) /\ Range(c6) = Range(c5) \cup Range(a[6])
  BY <1>0, <1>1, <1>5, Zenon
<1> HIDE DEF c6
<1>7. c7 \in Seq(S) /\ Range(c7) = Range(c6) \cup Range(a[7])
  BY <1>0, <1>1, <1>6, Zenon
<1> HIDE DEF c7
<1>8. c8 \in Seq(S) /\ Range(c8) = Range(c7) \cup Range(a[8])
  BY <1>0, <1>1, <1>7, Zenon
<1> HIDE DEF c8
<1>9. c9 \in Seq(S) /\ Range(c9) = Range(c8) \cup Range(a[9])
  BY <1>0, <1>1, <1>8, Zenon
<1> HIDE DEF c9
<1>10. c10 \in Seq(S) /\ Range(c10) = Range(c9) \cup Range(a[10])
  BY <1>0, <1>1, <1>9, Zenon
<1> HIDE DEF c10
<1>11. c11 \in Seq(S) /\ Range(c11) = Range(c10) \cup Range(a[11])
  BY <1>0, <1>1, <1>10, Zenon
<1> HIDE DEF c11
<1>12. c12 \in Seq(S) /\ Range(c12) = Range(c11) \cup Range(a[12])
  BY <1>0, <1>1, <1>11, Zenon
<1> HIDE DEF c12
<1>13. c13 \in Seq(S) /\ Range(c13) = Range(c12) \cup Range(a[13])
  BY <1>0, <1>1, <1>12, Zenon
<1> HIDE DEF c13
<1>14. c14 \in Seq(S) /\ Range(c14) = Range(c13) \cup Range(a[14])
  BY <1>0, <1>1, <1>13, Zenon
<1> HIDE DEF c14
<1>15. Together(a) = c14
  BY Zenon DEF Together, c2, c3, c4, c5, c6, c7, c8, c9, c10, c11, c12, c13, c14
<1>16. /\ Range(a[1]) \subseteq Range(c14)
       /\ Range(a[2]) \subseteq Range(c14)
       /\ Range(a[3]) \subseteq Range(c14)
       /\ Range(a[4]) \subseteq Range(c14)
       /\ Range(a[5]) \subseteq Range(c14)
       /\ Range(a[6]) \subseteq Range(c14)
       /\ Range(a[7]) \subseteq Range(c14)
       /\ Range(a[8]) \subseteq Range(c14)
       /\ Range(a[9]) \subseteq Range(c14)
       /\ Range(a[10]) \subseteq Range(c14)
       /\ Range(a[11]) \subseteq Range(c14)
       /\ Range(a[12]) \subseteq Range(c14)
       /\ Range(a[13]) \subseteq Range(c14)
       /\ Range(a[14]) \subseteq Range(c14)
  BY <1>2, <1>3, <1>4, <1>5, <1>6, <1>7, <1>8, <1>9, <1>10, <1>11, <1>12, <1>13, <1>14, Zenon
<1>17. \A i \in 1 .. 14 : Range(a[i]) \subseteq Range(c14)
  <2>1. ASSUME NEW i \in 1 .. 14
        PROVE  i = 1 \/ i = 2 \/ i = 3 \/ i = 4 \/ i = 5 \/ i = 6 \/ i = 7 \/ i = 8
               \/ i = 9 \/ i = 10 \/ i = 11 \/ i = 12 \/ i = 13 \/ i = 14
    OBVIOUS
  <2> QED
    BY <1>16, <2>1, Zenon
<1> QED
  BY <1>14, <1>15, <1>17, Zenon

(* The values of the flags of a payload, and what is told of them.         *)
Valued(value, Q) == {x \in Q \X Solid(Q) : x[1] \in FlagNames /\ x[2] = value[x[1]]}

LEMMA PushType ==
  ASSUME NEW Q, FlagNames \subseteq Q, NEW value \in [FlagNames -> Seq(Q)],
         NEW flag \in FlagNames
  PROVE  /\ Push(flag, value[flag]) \in Seq(Valued(value, Q))
         /\ value[flag] # NoText => <<flag, value[flag]>> \in Range(Push(flag, value[flag]))
<1>1. CASE value[flag] = NoText
  BY <1>1 DEF Push
<1>2. CASE value[flag] # NoText
  <2>1. value[flag] \in Solid(Q)
    BY <1>2 DEF Solid, NoText
  <2>2. <<flag, value[flag]>> \in Valued(value, Q)
    BY <2>1 DEF Valued
  <2>3. Push(flag, value[flag]) = << <<flag, value[flag]>> >>
    BY <1>2 DEF Push
  <2>4. PICK argument \in Valued(value, Q) : argument = <<flag, value[flag]>>
    BY <2>2
  <2>5. <<argument>> \in Seq(Valued(value, Q)) /\ argument \in Range(<<argument>>)
    BY DEF Range
  <2> QED
    BY <2>3, <2>4, <2>5
<1> QED
  BY <1>1, <1>2

(* Exactly the flags with a value are given, with that value.              *)
LEMMA GivenType ==
  ASSUME NEW Q, FlagNames \subseteq Q, NEW value \in [FlagNames -> Seq(Q)]
  PROVE  /\ Given(value) \in Seq(Valued(value, Q))
         /\ \A flag \in FlagNames :
              value[flag] # NoText => <<flag, value[flag]>> \in Range(Given(value))
<1> DEFINE S == Valued(value, Q)
<1>1. ASSUME NEW i \in 1 .. 14
      PROVE  /\ Pushed(value)[i] \in Seq(S)
             /\ value[Flags[i]] # NoText =>
                  <<Flags[i], value[Flags[i]]>> \in Range(Pushed(value)[i])
  <2>1. PICK flag \in FlagNames : flag = Flags[i]
    BY DEF FlagNames
  <2>2. Pushed(value)[i] = Push(flag, value[flag])
    BY <2>1 DEF Pushed
  <2> QED
    BY <2>1, <2>2, PushType
<1> HIDE DEF S
<1>2. /\ Given(value) \in Seq(S)
      /\ \A i \in 1 .. 14 : Range(Pushed(value)[i]) \subseteq Range(Given(value))
  <2>1. PICK parts : parts = Pushed(value)
    OBVIOUS
  <2>2. \A i \in 1 .. 14 : parts[i] \in Seq(S)
    BY <1>1, <2>1
  <2> QED
    BY <2>1, <2>2, TogetherMembers DEF Given
<1>3. ASSUME NEW flag \in FlagNames, value[flag] # NoText
      PROVE  <<flag, value[flag]>> \in Range(Given(value))
  <2>1. PICK i \in 1 .. 14 : flag = Flags[i]
    BY DEF FlagNames
  <2> QED
    BY <1>1, <1>2, <1>3, <2>1
<1> QED
  BY <1>2, <1>3 DEF S

(* x are the arguments s, with other values.                               *)
SameFlags(s, x, other) ==
  Len(x) = Len(s) /\ \A i \in 1 .. Len(s) : x[i] = <<s[i][1], other[s[i][1]]>>

(* With other values of the same flags, the same flags are given.          *)
LEMMA GivenMapped ==
  ASSUME NEW Q, FlagNames \subseteq Q, NEW value \in [FlagNames -> Seq(Q)],
         NEW other \in [FlagNames -> Seq(Q)],
         \A flag \in FlagNames : (value[flag] = NoText) <=> (other[flag] = NoText)
  PROVE  SameFlags(Given(value), Given(other), other)
<1> DEFINE S == Valued(value, Q)
           R == Valued(other, Q)
           Same(s, x) == /\ Len(x) = Len(s)
                         /\ \A i \in 1 .. Len(s) : x[i] = <<s[i][1], other[s[i][1]]>>
           T == {y \in Seq(S) \X Seq(R) : Same(y[1], y[2])}
<1>1. \A s, t, x, y : <<s, x>> \in T /\ <<t, y>> \in T => <<s \o t, x \o y>> \in T
  <2> SUFFICES ASSUME NEW s \in Seq(S), NEW t \in Seq(S), NEW x \in Seq(R), NEW y \in Seq(R),
                      Same(s, x), Same(t, y)
               PROVE  s \o t \in Seq(S) /\ x \o y \in Seq(R) /\ Same(s \o t, x \o y)
    <3> HIDE DEF S, R, Same
    <3> QED
      OBVIOUS
  <2> HIDE DEF S, R
  <2>1. s \o t \in Seq(S) /\ x \o y \in Seq(R) /\ Len(x \o y) = Len(s \o t)
    <3>1. Len(x) = Len(s) /\ Len(y) = Len(t)
      BY Zenon
    <3> HIDE DEF Same
    <3>2. s \o t \in Seq(S) /\ x \o y \in Seq(R)
      OBVIOUS
    <3>3. Len(x \o y) = Len(x) + Len(y) /\ Len(s \o t) = Len(s) + Len(t)
      BY ConcatProperties
    <3> QED
      BY <3>1, <3>2, <3>3
  <2>2. ASSUME NEW i \in 1 .. Len(s \o t)
        PROVE  (x \o y)[i] = <<(s \o t)[i][1], other[(s \o t)[i][1]]>>
    <3>1. /\ Len(s) \in Nat /\ Len(t) \in Nat /\ Len(s \o t) = Len(s) + Len(t)
          /\ Len(x) = Len(s) /\ Len(y) = Len(t)
      OBVIOUS
    <3>2. CASE i \in 1 .. Len(s)
      <4>1. (s \o t)[i] = s[i] /\ (x \o y)[i] = x[i]
        BY <3>1, <3>2
      <4> QED
        BY <3>2, <4>1
    <3>3. CASE i \notin 1 .. Len(s)
      <4>1. i - Len(s) \in 1 .. Len(t)
        BY <3>1, <3>3
      <4>2. (s \o t)[i] = t[i - Len(s)] /\ (x \o y)[i] = y[i - Len(s)]
        BY <3>1, <3>3
      <4> QED
        BY <4>1, <4>2
    <3> QED
      BY <3>2, <3>3
  <2> QED
    BY <2>1, <2>2
<1>2. ASSUME NEW i \in 1 .. 14 PROVE <<Pushed(value)[i], Pushed(other)[i]>> \in T
  <2>1. PICK flag \in FlagNames : flag = Flags[i]
    BY DEF FlagNames
  <2>2. PICK s \in Seq(S), x \in Seq(R) : s = Push(flag, value[flag]) /\ x = Push(flag, other[flag])
    BY PushType
  <2>3. Same(s, x)
    <3>1. CASE value[flag] = NoText
      <4>1. s = << >> /\ x = << >>
        BY <2>2, <3>1 DEF Push
      <4> QED
        BY <4>1
    <3>2. CASE value[flag] # NoText
      <4>1. s = << <<flag, value[flag]>> >> /\ x = << <<flag, other[flag]>> >>
        BY <2>2, <3>2 DEF Push
      <4> QED
        BY <4>1
    <3> QED
      BY <3>1, <3>2
  <2>4. <<s, x>> \in T
    BY <2>3, Zenon
  <2>5. Pushed(value)[i] = s /\ Pushed(other)[i] = x
    BY <2>1, <2>2 DEF Pushed
  <2> HIDE DEF T
  <2> QED
    BY <2>4, <2>5
<1>3. <<Given(value), Given(other)>> \in T
  <2> HIDE DEF T
  <2>1. PICK a, b : a = Pushed(value) /\ b = Pushed(other)
    OBVIOUS
  <2>2. \A i \in 1 .. 14 : <<a[i], b[i]>> \in T
    BY <1>2, <2>1
  <2> QED
    BY <1>1, <2>1, <2>2, TogetherPairs DEF Given
<1> QED
  BY <1>3 DEF SameFlags

(* Sequences of the same tokens are equal.                                 *)
LEMMA TokensAreUnique ==
  ASSUME NEW W, NEW t \in Seq(W), NEW u \in Seq(W), NEW type, NEW A, NEW arguments \in Seq(A),
         IsTokens(t, type, arguments), IsTokens(u, type, arguments)
  PROVE  t = u
<1> DEFINE n == Len(arguments)
<1>1. n \in Nat
  OBVIOUS
<1> HIDE DEF n
<1>2. /\ Len(t) = 2 * n + 1 /\ Len(u) = 2 * n + 1 /\ t[1] = u[1]
      /\ \A i \in 1 .. n : t[2 * i] = u[2 * i] /\ t[2 * i + 1] = u[2 * i + 1]
  BY DEF IsTokens, n
<1>3. ASSUME NEW k \in 1 .. 2 * n + 1 PROVE t[k] = u[k]
  <2>1. k = 1 \/ (\E i \in 1 .. n : k = 2 * i) \/ (\E i \in 1 .. n : k = 2 * i + 1)
    <3>1. k \in Nat /\ 1 <= k /\ k <= 2 * n + 1
      BY <1>1
    <3>2. PICK i \in Nat : i = k \div 2 /\ (k = 2 * i \/ k = 2 * i + 1)
      BY <3>1
    <3>3. i = 0 \/ i \in 1 .. n
      BY <1>1, <3>1, <3>2
    <3> QED
      BY <3>1, <3>2, <3>3
  <2> QED
    BY <1>2, <2>1
<1> QED
  BY <1>2, <1>3, SeqEqual

-----------------------------------------------------------------------------
(* Only *)

(* q is a run of n steps.                                                  *)
IsRun(q, n, base, step) ==
  q[0] = base /\ \A k \in 1 .. n : q[k] = step[<<k, q[k - 1]>>]

(* A run of n steps exists.                                                *)
LEMMA RunExists ==
  ASSUME NEW S, NEW n \in Nat, NEW base \in S, NEW step \in [(1 .. n) \X S -> S]
  PROVE  \E q \in [0 .. n -> S] : IsRun(q, n, base, step)
<1>1. PICK iter \in [SUBSET (1 .. n) -> S] : IsFold(iter, n, base, step)
  BY FoldExists
<1> DEFINE q == [i \in 0 .. n |-> iter[1 .. i]]
<1>2. \A i \in 0 .. n : 1 .. i \in SUBSET (1 .. n)
  OBVIOUS
<1>3. q \in [0 .. n -> S]
  BY <1>1, <1>2
<1>4. q[0] = base
  <2>1. 1 .. 0 = {} /\ {} \in SUBSET (1 .. n) /\ 0 \in 0 .. n
    OBVIOUS
  <2>2. iter[{}] = base
    BY <1>1, <2>1 DEF IsFold
  <2> QED
    BY <2>1, <2>2
<1>5. ASSUME NEW k \in 1 .. n PROVE q[k] = step[<<k, q[k - 1]>>]
  <2>1. k \in 0 .. n /\ k - 1 \in 0 .. n
    OBVIOUS
  <2>2. k \in 1 .. k
    OBVIOUS
  <2>3. Max(1 .. k) = k /\ (1 .. k) \ {k} = 1 .. (k - 1) /\ 1 .. k \in SUBSET (1 .. n)
    BY MaxOfInitial
  <2>4. iter[1 .. k] = step[<<k, iter[1 .. (k - 1)]>>]
    BY <1>1, <2>2, <2>3 DEF IsFold
  <2> QED
    BY <2>1, <2>4
<1>6. IsRun(q, n, base, step)
  BY <1>4, <1>5 DEF IsRun
<1> QED
  BY <1>3, <1>6

IsKept(kept, seq, members) ==
  kept = [n \in 0 .. Len(seq) |->
            CASE n = 0 -> << >>
              [] n > 0 /\ seq[n] \in members -> Append(kept[n - 1], seq[n])
              [] OTHER -> kept[n - 1]]

LEMMA KeptExists ==
  ASSUME NEW A, NEW seq \in Seq(A), NEW members
  PROVE  \E kept : IsKept(kept, seq, members)
<1> DEFINE n == Len(seq)
           S == Seq(A)
           step == [x \in (1 .. n) \X S |->
                      IF seq[x[1]] \in members THEN Append(x[2], seq[x[1]]) ELSE x[2]]
<1>1. n \in Nat /\ << >> \in S /\ \A i \in 1 .. n : seq[i] \in A
  OBVIOUS
<1>2. step \in [(1 .. n) \X S -> S]
  BY <1>1
<1>3. PICK q \in [0 .. n -> S] :
        q[0] = << >> /\ \A k \in 1 .. n : q[k] = step[<<k, q[k - 1]>>]
  <2> HIDE DEF n, S, step
  <2>1. PICK base \in S : base = << >>
    BY <1>1
  <2>2. PICK q \in [0 .. n -> S] : IsRun(q, n, base, step)
    BY <1>1, <1>2, RunExists
  <2> QED
    BY <2>1, <2>2 DEF IsRun
<1>4. ASSUME NEW k \in 0 .. n
      PROVE  q[k] = CASE k = 0 -> << >>
                      [] k > 0 /\ seq[k] \in members -> Append(q[k - 1], seq[k])
                      [] OTHER -> q[k - 1]
  <2>1. CASE k = 0
    BY <1>3, <2>1
  <2>2. CASE k \in 1 .. n
    <3>1. k # 0 /\ k > 0 /\ k - 1 \in 0 .. n
      BY <1>1, <2>2
    <3>2. q[k - 1] \in S
      BY <1>3, <3>1
    <3>3. q[k] = IF seq[k] \in members THEN Append(q[k - 1], seq[k]) ELSE q[k - 1]
      <4> HIDE DEF S, n
      <4> QED
        BY <1>3, <2>2, <3>2
    <3> HIDE DEF step, S, n
    <3> QED
      BY <3>1, <3>3
  <2> QED
    BY <1>1, <2>1, <2>2
<1>5. q = [k \in 0 .. n |-> q[k]]
  BY <1>3
<1>6. IsKept(q, seq, members)
  <2> HIDE DEF step, S
  <2> QED
    BY <1>4, <1>5 DEF IsKept
<1> QED
  BY <1>6

(* Exactly the elements that are in the set are kept.                      *)
LEMMA OnlyMembers ==
  ASSUME NEW A, NEW seq \in Seq(A), NEW members
  PROVE  /\ Only(seq, members) \in Seq(A)
         /\ ToSet(Only(seq, members)) = ToSet(seq) \cap members
<1> DEFINE q == CHOOSE kept : IsKept(kept, seq, members)
           n == Len(seq)
<1>1. IsKept(q, seq, members)
  BY KeptExists
<1>2. Only(seq, members) = q[n]
  BY DEF Only, IsKept
<1> HIDE DEF q
<1>3. /\ n \in Nat /\ DOMAIN seq = 1 .. n /\ \A i \in 1 .. n : seq[i] \in A
  OBVIOUS
<1>4. q[0] = << >>
  BY <1>1, <1>3 DEF IsKept
<1>5. ASSUME NEW k \in 1 .. n
      PROVE  q[k] = IF seq[k] \in members THEN Append(q[k - 1], seq[k]) ELSE q[k - 1]
  <2>1. k \in 0 .. n /\ k # 0 /\ k > 0
    BY <1>3
  <2> QED
    BY <1>1, <2>1 DEF IsKept
<1> DEFINE seen(k) == {seq[i] : i \in 1 .. k} \cap members
           T == {k \in Nat : k <= n => q[k] \in Seq(A) /\ ToSet(q[k]) = seen(k)}
<1> HIDE DEF n
<1>6. 0 \in T
  <2>1. 1 .. 0 = {}
    OBVIOUS
  <2>2. q[0] \in Seq(A) /\ ToSet(q[0]) = {}
    BY <1>4 DEF ToSet
  <2> QED
    BY <2>1, <2>2
<1>7. ASSUME NEW k \in Nat, k \in T PROVE k + 1 \in T
  <2> SUFFICES ASSUME k + 1 <= n
               PROVE  q[k + 1] \in Seq(A) /\ ToSet(q[k + 1]) = seen(k + 1)
    OBVIOUS
  <2>1. k <= n /\ k + 1 \in 1 .. n /\ (k + 1) - 1 = k
    BY <1>3
  <2>2. q[k] \in Seq(A) /\ ToSet(q[k]) = seen(k)
    BY <1>7, <2>1
  <2>3. seen(k + 1) = seen(k) \cup ({seq[k + 1]} \cap members)
    <3>1. \A i : i \in 1 .. k + 1 <=> i \in 1 .. k \/ i = k + 1
      OBVIOUS
    <3> QED
      BY <3>1
  <2>4. PICK s \in Seq(A), e \in A : s = q[k] /\ e = seq[k + 1]
    BY <1>3, <2>1, <2>2
  <2>5. Append(s, e) \in Seq(A) /\ ToSet(Append(s, e)) = ToSet(s) \cup {e}
    <3>1. /\ Len(s) \in Nat /\ DOMAIN s = 1 .. Len(s) /\ DOMAIN Append(s, e) = 1 .. Len(s) + 1
          /\ Append(s, e) \in Seq(A) /\ Append(s, e)[Len(s) + 1] = e
          /\ \A i \in 1 .. Len(s) : Append(s, e)[i] = s[i]
      OBVIOUS
    <3>2. \A i : i \in 1 .. Len(s) + 1 <=> i \in 1 .. Len(s) \/ i = Len(s) + 1
      BY <3>1
    <3> QED
      BY <3>1, <3>2 DEF ToSet
  <2>6. q[k + 1] = IF e \in members THEN Append(s, e) ELSE s
    BY <1>5, <2>1, <2>4
  <2> HIDE DEF seen
  <2>7. CASE e \in members
    BY <2>2, <2>3, <2>4, <2>5, <2>6, <2>7
  <2>8. CASE e \notin members
    BY <2>2, <2>3, <2>4, <2>6, <2>8
  <2> QED
    BY <2>7, <2>8
<1>8. Nat \subseteq T
  <2> HIDE DEF T
  <2> QED
    BY <1>6, <1>7, NumberInduction
<1>9. q[n] \in Seq(A) /\ ToSet(q[n]) = seen(n)
  BY <1>3, <1>8
<1>10. ToSet(seq) = {seq[i] : i \in 1 .. n}
  BY <1>3 DEF ToSet
<1> QED
  BY <1>2, <1>9, <1>10

(* What a payload tells: pairs of a flag and a value that is not empty.    *)
LEMMA ValuedType ==
  ASSUME NEW Q, NEW value, NEW arguments \in Seq(Valued(value, Q))
  PROVE  arguments \in Seq(Q \X Solid(Q))
<1>1. Valued(value, Q) \subseteq Q \X Solid(Q)
  BY DEF Valued
<1> QED
  BY <1>1, SeqMonotonic

(* The value that stands behind the first of the flags of this name.       *)
LEMMA GivenIsRead ==
  ASSUME NEW P, Space \in P, NEW Q, Q = Without(P, Space), FlagNames \subseteq Q,
         NEW type \in Q, NEW value \in [FlagNames -> Seq(Q)], NEW flag \in FlagNames
  PROVE  FlagValueIn(Payload(type, Given(value)), flag) = value[flag]
<1> DEFINE flags == FrpsReads(Payload(type, Given(value))).flags
           given == {i \in DOMAIN flags : flags[i][1] = <<flag>>}
           least == CHOOSE i \in given : \A j \in given : i <= j
<1>1. PICK arguments \in Seq(Valued(value, Q)) : arguments = Given(value)
  BY GivenType
<1> HIDE DEF flags, given, least
<1>2. arguments \in Seq(Q \X Solid(Q))
  BY ValuedType
<1>7. \A i \in 1 .. Len(arguments) : arguments[i][2] = value[arguments[i][1]]
  BY DEF Valued
<1>3. flags = [i \in 1 .. Len(arguments) |-> <<<<arguments[i][1]>>, arguments[i][2]>>]
  <2>1. arguments \in Seq(Q \X Solid(Q))
    BY <1>2
  <2>2. FrpsReads(Payload(type, arguments)) =
          [type |-> <<type>>,
           flags |-> [i \in 1 .. Len(arguments) |-> <<<<arguments[i][1]>>, arguments[i][2]>>]]
    BY <2>1, FrpsReadsArguments
  <2> QED
    BY <1>1, <2>2 DEF flags
<1>4. given = {i \in 1 .. Len(arguments) : arguments[i][1] = flag}
  BY <1>3 DEF given
<1>5. ASSUME given = {} PROVE value[flag] = NoText
  <2> SUFFICES ASSUME value[flag] # NoText PROVE FALSE
    OBVIOUS
  <2>1. <<flag, value[flag]>> \in Range(arguments)
    BY <1>1, GivenType
  <2>2. PICK i \in 1 .. Len(arguments) : arguments[i] = <<flag, value[flag]>>
    BY <2>1 DEF Range
  <2>3. i \in given
    BY <1>4, <2>2
  <2> QED
    BY <1>5, <2>3
<1>6. ASSUME given # {} PROVE flags[least][2] = value[flag]
  <2>1. given \subseteq Nat
    BY <1>4
  <2>2. \E i \in given : \A j \in given : i <= j
    BY <1>6, <2>1, LeastNumber
  <2>3. least \in given
    BY <2>2 DEF least
  <2>4. least \in 1 .. Len(arguments) /\ arguments[least][1] = flag
    BY <1>4, <2>3
  <2> QED
    BY <1>3, <1>7, <2>4
<1>8. value[flag] = IF given = {} THEN NoText ELSE flags[least][2]
  BY <1>5, <1>6, Zenon
<1> QED
  BY <1>8, Zenon DEF FlagValueIn, flags, given, least

(* The type stands in front.                                               *)
LEMMA TypeIsRead ==
  ASSUME NEW P, Space \in P, NEW Q, Q = Without(P, Space), FlagNames \subseteq Q,
         NEW type \in Q, NEW value \in [FlagNames -> Seq(Q)]
  PROVE  FrpsReads(Payload(type, Given(value))).type = <<type>>
<1>1. PICK arguments \in Seq(Valued(value, Q)) : arguments = Given(value)
  BY GivenType
<1>2. arguments \in Seq(Q \X Solid(Q))
  BY ValuedType
<1> QED
  BY <1>1, <1>2, FrpsReadsArguments

(* The walk through the tokens of a payload finds the values of the naming *)
(* flags, and no others, unless another value is one of these flags.       *)
LEMMA WalkOfTokens ==
  ASSUME NEW W, NEW t \in Seq(W), NEW type, NEW A, NEW arguments \in Seq(A),
         IsTokens(t, type, arguments), NEW isValue, IsFlagWalk(isValue, t),
         <<type>> \notin Naming,
         \A i \in 1 .. Len(arguments) :
           <<arguments[i][1]>> \notin Naming => arguments[i][2] \notin Naming
  PROVE  /\ ~isValue[1]
         /\ \A i \in 1 .. Len(arguments) :
              /\ ~isValue[2 * i]
              /\ isValue[2 * i + 1] <=> <<arguments[i][1]>> \in Naming
<1> DEFINE n == Len(arguments)
           T == {k \in Nat : k <= n =>
                   (k # 0 => ~isValue[2 * k])
                   /\ (isValue[2 * k + 1] <=> k # 0 /\ <<arguments[k][1]>> \in Naming)}
<1>1. n \in Nat
  OBVIOUS
<1>2. /\ Len(t) = 2 * n + 1 /\ t[1] = <<type>>
      /\ \A i \in 1 .. n : t[2 * i] = <<arguments[i][1]>> /\ t[2 * i + 1] = arguments[i][2]
  BY DEF IsTokens
<1>3. \A k \in 0 .. 2 * n + 1 :
        isValue[k] <=> k > 1 /\ t[k - 1] \in Naming /\ ~isValue[k - 1]
  BY <1>2 DEF IsFlagWalk
<1> HIDE DEF n
<1>4. ~isValue[1]
  <2>1. 1 \in 0 .. 2 * n + 1 /\ ~(1 > 1)
    BY <1>1
  <2> QED
    BY <1>3, <2>1
<1>5. 0 \in T
  BY <1>4
<1>6. ASSUME NEW k \in Nat, k \in T PROVE k + 1 \in T
  <2> SUFFICES ASSUME k + 1 <= n
               PROVE  /\ ~isValue[2 * (k + 1)]
                      /\ isValue[2 * (k + 1) + 1] <=> <<arguments[k + 1][1]>> \in Naming
    OBVIOUS
  <2>1. PICK m \in Nat : m = 2 * k + 1
    OBVIOUS
  <2>2. /\ 2 * (k + 1) = m + 1 /\ 2 * (k + 1) + 1 = m + 2
        /\ m + 1 \in 0 .. 2 * n + 1 /\ m + 2 \in 0 .. 2 * n + 1
        /\ m + 1 > 1 /\ m + 2 > 1 /\ (m + 1) - 1 = m /\ (m + 2) - 1 = m + 1
        /\ k <= n /\ k + 1 \in 1 .. n
    BY <1>1, <2>1
  <2>3. isValue[m] <=> k # 0 /\ <<arguments[k][1]>> \in Naming
    BY <1>6, <2>1, <2>2
  <2>4. ~isValue[m + 1]
    <3> SUFFICES ASSUME ~isValue[m] PROVE t[m] \notin Naming
      BY <1>3, <2>2
    <3>1. CASE k = 0
      BY <1>2, <2>1, <3>1
    <3>2. CASE k # 0
      <4>1. k \in 1 .. n
        BY <1>1, <2>2, <3>2
      <4>2. t[m] = arguments[k][2]
        BY <1>2, <2>1, <4>1
      <4> QED
        BY <2>3, <3>2, <4>1, <4>2 DEF n
    <3> QED
      BY <3>1, <3>2
  <2>5. isValue[m + 2] <=> t[m + 1] \in Naming
    BY <1>3, <2>2, <2>4
  <2>6. t[m + 1] = <<arguments[k + 1][1]>>
    BY <1>2, <2>2
  <2> QED
    BY <2>2, <2>4, <2>5, <2>6
<1>7. Nat \subseteq T
  <2> HIDE DEF T
  <2> QED
    BY <1>5, <1>6, NumberInduction
<1>8. ASSUME NEW i \in 1 .. n
      PROVE  ~isValue[2 * i] /\ (isValue[2 * i + 1] <=> <<arguments[i][1]>> \in Naming)
  <2>1. i \in T /\ i <= n /\ i # 0
    BY <1>1, <1>7
  <2> QED
    BY <2>1
<1> QED
  BY <1>4, <1>8 DEF n

-----------------------------------------------------------------------------
(* The candidate of a payload *)

RenamedValues(value, prefix) ==
  [flag \in FlagNames |->
     IF value[flag] = NoText THEN NoText ELSE RenamedValue(<<flag>>, value[flag], prefix)]

LEMMA RenamedValuesType ==
  ASSUME NEW Q, Comma \in Q, NEW value \in [FlagNames -> Seq(Q)], NEW prefix \in Q
  PROVE  /\ RenamedValues(value, prefix) \in [FlagNames -> Seq(Q)]
         /\ \A flag \in FlagNames :
              (value[flag] = NoText) <=> (RenamedValues(value, prefix)[flag] = NoText)
<1>1. ASSUME NEW flag \in FlagNames
      PROVE  /\ RenamedValues(value, prefix)[flag] \in Seq(Q)
             /\ (value[flag] = NoText) <=> (RenamedValues(value, prefix)[flag] = NoText)
  <2>1. CASE value[flag] = NoText
    BY <2>1 DEF RenamedValues, NoText
  <2>2. CASE value[flag] # NoText
    <3>1. PICK text \in Solid(Q) : text = value[flag]
      BY <2>2 DEF Solid, NoText
    <3>2. RenamedValue(<<flag>>, text, prefix) \in Solid(Q)
      BY RenamedValueType
    <3>3. RenamedValues(value, prefix)[flag] = RenamedValue(<<flag>>, text, prefix)
      BY <2>2, <3>1 DEF RenamedValues
    <3> QED
      BY <2>2, <3>2, <3>3 DEF Solid, NoText
  <2> QED
    BY <2>1, <2>2
<1>2. DOMAIN RenamedValues(value, prefix) = FlagNames
  BY DEF RenamedValues
<1>3. RenamedValues(value, prefix) = [flag \in FlagNames |-> RenamedValues(value, prefix)[flag]]
  BY DEF RenamedValues
<1> QED
  BY <1>1, <1>3

(* No value that is sent is a flag of the kind that names, unless it is    *)
(* one of the names itself.                                                *)
NoneNames(type, value) ==
  /\ <<type>> \notin Naming
  /\ \A flag \in FlagNames : <<flag>> \notin Naming => value[flag] \notin Naming

(* The rename of a payload is the payload with the values of the naming    *)
(* flags renamed.                                                          *)
LEMMA RenameOfGiven ==
  ASSUME NEW P, Space \in P, Comma \in P, ExPieces \subseteq P, NEW Q, Q = Without(P, Space),
         FlagNames \subseteq Q, NEW type \in Q, NEW prefix \in ExPieces,
         NEW value \in [FlagNames -> Seq(Q)], NoneNames(type, value)
  PROVE  ApplyRenamePrefix(Payload(type, Given(value)), prefix)
           = Payload(type, Given(RenamedValues(value, prefix)))
<1>1. Comma \in Q /\ prefix \in Q
  BY ExPiecesSeparateNothing DEF Without, Space, Comma
<1>2. PICK other \in [FlagNames -> Seq(Q)] :
        /\ other = RenamedValues(value, prefix)
        /\ \A flag \in FlagNames : (value[flag] = NoText) <=> (other[flag] = NoText)
  BY <1>1, RenamedValuesType
<1>3. PICK given \in Seq(Valued(value, Q)) : given = Given(value)
  BY GivenType
<1>4. PICK renamed \in Seq(Valued(other, Q)) : renamed = Given(other)
  BY GivenType
<1>5. given \in Seq(Q \X Solid(Q))
  BY ValuedType
<1>6. renamed \in Seq(Q \X Solid(Q))
  BY ValuedType
<1>7. /\ Len(renamed) = Len(given) /\ Len(given) \in Nat
      /\ \A i \in 1 .. Len(given) : renamed[i] = <<given[i][1], other[given[i][1]]>>
  <2>1. SameFlags(Given(value), Given(other), other)
    BY <1>2, GivenMapped
  <2> QED
    BY <1>3, <1>4, <2>1 DEF SameFlags
<1>8. \A i \in 1 .. Len(given) :
        /\ given[i][1] \in FlagNames /\ given[i][2] = value[given[i][1]]
        /\ given[i][2] # NoText
  BY DEF Valued, Solid, NoText
<1>9. PICK t \in Seq(Solid(Q)) :
        IsTokens(t, type, given) /\ ReadsAs(Payload(type, given), t)
  BY <1>5, PayloadWords
<1>10. PICK u \in Seq(Solid(Q)) :
         IsTokens(u, type, renamed) /\ ReadsAs(Payload(type, renamed), u)
  BY <1>6, PayloadWords
<1>11. PICK isValue : RenamesBy(isValue, t, Payload(type, given), prefix)
  BY <1>9, ApplyOverWords DEF ReadsAs
<1>12. /\ ~isValue[1]
       /\ \A i \in 1 .. Len(given) :
            ~isValue[2 * i] /\ (isValue[2 * i + 1] <=> <<given[i][1]>> \in Naming)
  <2>1. /\ <<type>> \notin Naming
        /\ \A i \in 1 .. Len(given) : <<given[i][1]>> \notin Naming => given[i][2] \notin Naming
    BY <1>8 DEF NoneNames
  <2>2. IsFlagWalk(isValue, t)
    BY <1>11 DEF RenamesBy
  <2> QED
    BY <1>5, <1>9, <2>1, <2>2, WalkOfTokens
<1> DEFINE r == RenamedWords(t, isValue, prefix)
<1>13. r \in Seq(Solid(Q)) /\ Len(r) = Len(t)
  BY <1>1, RenamedWordsType
<1>14. \A k \in 1 .. Len(t) :
         r[k] = IF isValue[k] THEN RenamedValue(t[k - 1], t[k], prefix) ELSE t[k]
  BY DEF RenamedWords
<1> HIDE DEF r
<1>15. /\ Len(t) = 2 * Len(given) + 1 /\ t[1] = <<type>>
       /\ \A i \in 1 .. Len(given) : t[2 * i] = <<given[i][1]>> /\ t[2 * i + 1] = given[i][2]
  BY <1>9 DEF IsTokens
<1>16. r[1] = <<type>>
  <2>1. 1 \in 1 .. Len(t)
    BY <1>7, <1>15
  <2> QED
    BY <1>12, <1>14, <1>15, <2>1
<1>17. ASSUME NEW i \in 1 .. Len(renamed)
       PROVE  r[2 * i] = <<renamed[i][1]>> /\ r[2 * i + 1] = renamed[i][2]
  <2> DEFINE flag == given[i][1]
  <2>1. /\ i \in 1 .. Len(given) /\ 2 * i \in 1 .. Len(t) /\ 2 * i + 1 \in 1 .. Len(t)
        /\ (2 * i + 1) - 1 = 2 * i
    BY <1>7, <1>15
  <2>2. renamed[i][1] = flag /\ renamed[i][2] = other[flag] /\ flag \in FlagNames
    BY <1>7, <1>8, <2>1
  <2>3. other[flag] = RenamedValue(<<flag>>, given[i][2], prefix)
    BY <1>2, <1>8, <2>1, <2>2 DEF RenamedValues
  <2>4. r[2 * i] = <<flag>>
    BY <1>12, <1>14, <1>15, <2>1
  <2>5. t[2 * i] = <<flag>> /\ t[2 * i + 1] = given[i][2]
    BY <1>15, <2>1
  <2>6. r[2 * i + 1] = IF isValue[2 * i + 1] THEN RenamedValue(<<flag>>, given[i][2], prefix)
                       ELSE given[i][2]
    BY <1>14, <2>1, <2>5
  <2>7. <<flag>> \notin Naming => RenamedValue(<<flag>>, given[i][2], prefix) = given[i][2]
    BY RenamedValueCases DEF Naming
  <2>8. isValue[2 * i + 1] <=> <<flag>> \in Naming
    BY <1>12, <2>1
  <2> QED
    BY <2>2, <2>3, <2>4, <2>6, <2>7, <2>8, Zenon
<1>18. IsTokens(r, type, renamed)
  BY <1>7, <1>13, <1>15, <1>16, <1>17 DEF IsTokens
<1>19. r = u
  BY <1>6, <1>10, <1>13, <1>18, TokensAreUnique
<1>20. ApplyRenamePrefix(Payload(type, given), prefix) = JoinWith(r, Space)
  BY <1>11 DEF RenamesBy, r
<1> QED
  BY <1>2, <1>3, <1>4, <1>10, <1>19, <1>20 DEF ReadsAs

-----------------------------------------------------------------------------
(* The arguments of a proxy *)

(* All that is sent is made of these pieces.                               *)
SentPieces(p, c, P) ==
  /\ p.type \in P
  /\ p.name \in Seq(P) /\ p.subdomain \in Seq(P) /\ p.httpUser \in Seq(P)
  /\ p.httpPassword \in Seq(P) /\ p.hostHeaderRewrite \in Seq(P)
  /\ p.secretKey \in Seq(P) /\ p.multiplexer \in Seq(P)
  /\ p.customDomains \in Texts(P) /\ p.locations \in Texts(P) /\ p.allowUsers \in Texts(P)
  /\ \A key \in DOMAIN p.metadatas : key \in P /\ p.metadatas[key] \in Seq(P)
  /\ p.type = "tcp" /\ p.remotePort # 0 => ToString(p.remotePort) \in P
  /\ c.user \in Seq(P) /\ c.token \in Seq(P)

(* The parts of gen_extra, in its order.                                   *)
Parts(p, c) ==
  << Push("--proxy-name", p.name),
     IF p.type = "tcp" THEN PushNum("--remote-port", p.remotePort) ELSE << >>,
     PushList("--custom-domain", p.customDomains),
     PushList("--locations", p.locations),
     Push("--sd", p.subdomain),
     Push("--http-user", p.httpUser),
     Push("--http-pwd", p.httpPassword),
     Push("--host-header-rewrite", p.hostHeaderRewrite),
     Push("--sk", p.secretKey),
     PushList("--allow-users", p.allowUsers),
     Push("--mux", p.multiplexer),
     IF c.metadatasEnabled THEN PushMetas("--metadatas", p.metadatas) ELSE << >>,
     Push("--user", c.user),
     Push("--token", c.token) >>

(* The texts behind the flags, in the same order.                          *)
PartTexts(p, c) ==
  << p.name,
     IF p.type = "tcp" /\ p.remotePort # 0 THEN <<ToString(p.remotePort)>> ELSE NoText,
     JoinWith(p.customDomains, Comma),
     JoinWith(p.locations, Comma),
     p.subdomain,
     p.httpUser,
     p.httpPassword,
     p.hostHeaderRewrite,
     p.secretKey,
     JoinWith(p.allowUsers, Comma),
     p.multiplexer,
     IF c.metadatasEnabled THEN MetaText(p.metadatas) ELSE NoText,
     c.user,
     c.token >>

(* The values of the flags of a proxy.                                     *)
Values(p, c) ==
  [flag \in FlagNames |-> PartTexts(p, c)[CHOOSE i \in 1 .. 14 : Flags[i] = flag]]

LEMMA NumbersTo14 ==
  ASSUME NEW i \in 1 .. 14
  PROVE  i = 1 \/ i = 2 \/ i = 3 \/ i = 4 \/ i = 5 \/ i = 6 \/ i = 7 \/ i = 8
         \/ i = 9 \/ i = 10 \/ i = 11 \/ i = 12 \/ i = 13 \/ i = 14
OBVIOUS

LEMMA FlagsDiffer ==
  ASSUME NEW i \in 1 .. 14
  PROVE  (CHOOSE j \in 1 .. 14 : Flags[j] = Flags[i]) = i
<1>1. ASSUME NEW j \in 1 .. 14, Flags[j] = Flags[i] PROVE j = i
  BY <1>1, NumbersTo14 DEF Flags
<1> QED
  BY <1>1

LEMMA ValueOfFlag ==
  ASSUME NEW p, NEW c, NEW i \in 1 .. 14
  PROVE  Flags[i] \in FlagNames /\ Values(p, c)[Flags[i]] = PartTexts(p, c)[i]
<1>1. Flags[i] \in FlagNames
  BY DEF FlagNames
<1> QED
  BY <1>1, FlagsDiffer, Zenon DEF Values

(* A text for each of the metadatas, in the order of their keys.           *)
MetaTexts(metadatas, keys) == [i \in DOMAIN keys |-> <<keys[i], "=">> \o metadatas[keys[i]]]

LEMMA MetaTextsType ==
  ASSUME NEW P, "=" \in P, NEW metadatas,
         \A key \in DOMAIN metadatas : key \in P /\ metadatas[key] \in Seq(P)
  PROVE  \E keys \in Seq(STRING) :
           /\ ToSet(keys) = ToSet(MetaKeys) \cap DOMAIN metadatas
           /\ MetaTexts(metadatas, keys) \in Seq(Solid(P))
           /\ Len(MetaTexts(metadatas, keys)) = Len(keys)
           /\ MetaText(metadatas) = JoinWith(MetaTexts(metadatas, keys), Comma)
<1>1. PICK keys \in Seq(STRING) :
        /\ keys = Only(MetaKeys, DOMAIN metadatas)
        /\ ToSet(keys) = ToSet(MetaKeys) \cap DOMAIN metadatas
  BY MetaKeysAssumption, OnlyMembers
<1>2. Len(keys) \in Nat /\ DOMAIN keys = 1 .. Len(keys)
  OBVIOUS
<1>3. ASSUME NEW i \in DOMAIN keys PROVE <<keys[i], "=">> \o metadatas[keys[i]] \in Solid(P)
  <2>1. keys[i] \in DOMAIN metadatas
    BY <1>1 DEF ToSet
  <2>2. PICK key \in P, text \in Seq(P) : key = keys[i] /\ text = metadatas[keys[i]]
    BY <2>1
  <2>3. <<key, "=">> \in Seq(P) /\ Len(<<key, "=">>) = 2
    OBVIOUS
  <2>4. <<key, "=">> \o text \in Seq(P) /\ <<key, "=">> \o text # << >>
    BY <2>3
  <2> QED
    BY <2>2, <2>4 DEF Solid
<1>4. /\ MetaTexts(metadatas, keys) \in Seq(Solid(P))
      /\ Len(MetaTexts(metadatas, keys)) = Len(keys)
  <2>1. MetaTexts(metadatas, keys) \in [1 .. Len(keys) -> Solid(P)]
    BY <1>2, <1>3 DEF MetaTexts
  <2> QED
    BY <1>2, <2>1
<1>5. MetaText(metadatas) = JoinWith(MetaTexts(metadatas, keys), Comma)
  BY <1>1, Zenon DEF MetaText, MetaTexts
<1> QED
  BY <1>1, <1>4, <1>5

LEMMA MetaTextType ==
  ASSUME NEW P, "=" \in P, Comma \in P, NEW metadatas,
         \A key \in DOMAIN metadatas : key \in P /\ metadatas[key] \in Seq(P)
  PROVE  MetaText(metadatas) \in Seq(P) /\ (DOMAIN metadatas = {} => MetaText(metadatas) = NoText)
<1>1. PICK keys \in Seq(STRING) :
           /\ ToSet(keys) = ToSet(MetaKeys) \cap DOMAIN metadatas
           /\ MetaTexts(metadatas, keys) \in Seq(Solid(P))
           /\ Len(MetaTexts(metadatas, keys)) = Len(keys)
           /\ MetaText(metadatas) = JoinWith(MetaTexts(metadatas, keys), Comma)
  BY MetaTextsType
<1>2. PICK texts \in Seq(Solid(P)) : texts = MetaTexts(metadatas, keys)
  BY <1>1
<1>3. texts \in Texts(P)
  BY SolidIsText
<1>4. JoinWith(texts, Comma) \in Seq(P)
  BY <1>3, JoinType
<1>5. ASSUME DOMAIN metadatas = {} PROVE MetaText(metadatas) = NoText
  <2>1. ToSet(keys) = {}
    BY <1>1, <1>5
  <2>2. Len(keys) = 0
    <3>1. \A i \in 1 .. Len(keys) : keys[i] \in ToSet(keys)
      BY DEF ToSet
    <3>2. Len(keys) \in Nat
      OBVIOUS
    <3> QED
      BY <2>1, <3>1, <3>2
  <2>3. texts = << >>
    BY <1>1, <1>2, <2>2
  <2> QED
    BY <1>1, <1>2, <2>3, JoinNothing
<1> QED
  BY <1>1, <1>2, <1>4, <1>5

LEMMA PartTextsType ==
  ASSUME NEW P, "=" \in P, Comma \in P, NEW p, NEW c, SentPieces(p, c, P), NEW i \in 1 .. 14
  PROVE  PartTexts(p, c)[i] \in Seq(P)
<1>1. /\ JoinWith(p.customDomains, Comma) \in Seq(P) /\ JoinWith(p.locations, Comma) \in Seq(P)
      /\ JoinWith(p.allowUsers, Comma) \in Seq(P)
  BY JoinType DEF SentPieces
<1>2. (IF c.metadatasEnabled THEN MetaText(p.metadatas) ELSE NoText) \in Seq(P)
  <2>1. MetaText(p.metadatas) \in Seq(P)
    BY MetaTextType DEF SentPieces
  <2> QED
    BY <2>1 DEF NoText
<1>3. (IF p.type = "tcp" /\ p.remotePort # 0 THEN <<ToString(p.remotePort)>> ELSE NoText) \in Seq(P)
  BY DEF SentPieces, NoText
<1>4. /\ p.name \in Seq(P) /\ p.subdomain \in Seq(P) /\ p.httpUser \in Seq(P)
      /\ p.httpPassword \in Seq(P) /\ p.hostHeaderRewrite \in Seq(P)
      /\ p.secretKey \in Seq(P) /\ p.multiplexer \in Seq(P)
      /\ c.user \in Seq(P) /\ c.token \in Seq(P)
  BY Zenon DEF SentPieces
<1>5. PICK domains \in Seq(P), paths \in Seq(P), users \in Seq(P), metas \in Seq(P), port \in Seq(P) :
        /\ domains = JoinWith(p.customDomains, Comma) /\ paths = JoinWith(p.locations, Comma)
        /\ users = JoinWith(p.allowUsers, Comma)
        /\ metas = (IF c.metadatasEnabled THEN MetaText(p.metadatas) ELSE NoText)
        /\ port = (IF p.type = "tcp" /\ p.remotePort # 0
                    THEN <<ToString(p.remotePort)>> ELSE NoText)
  BY <1>1, <1>2, <1>3
<1>6. PartTexts(p, c) =
        <<p.name, port, domains, paths, p.subdomain, p.httpUser, p.httpPassword,
          p.hostHeaderRewrite, p.secretKey, users, p.multiplexer, metas, c.user, c.token>>
  BY <1>5, Zenon DEF PartTexts
<1>7. PICK texts : texts = PartTexts(p, c)
  OBVIOUS
<1>8. /\ texts[1] = p.name /\ texts[2] = port /\ texts[3] = domains /\ texts[4] = paths
      /\ texts[5] = p.subdomain /\ texts[6] = p.httpUser /\ texts[7] = p.httpPassword
      /\ texts[8] = p.hostHeaderRewrite /\ texts[9] = p.secretKey /\ texts[10] = users
      /\ texts[11] = p.multiplexer /\ texts[12] = metas
      /\ texts[13] = c.user /\ texts[14] = c.token
  BY <1>6, <1>7
<1> QED
  BY <1>4, <1>5, <1>7, <1>8, NumbersTo14, Zenon

LEMMA ValuesType ==
  ASSUME NEW P, "=" \in P, Comma \in P, NEW p, NEW c, SentPieces(p, c, P)
  PROVE  Values(p, c) \in [FlagNames -> Seq(P)]
<1>1. ASSUME NEW flag \in FlagNames PROVE Values(p, c)[flag] \in Seq(P)
  <2>1. PICK i \in 1 .. 14 : flag = Flags[i]
    BY DEF FlagNames
  <2>2. Values(p, c)[flag] = PartTexts(p, c)[i]
    BY <2>1, ValueOfFlag
  <2> QED
    BY <2>2, PartTextsType
<1>2. Values(p, c) = [flag \in FlagNames |-> Values(p, c)[flag]]
  BY DEF Values
<1> QED
  BY <1>1, <1>2

LEMMA FlagsByName ==
  /\ "--proxy-name" \in FlagNames /\ "--remote-port" \in FlagNames
  /\ "--custom-domain" \in FlagNames /\ "--locations" \in FlagNames /\ "--sd" \in FlagNames
  /\ "--http-user" \in FlagNames /\ "--http-pwd" \in FlagNames
  /\ "--host-header-rewrite" \in FlagNames /\ "--sk" \in FlagNames
  /\ "--allow-users" \in FlagNames /\ "--mux" \in FlagNames /\ "--metadatas" \in FlagNames
  /\ "--user" \in FlagNames /\ "--token" \in FlagNames
<1>1. /\ 1 \in 1 .. 14 /\ 2 \in 1 .. 14 /\ 3 \in 1 .. 14 /\ 4 \in 1 .. 14 /\ 5 \in 1 .. 14
      /\ 6 \in 1 .. 14 /\ 7 \in 1 .. 14 /\ 8 \in 1 .. 14 /\ 9 \in 1 .. 14 /\ 10 \in 1 .. 14
      /\ 11 \in 1 .. 14 /\ 12 \in 1 .. 14 /\ 13 \in 1 .. 14 /\ 14 \in 1 .. 14
  OBVIOUS
<1>2. /\ Flags[1] = "--proxy-name" /\ Flags[2] = "--remote-port" /\ Flags[3] = "--custom-domain"
      /\ Flags[4] = "--locations" /\ Flags[5] = "--sd" /\ Flags[6] = "--http-user"
      /\ Flags[7] = "--http-pwd" /\ Flags[8] = "--host-header-rewrite" /\ Flags[9] = "--sk"
      /\ Flags[10] = "--allow-users" /\ Flags[11] = "--mux" /\ Flags[12] = "--metadatas"
      /\ Flags[13] = "--user" /\ Flags[14] = "--token"
  BY DEF Flags
<1>3. \A i \in 1 .. 14 : Flags[i] \in FlagNames
  BY DEF FlagNames
<1> QED
  BY <1>1, <1>2, <1>3, Zenon

LEMMA ArgumentsAreTogether ==
  ASSUME NEW p, NEW c
  PROVE  Arguments(p, c) = Together(Parts(p, c))
BY DEF Arguments, Together, Parts

(* A flag with a text is an argument, whether it is empty or not.          *)
LEMMA PartType ==
  ASSUME NEW P, FlagNames \subseteq P, NEW flag \in FlagNames, NEW text \in Seq(P)
  PROVE  << <<flag, text>> >> \in Seq(Pairs(P, P)) /\ Push(flag, text) \in Seq(Pairs(P, P))
<1>1. PICK argument \in Pairs(P, P) : argument = <<flag, text>>
  BY DEF Pairs
<1>2. <<argument>> \in Seq(Pairs(P, P))
  OBVIOUS
<1> QED
  BY <1>1, <1>2 DEF Push

LEMMA ArgumentsType ==
  ASSUME NEW P, "=" \in P, Comma \in P, FlagNames \subseteq P,
         NEW p, NEW c, SentPieces(p, c, P)
  PROVE  Arguments(p, c) \in Seq(Pairs(P, P))
<1>3. \A flag \in FlagNames, text \in Seq(P) :
        << <<flag, text>> >> \in Seq(Pairs(P, P)) /\ Push(flag, text) \in Seq(Pairs(P, P))
  BY PartType
<1>4. << >> \in Seq(Pairs(P, P))
  OBVIOUS
<1>5. \A flag \in FlagNames, texts \in Texts(P) : PushList(flag, texts) \in Seq(Pairs(P, P))
  BY <1>3, <1>4, JoinType DEF PushList
<1>6. PushMetas("--metadatas", p.metadatas) \in Seq(Pairs(P, P))
  <2>1. MetaText(p.metadatas) \in Seq(P)
    BY MetaTextType DEF SentPieces
  <2> QED
    BY <1>3, <1>4, <2>1, FlagsByName, Zenon DEF PushMetas
<1>7. p.type = "tcp" => PushNum("--remote-port", p.remotePort) \in Seq(Pairs(P, P))
  <2>1. p.type = "tcp" /\ p.remotePort # 0 => <<ToString(p.remotePort)>> \in Seq(P)
    BY DEF SentPieces
  <2> QED
    BY <1>4, <2>1, PartType, FlagsByName, Zenon DEF PushNum
<1> DEFINE S == Seq(Pairs(P, P))
<1> HIDE DEF S
<1>8. /\ Push("--proxy-name", p.name) \in S /\ Push("--sd", p.subdomain) \in S
      /\ Push("--http-user", p.httpUser) \in S /\ Push("--http-pwd", p.httpPassword) \in S
      /\ Push("--host-header-rewrite", p.hostHeaderRewrite) \in S
      /\ Push("--sk", p.secretKey) \in S /\ Push("--mux", p.multiplexer) \in S
      /\ Push("--user", c.user) \in S /\ Push("--token", c.token) \in S
  BY <1>3, FlagsByName, Zenon DEF SentPieces, S
<1>9. /\ PushList("--custom-domain", p.customDomains) \in S
      /\ PushList("--locations", p.locations) \in S
      /\ PushList("--allow-users", p.allowUsers) \in S
  BY <1>5, FlagsByName, Zenon DEF SentPieces, S
<1>10. ASSUME NEW i \in 1 .. 14 PROVE Parts(p, c)[i] \in S
  <2>1. /\ (IF p.type = "tcp" THEN PushNum("--remote-port", p.remotePort) ELSE << >>) \in S
        /\ (IF c.metadatasEnabled THEN PushMetas("--metadatas", p.metadatas) ELSE << >>) \in S
    BY <1>4, <1>6, <1>7 DEF S
  <2> QED
    BY <1>8, <1>9, <2>1, NumbersTo14 DEF Parts
<1>11. PICK parts : parts = Parts(p, c)
  OBVIOUS
<1>12. Together(parts) \in Seq(Pairs(P, P))
  BY <1>10, <1>11, TogetherMembers DEF S
<1> QED
  BY <1>11, <1>12, ArgumentsAreTogether

(* If no list has an empty item, just the flags with a value are given.    *)
LEMMA ArgumentsAreGiven ==
  ASSUME NEW P, "=" \in P, Comma \in P, NEW p, NEW c, SentPieces(p, c, P),
         p.customDomains \in Seq(Solid(P)), p.locations \in Seq(Solid(P)),
         p.allowUsers \in Seq(Solid(P))
  PROVE  Arguments(p, c) = Given(Values(p, c))
<1>1. ASSUME NEW flag, NEW texts \in Seq(Solid(P))
      PROVE  PushList(flag, texts) = Push(flag, JoinWith(texts, Comma))
  <2>1. CASE texts = << >>
    BY <2>1, JoinNothing DEF PushList, Push
  <2>2. CASE texts # << >>
    <3>1. JoinWith(texts, Comma) # NoText
      BY <2>2, JoinOfSolid DEF Solid, NoText
    <3> QED
      BY <2>2, <3>1 DEF PushList, Push
  <2> QED
    BY <2>1, <2>2
<1>2. PushMetas("--metadatas", p.metadatas) = Push("--metadatas", MetaText(p.metadatas))
  BY MetaTextType DEF PushMetas, Push, SentPieces
<1>3. PushNum("--remote-port", p.remotePort) =
        Push("--remote-port", IF p.remotePort # 0 THEN <<ToString(p.remotePort)>> ELSE NoText)
  BY DEF PushNum, Push, NoText
<1>4. \A flag : Push(flag, NoText) = << >>
  BY DEF Push
<1>5. ASSUME NEW i \in 1 .. 14 PROVE Parts(p, c)[i] = Push(Flags[i], PartTexts(p, c)[i])
  <2>1. PICK sent, domains, paths, users :
          /\ sent = MetaText(p.metadatas) /\ domains = JoinWith(p.customDomains, Comma)
          /\ paths = JoinWith(p.locations, Comma) /\ users = JoinWith(p.allowUsers, Comma)
    OBVIOUS
  <2>2. /\ PushList("--custom-domain", p.customDomains) = Push("--custom-domain", domains)
        /\ PushList("--locations", p.locations) = Push("--locations", paths)
        /\ PushList("--allow-users", p.allowUsers) = Push("--allow-users", users)
    BY <1>1, <2>1
  <2>3. (IF p.type = "tcp" THEN PushNum("--remote-port", p.remotePort) ELSE << >>)
          = Push("--remote-port", IF p.type = "tcp" /\ p.remotePort # 0
                                  THEN <<ToString(p.remotePort)>> ELSE NoText)
    BY <1>3, <1>4
  <2>4. (IF c.metadatasEnabled THEN PushMetas("--metadatas", p.metadatas) ELSE << >>)
          = Push("--metadatas", IF c.metadatasEnabled THEN sent ELSE NoText)
    BY <1>2, <1>4, <2>1
  <2>5. PICK port, metas :
          /\ port = (IF p.type = "tcp" /\ p.remotePort # 0
                      THEN <<ToString(p.remotePort)>> ELSE NoText)
          /\ metas = (IF c.metadatasEnabled THEN MetaText(p.metadatas) ELSE NoText)
    OBVIOUS
  <2>6. PartTexts(p, c) =
          <<p.name, port, domains, paths, p.subdomain, p.httpUser, p.httpPassword,
            p.hostHeaderRewrite, p.secretKey, users, p.multiplexer, metas, c.user, c.token>>
    BY <2>1, <2>5, Zenon DEF PartTexts
  <2>7. Parts(p, c) =
          << Push("--proxy-name", p.name), Push("--remote-port", port),
             Push("--custom-domain", domains), Push("--locations", paths),
             Push("--sd", p.subdomain), Push("--http-user", p.httpUser),
             Push("--http-pwd", p.httpPassword),
             Push("--host-header-rewrite", p.hostHeaderRewrite),
             Push("--sk", p.secretKey), Push("--allow-users", users),
             Push("--mux", p.multiplexer), Push("--metadatas", metas),
             Push("--user", c.user), Push("--token", c.token) >>
    BY <2>1, <2>2, <2>3, <2>4, <2>5, Zenon DEF Parts
  <2> QED
    BY <2>6, <2>7, NumbersTo14 DEF Flags
<1>6. ASSUME NEW i \in 1 .. 14 PROVE Parts(p, c)[i] = Pushed(Values(p, c))[i]
  <2>1. Values(p, c)[Flags[i]] = PartTexts(p, c)[i]
    BY ValueOfFlag
  <2> QED
    BY <1>5, <2>1 DEF Pushed
<1>7. PICK parts, pushed : parts = Parts(p, c) /\ pushed = Pushed(Values(p, c))
  OBVIOUS
<1>8. /\ parts[1] = pushed[1] /\ parts[2] = pushed[2] /\ parts[3] = pushed[3]
      /\ parts[4] = pushed[4] /\ parts[5] = pushed[5] /\ parts[6] = pushed[6]
      /\ parts[7] = pushed[7] /\ parts[8] = pushed[8] /\ parts[9] = pushed[9]
      /\ parts[10] = pushed[10] /\ parts[11] = pushed[11] /\ parts[12] = pushed[12]
      /\ parts[13] = pushed[13] /\ parts[14] = pushed[14]
  BY <1>6, <1>7
<1>9. Together(parts) = Together(pushed)
  BY <1>8, Zenon DEF Together
<1> QED
  BY <1>7, <1>9, ArgumentsAreTogether DEF Given

(* The payload of a proxy is made of the pieces that are sent.             *)
LEMMA GenExtraType ==
  ASSUME NEW P, "=" \in P, Comma \in P, Space \in P, FlagNames \subseteq P,
         NEW p, NEW c, SentPieces(p, c, P)
  PROVE  GenExtra(p, c) \in Seq(P) /\ GenExtra(p, c) = Payload(p.type, Arguments(p, c))
<1>1. GenExtra(p, c) = Payload(p.type, Arguments(p, c))
  BY Zenon DEF GenExtra, Payload
<1>2. PICK arguments \in Seq(Pairs(P, P)) : arguments = Arguments(p, c)
  BY ArgumentsType
<1>3. Payload(p.type, arguments) \in Seq(P)
  BY PayloadType DEF SentPieces
<1> QED
  BY <1>1, <1>2, <1>3

-----------------------------------------------------------------------------
(* What frps reads of a proxy *)

(* All that is sent is made of these pieces, and no list has an empty item *)
(* or one with a comma.                                                    *)
PlainlySent(p, c, Q) ==
  /\ "=" \in Q /\ Comma \in Q /\ FlagNames \subseteq Q
  /\ SentPieces(p, c, Q)
  /\ p.customDomains \in Seq(Solid(Without(Q, Comma)))
  /\ p.locations \in Seq(Solid(Without(Q, Comma)))
  /\ p.allowUsers \in Seq(Solid(Without(Q, Comma)))

LEMMA PlainlySentArguments ==
  ASSUME NEW P, Space \in P, NEW Q, Q = Without(P, Space), NEW p, NEW c, PlainlySent(p, c, Q)
  PROVE  /\ Values(p, c) \in [FlagNames -> Seq(Q)]
         /\ Arguments(p, c) = Given(Values(p, c))
         /\ GenExtra(p, c) = Payload(p.type, Given(Values(p, c)))
<1>1. "=" \in Q /\ Comma \in Q /\ SentPieces(p, c, Q)
  BY DEF PlainlySent
<1>2. Values(p, c) \in [FlagNames -> Seq(Q)]
  BY <1>1, ValuesType
<1>3. Solid(Without(Q, Comma)) \subseteq Solid(Q)
  BY WithoutIsSubset DEF Solid
<1>4. Seq(Solid(Without(Q, Comma))) \subseteq Seq(Solid(Q))
  BY <1>3, SeqMonotonic
<1>5. Arguments(p, c) = Given(Values(p, c))
  BY <1>1, <1>4, ArgumentsAreGiven DEF PlainlySent
<1>6. GenExtra(p, c) = Payload(p.type, Arguments(p, c))
  BY Zenon DEF GenExtra, Payload
<1> QED
  BY <1>2, <1>5, <1>6

(* A value that is stripped is renamed by the prefix in front of it.       *)
LEMMA StripStripped ==
  ASSUME NEW P, NEW text \in Seq(P), Stripped(text)
  PROVE  StripRenamePrefix(text) = text
<1> DEFINE first == {i \in DOMAIN text : text[i] \notin ExPieces}
           m == CHOOSE i \in first : \A j \in first : i <= j
<1>1. CASE text = << >>
  BY <1>1 DEF StripRenamePrefix, NoText
<1>2. CASE text # << >>
  <2>1. 1 \in DOMAIN text /\ Len(text) \in Nat /\ DOMAIN text = 1 .. Len(text)
    BY <1>2
  <2>2. 1 \in first /\ first \subseteq Nat /\ \A j \in first : 1 <= j
    BY <1>2, <2>1 DEF Stripped
  <2>3. m = 1
    <3>1. m \in first /\ \A j \in first : m <= j
      <4> HIDE DEF first
      <4> QED
        BY <2>2
    <3> HIDE DEF first, m
    <3> QED
      BY <2>2, <3>1
  <2>4. StripRenamePrefix(text) = SubSeq(text, m, Len(text))
    BY <2>2 DEF StripRenamePrefix
  <2>5. SubSeq(text, 1, Len(text)) = text
    OBVIOUS
  <2> HIDE DEF m
  <2> QED
    BY <2>3, <2>4, <2>5
<1> QED
  BY <1>1, <1>2

(* Another name for a proxy gives other values to the flags that name it.  *)
UnderPrefix(texts, prefix) == [i \in DOMAIN texts |-> <<prefix>> \o texts[i]]

(* r is p under another public name.                                       *)
IsRenamed(r, p, prefix) ==
  /\ r.name = <<prefix>> \o p.name
  /\ r.subdomain = IF p.subdomain = NoText THEN NoText ELSE <<prefix>> \o p.subdomain
  /\ r.customDomains = UnderPrefix(p.customDomains, prefix)
  /\ r.type = p.type /\ r.remotePort = p.remotePort /\ r.locations = p.locations
  /\ r.httpUser = p.httpUser /\ r.httpPassword = p.httpPassword
  /\ r.hostHeaderRewrite = p.hostHeaderRewrite /\ r.secretKey = p.secretKey
  /\ r.allowUsers = p.allowUsers /\ r.multiplexer = p.multiplexer
  /\ r.metadatas = p.metadatas

LEMMA RenamedDomains ==
  ASSUME NEW Q, Comma \in Q, NEW domains \in Seq(Solid(Without(Q, Comma))), NEW prefix \in Q,
         \A i \in DOMAIN domains : Stripped(domains[i])
  PROVE  JoinWith(UnderPrefix(domains, prefix), Comma)
           = IF JoinWith(domains, Comma) = NoText THEN NoText
             ELSE RenamedValue(DomainFlag, JoinWith(domains, Comma), prefix)
<1>1. CASE domains = << >>
  <2>1. UnderPrefix(domains, prefix) = << >>
    BY <1>1 DEF UnderPrefix
  <2> QED
    BY <1>1, <2>1, JoinNothing
<1>2. CASE domains # << >>
  <2>1. domains \in Texts(Without(Q, Comma)) /\ domains \in Seq(Solid(Q))
    <3>1. Solid(Without(Q, Comma)) \subseteq Solid(Q)
      BY WithoutIsSubset DEF Solid
    <3> QED
      BY <3>1, SolidIsText, SeqMonotonic
  <2>2. JoinWith(domains, Comma) # NoText
    BY <1>2, <2>1, JoinOfSolid DEF Solid, NoText
  <2>3. Split(JoinWith(domains, Comma), Comma) = domains
    BY <1>2, <2>1, JoinThenSplit
  <2>4. Renamed(domains, prefix) = UnderPrefix(domains, prefix)
    <3>1. ASSUME NEW i \in DOMAIN domains PROVE StripRenamePrefix(domains[i]) = domains[i]
      <4>1. domains[i] \in Seq(Without(Q, Comma))
        BY DEF Solid
      <4> QED
        BY <4>1, StripStripped
    <3> QED
      BY <3>1 DEF Renamed, UnderPrefix
  <2> QED
    BY <2>2, <2>3, <2>4, RenamedValueCases
<1> QED
  BY <1>1, <1>2

(* The values of the flags of a proxy under another name.                  *)
LEMMA RenamedProxyValues ==
  ASSUME NEW Q, NEW p, NEW c, PlainlySent(p, c, Q), NEW r, NEW prefix \in Q,
         IsRenamed(r, p, prefix), p.name # NoText,
         Stripped(p.name), Stripped(p.subdomain),
         \A i \in DOMAIN p.customDomains : Stripped(p.customDomains[i])
  PROVE  Values(r, c) = RenamedValues(Values(p, c), prefix)
<1>1. p.name \in Seq(Q) /\ p.subdomain \in Seq(Q) /\ Comma \in Q
  BY DEF PlainlySent, SentPieces
<1>2. r.name = RenamedValue(<<"--proxy-name">>, p.name, prefix)
  <2>1. <<"--proxy-name">> \in NameFlags
    BY DEF NameFlags
  <2> QED
    BY <1>1, <2>1, RenamedValueCases, StripStripped DEF IsRenamed
<1>3. r.subdomain = IF p.subdomain = NoText THEN NoText
                    ELSE RenamedValue(<<"--sd">>, p.subdomain, prefix)
  <2>1. <<"--sd">> \in NameFlags
    BY DEF NameFlags
  <2>2. RenamedValue(<<"--sd">>, p.subdomain, prefix) = <<prefix>> \o p.subdomain
    BY <1>1, <2>1, RenamedValueCases, StripStripped
  <2> QED
    BY <2>2 DEF IsRenamed
<1>4. JoinWith(r.customDomains, Comma) =
        IF JoinWith(p.customDomains, Comma) = NoText THEN NoText
        ELSE RenamedValue(<<"--custom-domain">>, JoinWith(p.customDomains, Comma), prefix)
  BY <1>1, RenamedDomains DEF IsRenamed, PlainlySent, DomainFlag
<1>5. \A flag : <<flag>> \notin Naming =>
        \A text : RenamedValue(<<flag>>, text, prefix) = text
  BY RenamedValueCases DEF Naming
<1>6. PICK port, domains, other, paths, users, metas :
        /\ port = (IF p.type = "tcp" /\ p.remotePort # 0
                   THEN <<ToString(p.remotePort)>> ELSE NoText)
        /\ domains = JoinWith(p.customDomains, Comma)
        /\ other = JoinWith(r.customDomains, Comma)
        /\ paths = JoinWith(p.locations, Comma) /\ users = JoinWith(p.allowUsers, Comma)
        /\ metas = (IF c.metadatasEnabled THEN MetaText(p.metadatas) ELSE NoText)
  OBVIOUS
<1>7. PartTexts(p, c) =
        <<p.name, port, domains, paths, p.subdomain, p.httpUser, p.httpPassword,
          p.hostHeaderRewrite, p.secretKey, users, p.multiplexer, metas, c.user, c.token>>
  BY <1>6, Zenon DEF PartTexts
<1>8. PartTexts(r, c) =
        <<r.name, port, other, paths, r.subdomain, p.httpUser, p.httpPassword,
          p.hostHeaderRewrite, p.secretKey, users, p.multiplexer, metas, c.user, c.token>>
  BY <1>6, Zenon DEF PartTexts, IsRenamed
<1>9. ASSUME NEW i \in 1 .. 14
      PROVE  PartTexts(r, c)[i] =
               IF PartTexts(p, c)[i] = NoText THEN NoText
               ELSE RenamedValue(<<Flags[i]>>, PartTexts(p, c)[i], prefix)
  <2>1. i \notin {1, 3, 5} => <<Flags[i]>> \notin Naming
    BY NumbersTo14 DEF Flags, Naming, NameFlags, DomainFlag
  <2>2. CASE i = 1
    <3>1. Flags[i] = "--proxy-name"
      BY <2>2 DEF Flags
    <3>2. PartTexts(r, c)[i] = r.name /\ PartTexts(p, c)[i] = p.name
      BY <1>7, <1>8, <2>2
    <3> QED
      BY <1>2, <3>1, <3>2
  <2>3. CASE i = 3
    <3>1. Flags[i] = "--custom-domain"
      BY <2>3 DEF Flags
    <3>2. PartTexts(r, c)[i] = other /\ PartTexts(p, c)[i] = domains
      BY <1>7, <1>8, <2>3
    <3> QED
      BY <1>4, <1>6, <3>1, <3>2
  <2>4. CASE i = 5
    <3>1. Flags[i] = "--sd"
      BY <2>4 DEF Flags
    <3>2. PartTexts(r, c)[i] = r.subdomain /\ PartTexts(p, c)[i] = p.subdomain
      BY <1>7, <1>8, <2>4
    <3> QED
      BY <1>3, <3>1, <3>2
  <2>5. CASE i \notin {1, 3, 5}
    <3>1. PartTexts(r, c)[i] = PartTexts(p, c)[i]
      BY <1>7, <1>8, <2>5, NumbersTo14
    <3> QED
      BY <1>5, <2>1, <2>5, <3>1
  <2> QED
    BY <2>2, <2>3, <2>4, <2>5
<1>10. ASSUME NEW flag \in FlagNames
       PROVE  Values(r, c)[flag] =
                IF Values(p, c)[flag] = NoText THEN NoText
                ELSE RenamedValue(<<flag>>, Values(p, c)[flag], prefix)
  <2>1. PICK i \in 1 .. 14 : flag = Flags[i]
    BY DEF FlagNames
  <2>2. Values(r, c)[flag] = PartTexts(r, c)[i] /\ Values(p, c)[flag] = PartTexts(p, c)[i]
    BY <2>1, ValueOfFlag
  <2> QED
    BY <1>9, <2>1, <2>2
<1>11. Values(r, c) = [flag \in FlagNames |-> Values(r, c)[flag]]
  BY DEF Values
<1> QED
  BY <1>10, <1>11 DEF RenamedValues

(* No prefix begins a name of the proxy, and no value of another flag is   *)
(* one of the flags that name it.                                          *)
NoPrefixes(p) ==
  /\ Stripped(p.name) /\ Stripped(p.subdomain)
  /\ \A i \in DOMAIN p.customDomains : Stripped(p.customDomains[i])

OthersNameNothing(p, c) ==
  /\ <<p.type>> \notin Naming
  /\ \A i \in DOMAIN Arguments(p, c) :
       <<Arguments(p, c)[i][1]>> \notin Naming => Arguments(p, c)[i][2] \notin Naming

(* The candidate of a proxy is the payload of the proxy under the other    *)
(* name, unless a value looks like a flag that names it.                   *)
LEMMA CandidateOfProxy ==
  ASSUME NEW P, Space \in P, ExPieces \subseteq P, NEW Q, Q = Without(P, Space),
         NEW p, NEW c, PlainlySent(p, c, Q), NEW r, NEW prefix \in ExPieces,
         IsRenamed(r, p, prefix), p.name # NoText, NoPrefixes(p), OthersNameNothing(p, c)
  PROVE  ApplyRenamePrefix(GenExtra(p, c), prefix) = GenExtra(r, c)
<1>0. /\ <<p.type>> \notin Naming /\ Stripped(p.name) /\ Stripped(p.subdomain)
      /\ \A i \in DOMAIN p.customDomains : Stripped(p.customDomains[i])
      /\ \A i \in DOMAIN Arguments(p, c) :
           <<Arguments(p, c)[i][1]>> \notin Naming => Arguments(p, c)[i][2] \notin Naming
  BY DEF NoPrefixes, OthersNameNothing
<1>1. prefix \in Q /\ Comma \in P /\ Comma \in Q /\ FlagNames \subseteq Q /\ p.type \in Q
  BY ExPiecesSeparateNothing DEF Without, PlainlySent, SentPieces
<1>2. PICK value \in [FlagNames -> Seq(Q)] : value = Values(p, c)
  BY PlainlySentArguments
<1>3. Arguments(p, c) = Given(value) /\ GenExtra(p, c) = Payload(p.type, Given(value))
  BY <1>2, PlainlySentArguments
<1>4. ASSUME NEW flag \in FlagNames, <<flag>> \notin Naming PROVE value[flag] \notin Naming
  <2>1. CASE value[flag] = NoText
    BY <2>1 DEF Naming, NameFlags, DomainFlag, NoText
  <2>2. CASE value[flag] # NoText
    <3>1. <<flag, value[flag]>> \in Range(Given(value))
      BY <1>1, <2>2, GivenType
    <3>2. PICK i \in DOMAIN Arguments(p, c) : Arguments(p, c)[i] = <<flag, value[flag]>>
      BY <1>3, <3>1 DEF Range
    <3> QED
      BY <1>0, <1>4, <3>2
  <2> QED
    BY <2>1, <2>2
<1>5. ApplyRenamePrefix(Payload(p.type, Given(value)), prefix)
        = Payload(p.type, Given(RenamedValues(value, prefix)))
  <2>1. PICK type \in Q : type = p.type
    BY <1>1
  <2>2. NoneNames(type, value)
    BY <1>0, <1>4, <2>1 DEF NoneNames
  <2>3. ApplyRenamePrefix(Payload(type, Given(value)), prefix)
          = Payload(type, Given(RenamedValues(value, prefix)))
    BY <1>1, <2>2, RenameOfGiven
  <2> QED
    BY <2>1, <2>3
<1>6. Values(r, c) = RenamedValues(value, prefix)
  BY <1>0, <1>1, <1>2, RenamedProxyValues
<1>7. PlainlySent(r, c, Q)
  <2>1. r.name \in Seq(Q) /\ r.subdomain \in Seq(Q)
    BY <1>1 DEF IsRenamed, PlainlySent, SentPieces, NoText
  <2>2. UnderPrefix(p.customDomains, prefix) \in Seq(Solid(Without(Q, Comma)))
    <3>1. prefix \in Without(Q, Comma)
      BY <1>1, ExPiecesSeparateNothing DEF Without
    <3>2. PICK domains \in Seq(Solid(Without(Q, Comma))) : domains = p.customDomains
      BY DEF PlainlySent
    <3>3. Len(domains) \in Nat /\ DOMAIN domains = 1 .. Len(domains)
      OBVIOUS
    <3>4. ASSUME NEW i \in DOMAIN domains
          PROVE  <<prefix>> \o domains[i] \in Solid(Without(Q, Comma))
      <4>1. PICK text \in Seq(Without(Q, Comma)) : text = domains[i]
        BY DEF Solid
      <4>2. <<prefix>> \o text \in Seq(Without(Q, Comma)) /\ <<prefix>> \o text # << >>
        BY <3>1
      <4> QED
        BY <4>1, <4>2 DEF Solid
    <3>5. PICK S : S = Solid(Without(Q, Comma))
      OBVIOUS
    <3>6. UnderPrefix(domains, prefix) \in [1 .. Len(domains) -> S]
      BY <3>3, <3>4, <3>5 DEF UnderPrefix
    <3>7. UnderPrefix(domains, prefix) \in Seq(S)
      BY <3>3, <3>6
    <3> QED
      BY <3>2, <3>5, <3>7
  <2>3. r.customDomains \in Seq(Solid(Without(Q, Comma))) /\ r.customDomains \in Texts(Q)
    <3>1. Seq(Solid(Without(Q, Comma))) \subseteq Texts(Q)
      BY SolidIsText, WithoutIsSubset
    <3> QED
      BY <2>2, <3>1 DEF IsRenamed
  <2> QED
    BY <2>1, <2>3, Zenon DEF PlainlySent, SentPieces, IsRenamed
<1>8. GenExtra(r, c) = Payload(r.type, Given(Values(r, c)))
  BY <1>7, PlainlySentArguments
<1> QED
  BY <1>3, <1>5, <1>6, <1>8 DEF IsRenamed

-----------------------------------------------------------------------------
(* What frps reads back *)

LEMMA ValuesByName ==
  ASSUME NEW p, NEW c
  PROVE  /\ Values(p, c)["--proxy-name"] = p.name
         /\ Values(p, c)["--remote-port"] =
              IF p.type = "tcp" /\ p.remotePort # 0 THEN <<ToString(p.remotePort)>> ELSE NoText
         /\ Values(p, c)["--custom-domain"] = JoinWith(p.customDomains, Comma)
         /\ Values(p, c)["--locations"] = JoinWith(p.locations, Comma)
         /\ Values(p, c)["--sd"] = p.subdomain
         /\ Values(p, c)["--http-user"] = p.httpUser
         /\ Values(p, c)["--http-pwd"] = p.httpPassword
         /\ Values(p, c)["--host-header-rewrite"] = p.hostHeaderRewrite
         /\ Values(p, c)["--sk"] = p.secretKey
         /\ Values(p, c)["--allow-users"] = JoinWith(p.allowUsers, Comma)
         /\ Values(p, c)["--mux"] = p.multiplexer
         /\ Values(p, c)["--metadatas"] =
              IF c.metadatasEnabled THEN MetaText(p.metadatas) ELSE NoText
         /\ Values(p, c)["--user"] = c.user
         /\ Values(p, c)["--token"] = c.token
<1>1. /\ 1 \in 1 .. 14 /\ 2 \in 1 .. 14 /\ 3 \in 1 .. 14 /\ 4 \in 1 .. 14 /\ 5 \in 1 .. 14
      /\ 6 \in 1 .. 14 /\ 7 \in 1 .. 14 /\ 8 \in 1 .. 14 /\ 9 \in 1 .. 14 /\ 10 \in 1 .. 14
      /\ 11 \in 1 .. 14 /\ 12 \in 1 .. 14 /\ 13 \in 1 .. 14 /\ 14 \in 1 .. 14
  OBVIOUS
<1>2. PICK f : f = Flags
  OBVIOUS
<1>3. /\ f[1] = "--proxy-name" /\ f[2] = "--remote-port" /\ f[3] = "--custom-domain"
      /\ f[4] = "--locations" /\ f[5] = "--sd" /\ f[6] = "--http-user" /\ f[7] = "--http-pwd"
      /\ f[8] = "--host-header-rewrite" /\ f[9] = "--sk" /\ f[10] = "--allow-users"
      /\ f[11] = "--mux" /\ f[12] = "--metadatas" /\ f[13] = "--user" /\ f[14] = "--token"
  BY <1>2 DEF Flags
<1>4. \A i \in 1 .. 14 : Values(p, c)[f[i]] = PartTexts(p, c)[i]
  BY <1>2, ValueOfFlag
<1>5. PICK port, domains, paths, users, metas :
        /\ port = (IF p.type = "tcp" /\ p.remotePort # 0
                   THEN <<ToString(p.remotePort)>> ELSE NoText)
        /\ domains = JoinWith(p.customDomains, Comma)
        /\ paths = JoinWith(p.locations, Comma) /\ users = JoinWith(p.allowUsers, Comma)
        /\ metas = (IF c.metadatasEnabled THEN MetaText(p.metadatas) ELSE NoText)
  OBVIOUS
<1>6. PICK t : /\ t = PartTexts(p, c)
               /\ t = <<p.name, port, domains, paths, p.subdomain, p.httpUser, p.httpPassword,
                        p.hostHeaderRewrite, p.secretKey, users, p.multiplexer, metas,
                        c.user, c.token>>
  BY <1>5, Zenon DEF PartTexts
<1>7. /\ t[1] = p.name /\ t[2] = port /\ t[3] = domains /\ t[4] = paths /\ t[5] = p.subdomain
      /\ t[6] = p.httpUser /\ t[7] = p.httpPassword /\ t[8] = p.hostHeaderRewrite
      /\ t[9] = p.secretKey /\ t[10] = users /\ t[11] = p.multiplexer /\ t[12] = metas
      /\ t[13] = c.user /\ t[14] = c.token
  BY <1>6
<1>8. PICK v : v = Values(p, c)
  OBVIOUS
<1>9. \A i \in 1 .. 14 : v[f[i]] = t[i]
  BY <1>4, <1>6, <1>8
<1>10. /\ v[f[1]] = t[1] /\ v[f[2]] = t[2]
       /\ v[f[3]] = t[3] /\ v[f[4]] = t[4]
       /\ v[f[5]] = t[5] /\ v[f[6]] = t[6]
       /\ v[f[7]] = t[7] /\ v[f[8]] = t[8]
       /\ v[f[9]] = t[9] /\ v[f[10]] = t[10]
       /\ v[f[11]] = t[11] /\ v[f[12]] = t[12]
       /\ v[f[13]] = t[13] /\ v[f[14]] = t[14]
  BY <1>1, <1>9, Zenon
<1> QED
  BY <1>3, <1>5, <1>7, <1>8, <1>10

(* An empty list has no text.                                              *)
ReadList(text) == IF text = NoText THEN << >> ELSE Split(text, Comma)

LEMMA ListIsRead ==
  ASSUME NEW Q, Comma \in Q, NEW texts \in Seq(Solid(Without(Q, Comma)))
  PROVE  ReadList(JoinWith(texts, Comma)) = texts
<1>1. CASE texts = << >>
  BY <1>1, JoinNothing DEF ReadList
<1>2. CASE texts # << >>
  <2>1. texts \in Texts(Without(Q, Comma)) /\ texts \in Seq(Solid(Q))
    <3>1. Solid(Without(Q, Comma)) \subseteq Solid(Q)
      BY WithoutIsSubset DEF Solid
    <3> QED
      BY <3>1, SolidIsText, SeqMonotonic
  <2>2. JoinWith(texts, Comma) # NoText
    BY <1>2, <2>1, JoinOfSolid DEF Solid, NoText
  <2> QED
    BY <1>2, <2>1, <2>2, JoinThenSplit DEF ReadList
<1> QED
  BY <1>1, <1>2

(* Each of the metadatas is read back, if none has a comma.                *)
LEMMA MetadatasAreRead ==
  ASSUME NEW Q, Comma \in Q, "=" \in Q, NEW metadatas,
         DOMAIN metadatas \subseteq ToSet(MetaKeys),
         \A key \in DOMAIN metadatas :
           key \in Without(Q, Comma) /\ metadatas[key] \in Seq(Without(Q, Comma))
  PROVE  ToSet(ReadList(MetaText(metadatas))) =
           {<<key, "=">> \o metadatas[key] : key \in DOMAIN metadatas}
<1>1. PICK R : R = Without(Q, Comma)
  OBVIOUS
<1>2. "=" \in R
  BY <1>1 DEF Without, Comma
<1>3. PICK keys \in Seq(STRING) :
           /\ ToSet(keys) = ToSet(MetaKeys) \cap DOMAIN metadatas
           /\ MetaTexts(metadatas, keys) \in Seq(Solid(R))
           /\ Len(MetaTexts(metadatas, keys)) = Len(keys)
           /\ MetaText(metadatas) = JoinWith(MetaTexts(metadatas, keys), Comma)
  BY <1>1, <1>2, MetaTextsType
<1>4. PICK texts \in Seq(Solid(R)) : texts = MetaTexts(metadatas, keys)
  BY <1>3
<1>5. ReadList(MetaText(metadatas)) = texts
  BY <1>1, <1>3, <1>4, ListIsRead
<1>6. DOMAIN texts = DOMAIN keys /\ \A i \in DOMAIN keys : texts[i] = <<keys[i], "=">> \o metadatas[keys[i]]
  BY <1>4 DEF MetaTexts
<1>7. ToSet(keys) = DOMAIN metadatas
  BY <1>3
<1>8. ToSet(texts) = {<<key, "=">> \o metadatas[key] : key \in ToSet(keys)}
  <2> DEFINE entry(key) == <<key, "=">> \o metadatas[key]
  <2>1. \A i \in DOMAIN texts : i \in DOMAIN keys /\ texts[i] = entry(keys[i])
    BY <1>6
  <2>2. DOMAIN texts = DOMAIN keys
    BY <1>6
  <2> HIDE DEF entry
  <2>3. ToSet(texts) = {entry(key) : key \in ToSet(keys)}
    BY <2>1, <2>2 DEF ToSet
  <2> QED
    BY <2>3 DEF entry
<1> QED
  BY <1>5, <1>7, <1>8

-----------------------------------------------------------------------------
(* The words of a command line *)

Reading(command) == FoldLeft(ReadsPiece, Between(<< >>), command)

(* q gives what has been read at each place of a command line.             *)
ReadsInSteps(q, command) ==
  /\ q[0] = Between(<< >>)
  /\ \A k \in 1 .. Len(command) : q[k] = ReadsPiece(q[k - 1], command[k])
  /\ Reading(command) = q[Len(command)]

(* What shell_words knows while it is in no quotes.                        *)
Reader(P) ==
  [words : Texts(P), current : Seq(P), hasWord : BOOLEAN, quote : {Space}]

LEMMA ReaderType ==
  ASSUME NEW P, P \cap Quotes = {}, NEW s \in Reader(P), NEW ch \in P
  PROVE  /\ Between(<< >>) \in Reader(P) /\ EndsWord(s) \in Reader(P)
         /\ ReadsPiece(s, ch) \in Reader(P)
         /\ ch = Space => ReadsPiece(s, ch) = EndsWord(s)
         /\ ch # Space => /\ ReadsPiece(s, ch).words = s.words
                         /\ ReadsPiece(s, ch).current = Append(s.current, ch)
                         /\ ReadsPiece(s, ch).hasWord
<1>1. /\ s.words \in Seq(Seq(P)) /\ s.current \in Seq(P) /\ s.hasWord \in BOOLEAN
      /\ s.quote = Space /\ DOMAIN s = {"words", "current", "hasWord", "quote"}
  BY DEF Reader, Texts
<1>2. \A words \in Seq(Seq(P)) : Between(words) \in Reader(P)
  BY DEF Between, Reader, Texts, NoText
<1>3. EndsWord(s) \in Reader(P)
  <2>1. Append(s.words, s.current) \in Seq(Seq(P))
    BY <1>1
  <2> QED
    BY <1>1, <1>2, <2>1 DEF EndsWord
<1>4. ReadsPiece(s, ch) = IF ch = Space THEN EndsWord(s)
                          ELSE [s EXCEPT !.current = Append(s.current, ch), !.hasWord = TRUE]
  <2>1. ch \notin Quotes
    OBVIOUS
  <2> QED
    BY <1>1, <2>1, Zenon DEF ReadsPiece
<1>5. ASSUME NEW longer \in Seq(P)
      PROVE  LET next == [s EXCEPT !.current = longer, !.hasWord = TRUE]
             IN  /\ next \in Reader(P) /\ next.words = s.words /\ next.current = longer
                 /\ next.hasWord
  BY <1>1 DEF Reader, Texts
<1>6. Append(s.current, ch) \in Seq(P)
  BY <1>1
<1>7. << >> \in Seq(Seq(P))
  OBVIOUS
<1>8. CASE ch = Space
  BY <1>2, <1>3, <1>4, <1>7, <1>8
<1>9. CASE ch # Space
  <2>1. PICK longer \in Seq(P) : longer = Append(s.current, ch)
    BY <1>6
  <2> QED
    BY <1>2, <1>3, <1>4, <1>5, <1>7, <1>9, <2>1
<1> QED
  BY <1>8, <1>9

(* shell_words goes through its command line piece by piece.               *)
LEMMA ReadingRun ==
  ASSUME NEW P, P \cap Quotes = {}, NEW command \in Seq(P)
  PROVE  \E q : ReadsInSteps(q, command)
<1> DEFINE n == Len(command)
           S == Reader(P)
           step == [x \in (1 .. n) \X S |-> ReadsPiece(x[2], command[x[1]])]
           States(iter) ==
             iter = [s \in SUBSET DOMAIN command |->
                       IF s = {} THEN Between(<< >>)
                       ELSE ReadsPiece(iter[s \ {Max(s)}], command[Max(s)])]
           c == CHOOSE iter : States(iter)
<1>1. n \in Nat /\ DOMAIN command = 1 .. n /\ \A i \in 1 .. n : command[i] \in P
  OBVIOUS
<1>2. step \in [(1 .. n) \X S -> S]
  <2>1. \A i \in 1 .. n, r \in S : ReadsPiece(r, command[i]) \in S
    BY <1>1, ReaderType
  <2>2. \A x \in (1 .. n) \X S : x[1] \in 1 .. n /\ x[2] \in S
    OBVIOUS
  <2> HIDE DEF S, n
  <2> QED
    BY <2>1, <2>2
<1>3. Between(<< >>) \in S
  BY DEF Between, Reader, NoText, Texts
<1>4. \E iter : States(iter)
  <2>1. PICK iter \in [SUBSET (1 .. n) -> S] : IsFold(iter, n, Between(<< >>), step)
    <3> HIDE DEF step, S, n
    <3> QED
      BY <1>1, <1>2, <1>3, FoldExists
  <2>2. ASSUME NEW s \in SUBSET (1 .. n), s # {}
        PROVE  step[<<Max(s), iter[s \ {Max(s)}]>>]
                 = ReadsPiece(iter[s \ {Max(s)}], command[Max(s)])
    <3>1. Max(s) \in 1 .. n /\ s \ {Max(s)} \in SUBSET (1 .. n)
      <4> HIDE DEF n
      <4> QED
        BY <1>1, <2>2, MaxOfSome
    <3>2. iter[s \ {Max(s)}] \in S
      BY <2>1, <3>1
    <3> HIDE DEF S, n
    <3> QED
      BY <3>1, <3>2
  <2>3. States(iter)
    <3> HIDE DEF S, n, step
    <3> QED
      BY <1>1, <2>1, <2>2 DEF IsFold
  <2> QED
    BY <2>3
<1>5. States(c)
  <2> HIDE DEF States
  <2> QED
    BY <1>4
<1>6. Reading(command) = c[DOMAIN command]
  BY Zenon DEF Reading, FoldLeft, MapThenFoldSet
<1> DEFINE q == [k \in 0 .. n |-> c[1 .. k]]
<1> HIDE DEF c
<1>7. q[0] = Between(<< >>)
  <2>1. 1 .. 0 = {} /\ {} \in SUBSET DOMAIN command /\ 0 \in 0 .. n
    BY <1>1
  <2>2. c[{}] = Between(<< >>)
    BY <1>5, <2>1
  <2> HIDE DEF States, n
  <2> QED
    BY <2>1, <2>2
<1>8. ASSUME NEW k \in 1 .. n PROVE q[k] = ReadsPiece(q[k - 1], command[k])
  <2>1. /\ Max(1 .. k) = k /\ (1 .. k) \ {k} = 1 .. (k - 1)
        /\ 1 .. k \in SUBSET DOMAIN command /\ 1 .. k # {}
        /\ k \in 0 .. n /\ k - 1 \in 0 .. n
    BY <1>1, MaxOfInitial
  <2>2. c[1 .. k] = ReadsPiece(c[(1 .. k) \ {Max(1 .. k)}], command[Max(1 .. k)])
    BY <1>5, <2>1
  <2> HIDE DEF States, n
  <2> QED
    BY <2>1, <2>2
<1>9. Reading(command) = q[n]
  <2> HIDE DEF States
  <2> QED
    BY <1>1, <1>6
<1> HIDE DEF q
<1>10. ReadsInSteps(q, command)
  BY <1>7, <1>8, <1>9 DEF ReadsInSteps
<1> QED
  BY <1>10

LEMMA ReadingOneMore ==
  ASSUME NEW P, P \cap Quotes = {}, NEW command \in Seq(P), NEW ch \in P
  PROVE  /\ Reading(<< >>) = Between(<< >>)
         /\ Reading(Append(command, ch)) = ReadsPiece(Reading(command), ch)
<1> DEFINE longer == Append(command, ch)
<1>0. Reading(<< >>) = Between(<< >>)
  <2>1. << >> \in Seq(P) /\ Len(<< >>) = 0
    OBVIOUS
  <2>2. PICK q : ReadsInSteps(q, << >>)
    BY <2>1, ReadingRun
  <2> QED
    BY <2>1, <2>2 DEF ReadsInSteps
<1>1. /\ longer \in Seq(P) /\ Len(longer) = Len(command) + 1 /\ Len(command) \in Nat
      /\ longer[Len(command) + 1] = ch
      /\ \A k \in 1 .. Len(command) : longer[k] = command[k] /\ k \in 1 .. Len(longer)
      /\ Len(command) + 1 \in 1 .. Len(longer)
  OBVIOUS
<1> HIDE DEF longer
<1>2. PICK q : ReadsInSteps(q, command)
  BY ReadingRun
<1>3. PICK r : ReadsInSteps(r, longer)
  BY <1>1, ReadingRun
<1>4. SameSteps(q, r, Len(command))
  BY <1>1, <1>2, <1>3 DEF ReadsInSteps, SameSteps
<1>5. q[Len(command)] = r[Len(command)]
  BY <1>1, <1>4, RunsAgree
<1>6. r[Len(longer)] = ReadsPiece(r[Len(command)], ch)
  BY <1>1, <1>3 DEF ReadsInSteps
<1> QED
  BY <1>0, <1>2, <1>3, <1>5, <1>6 DEF longer, ReadsInSteps

(* What is read of a command line whose parts are these.                   *)
ReadAs(P, command, head, last) ==
  /\ Split(command, Space) = Append(head, last)
  /\ Reading(command) \in Reader(P)
  /\ Reading(command).words = NonEmpty(head) /\ Reading(command).current = last
  /\ Reading(command).hasWord <=> last # NoText

LEMMA EndOfWord ==
  ASSUME NEW P, NEW command, NEW head, NEW last, ReadAs(P, command, head, last)
  PROVE  EndsWord(Reading(command)) = Between(Kept(NonEmpty(head), last))
<1>1. PICK s : s = Reading(command)
  OBVIOUS
<1>2. s.words = NonEmpty(head) /\ s.current = last /\ (s.hasWord <=> last # NoText)
  BY <1>1 DEF ReadAs
<1>3. EndsWord(s) = Between(IF s.hasWord \/ s.current # NoText
                           THEN Append(s.words, s.current) ELSE s.words)
  BY Zenon DEF EndsWord
<1>4. CASE last = NoText
  BY <1>1, <1>2, <1>3, <1>4 DEF Kept
<1>5. CASE last # NoText
  BY <1>1, <1>2, <1>3, <1>5 DEF Kept
<1> QED
  BY <1>4, <1>5

(* Where there are no quotes, shell_words is split_whitespace.             *)
LEMMA ShellWordsAreWords ==
  ASSUME NEW P, P \cap Quotes = {}, NEW command \in Seq(P)
  PROVE  ShellWords(command) = Words(command)
<1> DEFINE T == {t \in Seq(P) : \E head \in Texts(P), last \in Seq(P) : ReadAs(P, t, head, last)}
<1>1. << >> \in T
  <2>1. << >> \in Seq(P) /\ << >> \in Texts(P) /\ Append(<< >>, NoText) = <<NoText>>
    BY DEF Texts
  <2>2. Reading(<< >>) = Between(<< >>)
    <3>1. PICK q : ReadsInSteps(q, << >>)
      BY <2>1, ReadingRun
    <3> QED
      BY <3>1 DEF ReadsInSteps
  <2>3. ReadAs(P, << >>, << >>, << >>)
    <3>1. Between(<< >>) \in Reader(P)
      BY DEF Between, Reader, NoText, Texts
    <3>2. /\ Between(<< >>).words = << >> /\ Between(<< >>).current = << >>
          /\ ~Between(<< >>).hasWord
      BY DEF Between, NoText
    <3>3. Split(<< >>, Space) = Append(<< >>, << >>)
      BY <2>1, SplitNothing DEF NoText
    <3> QED
      BY <2>2, <3>1, <3>2, <3>3, NonEmptyNothing DEF ReadAs, NoText
  <2> QED
    BY <2>1, <2>3
<1>2. ASSUME NEW t \in Seq(P), NEW ch \in P, t \in T PROVE Append(t, ch) \in T
  <2>1. PICK head \in Texts(P), last \in Seq(P) : ReadAs(P, t, head, last)
    BY <1>2
  <2>2. /\ Split(Append(t, ch), Space) = Added(Append(head, last), ch, Space)
        /\ Reading(Append(t, ch)) = ReadsPiece(Reading(t), ch)
    BY <2>1, SplitOneMore, ReadingOneMore DEF ReadAs
  <2>3. NonEmpty(head) \in Texts(P)
    <3>1. NonEmpty(head) \in Seq(Solid(P))
      BY NonEmptyType
    <3> QED
      BY <3>1, SolidIsText
  <2>4. Reading(t) \in Reader(P) /\ ReadsPiece(Reading(t), ch) \in Reader(P)
    BY <2>1, ReaderType DEF ReadAs
  <2>5. Append(t, ch) \in Seq(P)
    OBVIOUS
  <2>6. CASE ch = Space
    <3>1. Append(head, last) \in Texts(P) /\ << >> \in Seq(P)
      BY DEF Texts
    <3>2. NonEmpty(Append(head, last)) = Kept(NonEmpty(head), last)
      BY NonEmptyOneMore
    <3>3. ReadsPiece(Reading(t), ch) = EndsWord(Reading(t))
      BY <2>4, <2>6, ReaderType
    <3>4. EndsWord(Reading(t)) = Between(Kept(NonEmpty(head), last))
      BY <2>1, EndOfWord
    <3>5. ReadAs(P, Append(t, ch), Append(head, last), << >>)
      BY <2>2, <2>4, <2>6, <3>2, <3>3, <3>4 DEF ReadAs, Added, Between, NoText
    <3> QED
      BY <2>5, <3>1, <3>5
  <2>7. CASE ch # Space
    <3>1. PICK next \in Seq(P) : next = Append(last, ch) /\ next # NoText
      <4>1. Append(last, ch) \in Seq(P) /\ Len(Append(last, ch)) # Len(<< >>)
        OBVIOUS
      <4> QED
        BY <4>1 DEF NoText
    <3>2. Added(Append(head, last), ch, Space) = Append(head, next)
      <4>1. PICK S : S = Seq(P)
        OBVIOUS
      <4>2. head \in Seq(S) /\ last \in S /\ next \in S
        BY <4>1 DEF Texts
      <4>3. /\ Len(Append(head, last)) = Len(head) + 1
            /\ Append(head, last)[Len(head) + 1] = last
            /\ [Append(head, last) EXCEPT ![Len(head) + 1] = next] = Append(head, next)
        BY <4>2, ReplaceAppended
      <4> QED
        BY <2>7, <3>1, <4>3 DEF Added
    <3>3. PICK s \in Reader(P) : /\ s = ReadsPiece(Reading(t), ch)
                               /\ s.words = NonEmpty(head) /\ s.current = next /\ s.hasWord
      <4>1. PICK r \in Reader(P) : r = Reading(t)
        BY <2>4
      <4>2. /\ ReadsPiece(r, ch).words = r.words
            /\ ReadsPiece(r, ch).current = Append(r.current, ch)
            /\ ReadsPiece(r, ch).hasWord
        BY <2>7, ReaderType
      <4>3. r.words = NonEmpty(head) /\ r.current = last
        BY <2>1, <4>1 DEF ReadAs
      <4> QED
        BY <2>4, <3>1, <4>1, <4>2, <4>3
    <3>4. ReadAs(P, Append(t, ch), head, next)
      BY <2>2, <3>1, <3>2, <3>3 DEF ReadAs
    <3> QED
      BY <2>5, <3>4
  <2> QED
    BY <2>6, <2>7
<1>3. Seq(P) \subseteq T
  <2> HIDE DEF T
  <2> QED
    BY <1>1, <1>2, SequenceInduction
<1>4. PICK head \in Texts(P), last \in Seq(P) : ReadAs(P, command, head, last)
  BY <1>3
<1>5. ShellWords(command) = Kept(NonEmpty(head), last)
  <2>1. EndsWord(Reading(command)) = Between(Kept(NonEmpty(head), last))
    BY <1>4, EndOfWord
  <2>2. ShellWords(command) = EndsWord(Reading(command)).words
    BY Zenon DEF ShellWords, Reading
  <2> QED
    BY <2>1, <2>2 DEF Between
<1>6. Words(command) = Kept(NonEmpty(head), last)
  BY <1>4, NonEmptyOneMore DEF ReadAs, Words
<1> QED
  BY <1>5, <1>6

LEMMA ConcatType == ASSUME NEW P, NEW a \in Seq(P), NEW b \in Seq(P) PROVE a \o b \in Seq(P)
OBVIOUS

Associates(a, b, c) == (a \o b) \o c = a \o (b \o c)

LEMMA Associative ==
  ASSUME NEW P, NEW a \in Seq(P), NEW b \in Seq(P), NEW c \in Seq(P)
  PROVE  Associates(a, b, c)
<1>1. PICK ab \in Seq(P) : ab = a \o b
  BY ConcatType
<1> DEFINE T == {t \in Seq(P) : ab \o t = a \o (b \o t)}
<1>2. << >> \in T
  <2>1. << >> \in Seq(P) /\ ab \o << >> = ab /\ b \o << >> = b
    OBVIOUS
  <2> QED
    BY <1>1, <2>1
<1>3. ASSUME NEW t \in Seq(P), NEW e \in P, t \in T PROVE Append(t, e) \in T
  <2>1. ab \o Append(t, e) = Append(ab \o t, e)
    BY ConcatAppend
  <2>2. b \o Append(t, e) = Append(b \o t, e)
    BY ConcatAppend
  <2>3. PICK bt \in Seq(P) : bt = b \o t
    BY ConcatType
  <2>4. a \o Append(bt, e) = Append(a \o bt, e)
    BY ConcatAppend
  <2>5. Append(t, e) \in Seq(P)
    OBVIOUS
  <2> QED
    BY <1>3, <2>1, <2>2, <2>3, <2>4, <2>5
<1>4. Seq(P) \subseteq T
  <2> HIDE DEF T
  <2> QED
    BY <1>2, <1>3, SequenceInduction
<1> QED
  BY <1>1, <1>4 DEF Associates

Separated(a, b, e, c) == Append(a \o b, e) \o c = a \o (Append(b, e) \o c)

LEMMA SeparatedTexts ==
  ASSUME NEW P, NEW a \in Seq(P), NEW b \in Seq(P), NEW c \in Seq(P), NEW e \in P
  PROVE  Separated(a, b, e, c)
<1>1. a \o Append(b, e) = Append(a \o b, e)
  BY ConcatAppend
<1>2. Append(b, e) \in Seq(P)
  OBVIOUS
<1>3. PICK d \in Seq(P) : d = Append(b, e)
  BY <1>2
<1>4. Associates(a, d, c)
  BY Associative
<1> QED
  BY <1>1, <1>3, <1>4 DEF Associates, Separated

(* Two lists joined by a separator.                                        *)
LEMMA JoinConcat ==
  ASSUME NEW P, NEW separator \in P, NEW head \in Texts(P), head # << >>,
         NEW tail \in Texts(P), tail # << >>
  PROVE  JoinWith(head \o tail, separator)
           = Append(JoinWith(head, separator), separator) \o JoinWith(tail, separator)
<1> DEFINE first == Append(JoinWith(head, separator), separator)
           Joined(t) == JoinWith(head \o t, separator) = first \o JoinWith(t, separator)
           T == {t \in Texts(P) : t # << >> => Joined(t)}
<1>1. << >> \in T
  BY DEF Texts
<1>2. ASSUME NEW t \in Texts(P), NEW text \in Seq(P), t \in T PROVE Append(t, text) \in T
  <2>1. Append(t, text) \in Texts(P)
    BY OneMore
  <2>2. PICK both \in Texts(P) : both = head \o t /\ both # << >>
    <3>1. PICK S : S = Seq(P)
      OBVIOUS
    <3>2. head \in Seq(S) /\ t \in Seq(S)
      BY <3>1 DEF Texts
    <3>3. head \o t \in Seq(S) /\ head \o t # << >>
      BY <3>2
    <3> QED
      BY <3>1, <3>3 DEF Texts
  <2>3. head \o Append(t, text) = Append(both, text)
    <3>1. PICK S : S = Seq(P)
      OBVIOUS
    <3>2. head \in Seq(S) /\ t \in Seq(S) /\ text \in S
      BY <3>1 DEF Texts
    <3> QED
      BY <2>2, <3>2, ConcatAppend
  <2>4. JoinWith(Append(both, text), separator)
          = Append(JoinWith(both, separator), separator) \o text
    BY <2>2, JoinOneMore
  <2>5. JoinWith(head, separator) \in Seq(P) /\ JoinWith(t, separator) \in Seq(P)
    BY JoinType
  <2>6. CASE t = << >>
    <3>1. both = head
      <4>1. PICK S : S = Seq(P)
        OBVIOUS
      <4>2. head \in Seq(S)
        BY <4>1 DEF Texts
      <4> QED
        BY <2>2, <2>6, <4>2, ConcatEmptySeq
    <3>2. JoinWith(Append(t, text), separator) = text
      BY <2>6, JoinOneMore
    <3>3. Joined(Append(t, text))
      BY <2>3, <2>4, <3>1, <3>2
    <3> QED
      BY <2>1, <3>3
  <2>7. CASE t # << >>
    <3>1. JoinWith(Append(t, text), separator)
            = Append(JoinWith(t, separator), separator) \o text
      BY <2>7, JoinOneMore
    <3>2. JoinWith(both, separator) = first \o JoinWith(t, separator)
      BY <1>2, <2>2, <2>7
    <3>3. first \in Seq(P)
      <4>1. PICK joined \in Seq(P) : joined = JoinWith(head, separator)
        BY <2>5
      <4>2. Append(joined, separator) \in Seq(P)
        OBVIOUS
      <4> QED
        BY <4>1, <4>2
    <3>4. PICK a \in Seq(P), b \in Seq(P) :
            /\ a = first /\ b = JoinWith(t, separator)
            /\ Append(a \o b, separator) \o text = a \o (Append(b, separator) \o text)
      <4> HIDE DEF first, T
      <4>1. PICK a \in Seq(P), b \in Seq(P) : a = first /\ b = JoinWith(t, separator)
        BY <2>5, <3>3
      <4>2. Separated(a, b, separator, text)
        BY SeparatedTexts
      <4> QED
        BY <4>1, <4>2 DEF Separated
    <3>5. Joined(Append(t, text))
      <4> HIDE DEF first
      <4> QED
        BY <2>3, <2>4, <3>1, <3>2, <3>4
    <3> QED
      BY <2>1, <3>5
  <2> QED
    BY <2>6, <2>7
<1>3. Texts(P) \subseteq T
  <2>1. PICK S : S = Seq(P)
    OBVIOUS
  <2>2. \A t \in Seq(S), e \in S : t \in T => Append(t, e) \in T
    BY <1>2, <2>1 DEF Texts
  <2> HIDE DEF T
  <2> QED
    BY <1>1, <2>1, <2>2, SequenceInduction DEF Texts
<1> QED
  BY <1>3

SshOptions == {<<"-p">>, <<"-R">>, <<"-o">>}

IsConcat(all, head, words, W) ==
  /\ all \in Seq(W) /\ Len(all) = Len(head) + Len(words) /\ Len(words) \in Nat \ {0}
  /\ \A j \in 1 .. Len(head) : all[j] = head[j]
  /\ all[Len(head) + 1] = words[1]
  /\ SubSeq(all, Len(head) + 1, Len(all)) = words

LEMMA PartsOfConcat ==
  ASSUME NEW W, NEW head \in Seq(W), NEW words \in Seq(W), words # << >>
  PROVE  IsConcat(head \o words, head, words, W)
<1> DEFINE all == head \o words
<1>1. all \in Seq(W) /\ Len(all) = Len(head) + Len(words)
  OBVIOUS
<1>2. Len(words) \in Nat \ {0}
  OBVIOUS
<1>3. \A j \in 1 .. Len(head) : all[j] = head[j]
  OBVIOUS
<1>4. \A j \in 1 .. Len(words) : all[Len(head) + j] = words[j]
  OBVIOUS
<1>5. SubSeq(all, Len(head) + 1, Len(all)) = words
  <2>1. PICK whole \in Seq(W) : whole = all /\ Len(whole) = Len(head) + Len(words)
    BY <1>1
  <2>2. PICK n \in Nat : n = Len(head)
    OBVIOUS
  <2>3. \A j \in 1 .. Len(words) : whole[n + j] = words[j]
    BY <1>4, <2>1, <2>2
  <2>4. PICK rest \in Seq(W) : rest = SubSeq(whole, n + 1, Len(whole))
    <3>1. n + 1 \in 1 .. Len(whole) + 1 /\ Len(whole) \in (n + 1) - 1 .. Len(whole)
      BY <2>1, <2>2
    <3>2. SubSeq(whole, n + 1, Len(whole)) \in Seq(W)
      BY <3>1, SubSeqProperties
    <3> QED
      BY <3>2
  <2>5. Len(rest) = Len(words) /\ \A j \in 1 .. Len(words) : rest[j] = words[j]
    <3>1. Len(whole) = n + Len(words) /\ Len(words) \in Nat
      BY <2>1, <2>2
    <3>2. Len(rest) = Len(words)
      BY <2>4, <3>1
    <3>3. \A j \in 1 .. Len(words) : rest[j] = whole[n + j]
      BY <2>4, <3>1
    <3> QED
      BY <2>3, <3>2, <3>3
  <2>6. rest = words
    BY <2>5
  <2> QED
    BY <2>1, <2>2, <2>4, <2>6
<1> QED
  BY <1>1, <1>2, <1>3, <1>4, <1>5 DEF IsConcat

(* ssh finds the command behind its options.                               *)
LEMMA SshFindsTheCommand ==
  ASSUME NEW W, NEW head \in Seq(W), NEW words \in Seq(W), words # << >>,
         NEW n \in Nat, Len(head) = 2 * n + 4,
         \A k \in 1 .. n + 1 : head[2 * k + 1] \in SshOptions,
         words[1] \notin SshOptions
  PROVE  SshExecutes(head \o words) = JoinWith(words, Space)
<1> DEFINE all == head \o words
           options == {i \in 3 .. Len(all) :
                         \A j \in 3 .. i : j % 2 = 1 => all[j] \in SshOptions}
           last == IF options = {} THEN 2
                   ELSE CHOOSE i \in options : \A j \in options : j <= i
<1>1. /\ all \in Seq(W) /\ Len(all) = Len(head) + Len(words) /\ Len(words) \in Nat \ {0}
      /\ \A j \in 1 .. Len(head) : all[j] = head[j]
      /\ all[Len(head) + 1] = words[1]
      /\ SubSeq(all, Len(head) + 1, Len(all)) = words
  <2>1. IsConcat(head \o words, head, words, W)
    BY PartsOfConcat
  <2> QED
    BY <2>1, Zenon DEF IsConcat
<1>2. Len(head) \in options
  <2>1. ASSUME NEW j \in 3 .. Len(head), j % 2 = 1 PROVE all[j] \in SshOptions
    <3>1. PICK k \in 1 .. n + 1 : j = 2 * k + 1
      <4>1. (j - 1) \div 2 \in 1 .. n + 1 /\ j = 2 * ((j - 1) \div 2) + 1
        BY <2>1
      <4> QED
        BY <4>1
    <3>2. all[j] = head[j]
      BY <1>1
    <3> HIDE DEF all
    <3> QED
      BY <3>1, <3>2
  <2>2. Len(head) \in 3 .. Len(all)
    BY <1>1
  <2> HIDE DEF all
  <2> QED
    BY <2>1, <2>2
<1>3. ASSUME NEW i \in options PROVE i <= Len(head)
  <2> HIDE DEF all
  <2>1. CASE i > Len(head)
    <3>1. Len(head) + 1 \in 3 .. i /\ (Len(head) + 1) % 2 = 1
      BY <2>1
    <3> QED
      BY <1>1, <3>1
  <2> QED
    BY <2>1
<1>4. last = Len(head)
  <2> HIDE DEF options
  <2>1. \A i \in options : i \in Nat
    BY DEF options
  <2> QED
    BY <1>2, <1>3, <2>1
<1>5. SshExecutes(all) = JoinWith(SubSeq(all, last + 1, Len(all)), Space)
  BY Zenon DEF SshExecutes, SshOptions
<1> HIDE DEF all, last
<1> QED
  BY <1>1, <1>4, <1>5 DEF all

(* The texts joined by blanks make up this one.                            *)
Joins(P, texts, joined) ==
  texts \in Texts(P) /\ texts # << >> /\ joined \in Seq(P) /\ JoinWith(texts, Space) = joined

LEMMA JoinsOneMore ==
  ASSUME NEW P, Space \in P, NEW texts, NEW joined, Joins(P, texts, joined),
         NEW text \in Seq(P)
  PROVE  Joins(P, Append(texts, text), Append(joined, Space) \o text)
<1>1. Append(texts, text) \in Texts(P)
  BY OneMore DEF Joins
<1>2. Append(texts, text) # << >>
  <2>1. texts \in Seq(Seq(P))
    BY DEF Joins, Texts
  <2> QED
    BY <2>1
<1>3. JoinWith(Append(texts, text), Space) = Append(joined, Space) \o text
  BY JoinOneMore DEF Joins
<1>4. Append(joined, Space) \o text \in Seq(P)
  BY DEF Joins
<1> QED
  BY <1>1, <1>2, <1>3, <1>4 DEF Joins

LEMMA JoinsOnePiece ==
  ASSUME NEW P, Space \in P, NEW texts, NEW joined, Joins(P, texts, joined), NEW e \in P
  PROVE  Joins(P, Append(texts, <<e>>), Append(Append(joined, Space), e))
<1>1. <<e>> \in Seq(P)
  OBVIOUS
<1>2. Joins(P, Append(texts, <<e>>), Append(joined, Space) \o <<e>>)
  BY <1>1, JoinsOneMore
<1>3. Append(joined, Space) \o <<e>> = Append(Append(joined, Space), e)
  BY DEF Joins
<1> QED
  BY <1>2, <1>3

LEMMA JoinsFirst ==
  ASSUME NEW P, NEW text \in Seq(P)
  PROVE  Joins(P, <<text>>, text)
<1>1. << >> \in Texts(P) /\ <<text>> = Append(<< >>, text) /\ <<text>> \in Texts(P)
  BY DEF Texts
<1>2. JoinWith(<<text>>, Space) = text
  BY <1>1, JoinOneMore
<1> QED
  BY <1>1, <1>2 DEF Joins

EightBehind(s, a, b, c, d, e, f, g, h) ==
  s \o <<a, b, c, d, e, f, g, h>> =
    Append(Append(Append(Append(Append(Append(Append(Append(s, a), b), c), d), e), f), g), h)

LEMMA EightMore ==
  ASSUME NEW S, NEW s \in Seq(S), NEW a \in S, NEW b \in S, NEW c \in S, NEW d \in S,
         NEW e \in S, NEW f \in S, NEW g \in S, NEW h \in S
  PROVE  EightBehind(s, a, b, c, d, e, f, g, h)
<1>1. s \o <<a>> = Append(s, a)
  OBVIOUS
<1>2. s \o <<a, b>> = Append(s \o <<a>>, b)
  <2>1. <<a, b>> = Append(<<a>>, b) /\ <<a>> \in Seq(S)
    OBVIOUS
  <2> QED
    BY <2>1, ConcatAppend
<1>3. s \o <<a, b, c>> = Append(s \o <<a, b>>, c)
  <2>1. <<a, b, c>> = Append(<<a, b>>, c) /\ <<a, b>> \in Seq(S)
    OBVIOUS
  <2> QED
    BY <2>1, ConcatAppend
<1>4. s \o <<a, b, c, d>> = Append(s \o <<a, b, c>>, d)
  <2>1. <<a, b, c, d>> = Append(<<a, b, c>>, d) /\ <<a, b, c>> \in Seq(S)
    OBVIOUS
  <2> QED
    BY <2>1, ConcatAppend
<1>5. s \o <<a, b, c, d, e>> = Append(s \o <<a, b, c, d>>, e)
  <2>1. <<a, b, c, d, e>> = Append(<<a, b, c, d>>, e) /\ <<a, b, c, d>> \in Seq(S)
    OBVIOUS
  <2> QED
    BY <2>1, ConcatAppend
<1>6. s \o <<a, b, c, d, e, f>> = Append(s \o <<a, b, c, d, e>>, f)
  <2>1. <<a, b, c, d, e, f>> = Append(<<a, b, c, d, e>>, f) /\ <<a, b, c, d, e>> \in Seq(S)
    OBVIOUS
  <2> QED
    BY <2>1, ConcatAppend
<1>7. s \o <<a, b, c, d, e, f, g>> = Append(s \o <<a, b, c, d, e, f>>, g)
  <2>1. <<a, b, c, d, e, f, g>> = Append(<<a, b, c, d, e, f>>, g) /\ <<a, b, c, d, e, f>> \in Seq(S)
    OBVIOUS
  <2> QED
    BY <2>1, ConcatAppend
<1>8. s \o <<a, b, c, d, e, f, g, h>> = Append(s \o <<a, b, c, d, e, f, g>>, h)
  <2>1. <<a, b, c, d, e, f, g, h>> = Append(<<a, b, c, d, e, f, g>>, h) /\ <<a, b, c, d, e, f, g>> \in Seq(S)
    OBVIOUS
  <2> QED
    BY <2>1, ConcatAppend
<1> QED
  BY <1>1, <1>2, <1>3, <1>4, <1>5, <1>6, <1>7, <1>8 DEF EightBehind

(* The text is what a command line begins with, up to a blank.             *)
JoinsBefore(P, texts, text) ==
  \E joined : Joins(P, texts, joined) /\ Append(joined, Space) = text

LEMMA TwoMore ==
  ASSUME NEW S, NEW s \in Seq(S), NEW a \in S, NEW b \in S
  PROVE  s \o <<a, b>> = Append(Append(s, a), b)
<1>1. <<a, b>> = Append(<<a>>, b) /\ <<a>> \in Seq(S) /\ s \o <<a>> = Append(s, a)
  OBVIOUS
<1>2. s \o Append(<<a>>, b) = Append(s \o <<a>>, b)
  BY <1>1, ConcatAppend
<1> QED
  BY <1>1, <1>2

LEMMA ThreeBehind ==
  ASSUME NEW S, NEW s \in Seq(S), NEW a \in S, NEW b \in S, NEW c \in S
  PROVE  s \o <<a, b, c>> = Append(Append(Append(s, a), b), c)
<1>1. <<a, b, c>> = Append(<<a, b>>, c) /\ <<a, b>> \in Seq(S)
  OBVIOUS
<1>2. s \o Append(<<a, b>>, c) = Append(s \o <<a, b>>, c)
  BY <1>1, ConcatAppend
<1> QED
  BY <1>1, <1>2, TwoMore

LEMMA FourMore ==
  ASSUME NEW S, NEW s \in Seq(S), NEW a \in S, NEW b \in S, NEW c \in S, NEW d \in S
  PROVE  s \o <<a, b, c, d>> = Append(Append(Append(Append(s, a), b), c), d)
<1>1. <<a, b, c, d>> = Append(<<a, b, c>>, d) /\ <<a, b, c>> \in Seq(S)
  OBVIOUS
<1>2. s \o Append(<<a, b, c>>, d) = Append(s \o <<a, b, c>>, d)
  BY <1>1, ConcatAppend
<1> QED
  BY <1>1, <1>2, ThreeBehind

(* Four more words of one piece.                                           *)
LEMMA FourWords ==
  ASSUME NEW P, Space \in P, NEW texts, NEW text, JoinsBefore(P, texts, text),
         NEW a \in P, NEW b \in P, NEW c \in P, NEW d \in P
  PROVE  JoinsBefore(P, texts \o << <<a>>, <<b>>, <<c>>, <<d>> >>,
                     text \o <<a, Space, b, Space, c, Space, d, Space>>)
<1>1. PICK j : Joins(P, texts, j) /\ Append(j, Space) = text
  BY DEF JoinsBefore
<1>2. text \in Seq(P)
  BY <1>1 DEF Joins
<1>3. PICK t1 : t1 = Append(texts, <<a>>)
  OBVIOUS
<1>4. PICK t2 : t2 = Append(t1, <<b>>)
  OBVIOUS
<1>5. PICK t3 : t3 = Append(t2, <<c>>)
  OBVIOUS
<1>6. PICK t4 : t4 = Append(t3, <<d>>)
  OBVIOUS
<1>7. PICK j1 : j1 = Append(text, a)
  OBVIOUS
<1>8. PICK j2 : j2 = Append(Append(j1, Space), b)
  OBVIOUS
<1>9. PICK j3 : j3 = Append(Append(j2, Space), c)
  OBVIOUS
<1>10. PICK j4 : j4 = Append(Append(j3, Space), d)
  OBVIOUS
<1>11. Joins(P, t1, j1)
  BY <1>1, <1>3, <1>7, JoinsOnePiece
<1>12. Joins(P, t2, j2)
  BY <1>4, <1>8, <1>11, JoinsOnePiece
<1>13. Joins(P, t3, j3)
  BY <1>5, <1>9, <1>12, JoinsOnePiece
<1>14. Joins(P, t4, j4)
  BY <1>6, <1>10, <1>13, JoinsOnePiece
<1>15. Append(j4, Space) = text \o <<a, Space, b, Space, c, Space, d, Space>>
  <2>1. text \o <<a, Space, b, Space, c, Space, d, Space>> =
          Append(Append(Append(Append(Append(Append(Append(Append(text, a), Space), b), Space),
                                      c), Space), d), Space)
    <3>1. PICK x \in Seq(P), sp \in P : x = text /\ sp = Space
      BY <1>2
    <3>2. EightBehind(x, a, sp, b, sp, c, sp, d, sp)
      BY EightMore
    <3> QED
      BY <3>1, <3>2, Zenon DEF EightBehind
  <2> QED
    BY <1>7, <1>8, <1>9, <1>10, <2>1, Zenon
<1>16. t4 = texts \o << <<a>>, <<b>>, <<c>>, <<d>> >>
  <2>1. PICK S : S = Seq(P)
    OBVIOUS
  <2>2. texts \in Seq(S)
    BY <1>1, <2>1 DEF Joins, Texts
  <2>3. <<a>> \in S /\ <<b>> \in S /\ <<c>> \in S /\ <<d>> \in S
    BY <2>1
  <2> QED
    <3>1. PICK wa \in S, wb \in S, wc \in S, wd \in S :
            wa = <<a>> /\ wb = <<b>> /\ wc = <<c>> /\ wd = <<d>>
      BY <2>3
    <3>2. texts \o <<wa, wb, wc, wd>> = Append(Append(Append(Append(texts, wa), wb), wc), wd)
      BY <2>2, FourMore
    <3> QED
      BY <1>3, <1>4, <1>5, <1>6, <3>1, <3>2, Zenon
<1> QED
  BY <1>14, <1>15, <1>16 DEF JoinsBefore

(* Two more words, the second of them one piece and a text.                *)
LEMMA TwoWords ==
  ASSUME NEW P, Space \in P, NEW texts, NEW text, JoinsBefore(P, texts, text),
         NEW a \in P, NEW b \in P, NEW rest \in Seq(P)
  PROVE  JoinsBefore(P, texts \o << <<a>>, <<b>> \o rest >>,
                     text \o ((<<a, Space, b>> \o rest) \o <<Space>>))
<1>1. PICK j : Joins(P, texts, j) /\ Append(j, Space) = text
  BY DEF JoinsBefore
<1>2. text \in Seq(P)
  BY <1>1 DEF Joins
<1>3. PICK word \in Seq(P) : word = <<b>> \o rest
  <2>1. <<b>> \o rest \in Seq(P)
    OBVIOUS
  <2> QED
    BY <2>1
<1>4. PICK t1 : t1 = Append(texts, <<a>>)
  OBVIOUS
<1>5. PICK t2 : t2 = Append(t1, word)
  OBVIOUS
<1>6. PICK d \in Seq(P) : d = Append(Append(text, a), Space)
  <2>1. Append(Append(text, a), Space) \in Seq(P)
    BY <1>2
  <2> QED
    BY <2>1
<1>7. Joins(P, t1, Append(text, a))
  BY <1>1, <1>4, JoinsOnePiece
<1>8. Joins(P, t2, d \o word)
  BY <1>5, <1>6, <1>7, JoinsOneMore
<1>9. t2 = texts \o << <<a>>, word >>
  <2>1. PICK S : S = Seq(P)
    OBVIOUS
  <2>2. texts \in Seq(S)
    BY <1>1, <2>1 DEF Joins, Texts
  <2>3. <<a>> \in S /\ word \in S
    BY <2>1
  <2> QED
    BY <1>4, <1>5, <2>2, <2>3, TwoMore
<1>10. PICK u \in Seq(P) : u = <<a, Space, b>>
  <2>1. <<a, Space, b>> \in Seq(P)
    OBVIOUS
  <2> QED
    BY <2>1
<1>11. PICK ur \in Seq(P) : ur = u \o rest
  BY ConcatType
<1>12. d \o word = text \o ur
  <2>1. Associates(d, <<b>>, rest)
    <3>1. PICK piece \in Seq(P) : piece = <<b>>
      <4>1. <<b>> \in Seq(P)
        OBVIOUS
      <4> QED
        BY <4>1
    <3>2. Associates(d, piece, rest)
      BY Associative
    <3> QED
      BY <3>1, <3>2
  <2>2. d \o <<b>> = text \o u
    <3>1. text \o <<a, Space, b>> = Append(Append(Append(text, a), Space), b)
      BY <1>2, ThreeBehind
    <3>2. d \o <<b>> = Append(d, b)
      OBVIOUS
    <3> QED
      BY <1>6, <1>10, <3>1, <3>2
  <2>3. Associates(text, u, rest)
    BY <1>2, Associative
  <2> QED
    BY <1>3, <1>11, <2>1, <2>2, <2>3 DEF Associates
<1>13. Append(d \o word, Space) = text \o (ur \o <<Space>>)
  <2>1. ur \o <<Space>> = Append(ur, Space)
    OBVIOUS
  <2>2. text \o Append(ur, Space) = Append(text \o ur, Space)
    BY <1>2, ConcatAppend
  <2> QED
    BY <1>12, <2>1, <2>2
<1> QED
  BY <1>3, <1>8, <1>9, <1>10, <1>11, <1>13 DEF JoinsBefore

InTurn(a, b, c, d, e, f) ==
  /\ <<a, b>> = Append(<<a>>, b) /\ <<a, b, c>> = Append(<<a, b>>, c)
  /\ <<a, b, c, d>> = Append(<<a, b, c>>, d)
  /\ <<a, b, c, d, e>> = Append(<<a, b, c, d>>, e)
  /\ <<a, b, c, d, e, f>> = Append(<<a, b, c, d, e>>, f)

LEMMA TuplesInTurn ==
  ASSUME NEW S, NEW a \in S, NEW b \in S, NEW c \in S, NEW d \in S, NEW e \in S, NEW f \in S
  PROVE  InTurn(a, b, c, d, e, f)
<1>1. <<a, b>> = Append(<<a>>, b)
  OBVIOUS
<1>2. <<a, b, c>> = Append(<<a, b>>, c)
  OBVIOUS
<1>3. <<a, b, c, d>> = Append(<<a, b, c>>, d)
  OBVIOUS
<1>4. <<a, b, c, d, e>> = Append(<<a, b, c, d>>, e)
  OBVIOUS
<1>5. <<a, b, c, d, e, f>> = Append(<<a, b, c, d, e>>, f)
  OBVIOUS
<1> QED
  BY <1>1, <1>2, <1>3, <1>4, <1>5 DEF InTurn

(* The destination, the port and the tunnel, and a blank.                  *)
HostText(ssh, at, addr, dp, port, dr, spec, ip, colon, local) ==
  <<ssh, Space, at>> \o addr \o <<Space, dp, Space, port, Space, dr, Space, spec>>
  \o ip \o <<colon, local, Space>>

HostWords(ssh, at, addr, dp, port, dr, spec, ip, colon, local) ==
  << <<ssh>>, <<at>> \o addr, <<dp>>, <<port>>, <<dr>>, <<spec>> \o ip \o <<colon, local>> >>

LEMMA HostIsJoined ==
  ASSUME NEW P, Space \in P, NEW ssh \in P, NEW at \in P, NEW addr \in Seq(P), NEW dp \in P,
         NEW port \in P, NEW dr \in P, NEW spec \in P, NEW ip \in Seq(P), NEW colon \in P,
         NEW local \in P
  PROVE  JoinsBefore(P, HostWords(ssh, at, addr, dp, port, dr, spec, ip, colon, local),
                     HostText(ssh, at, addr, dp, port, dr, spec, ip, colon, local))
<1> DEFINE host == <<at>> \o addr
           tunnel == <<spec>> \o ip \o <<colon, local>>
<1>1. host \in Seq(P) /\ tunnel \in Seq(P) /\ <<spec>> \o ip \in Seq(P) /\ <<ssh>> \in Seq(P)
      /\ <<spec>> \in Seq(P) /\ <<at>> \in Seq(P) /\ <<colon, local>> \in Seq(P)
      /\ <<ssh, Space>> \in Seq(P)
  OBVIOUS
<1> HIDE DEF host, tunnel
<1>2. Joins(P, << <<ssh>> >>, <<ssh>>)
  BY <1>1, JoinsFirst
<1>3. PICK j2 \in Seq(P) : j2 = <<ssh, Space, at>> \o addr
  <2>1. <<ssh, Space, at>> \o addr \in Seq(P)
    OBVIOUS
  <2> QED
    BY <2>1
<1>4. PICK t2 : t2 = Append(<< <<ssh>> >>, host) /\ Joins(P, t2, j2)
  <2>1. Joins(P, Append(<< <<ssh>> >>, host), Append(<<ssh>>, Space) \o host)
    BY <1>1, <1>2, JoinsOneMore
  <2>2. Append(<<ssh>>, Space) \o host = j2
    <3>1. PICK a \in Seq(P), b \in Seq(P) : a = <<ssh, Space>> /\ b = <<at>>
      BY <1>1
    <3>2. Associates(a, b, addr)
      BY Associative
    <3>3. a \o b = <<ssh, Space, at>> /\ Append(<<ssh>>, Space) = a
      <4>1. <<ssh, Space>> = Append(<<ssh>>, Space)
        OBVIOUS
      <4>2. <<ssh, Space, at>> = <<ssh, Space>> \o <<at>>
        OBVIOUS
      <4> QED
        BY <3>1, <4>1, <4>2, Zenon
    <3> QED
      BY <1>3, <3>1, <3>2, <3>3 DEF Associates, host
  <2> QED
    BY <2>1, <2>2
<1>5. PICK t3, j3 : /\ t3 = Append(t2, <<dp>>) /\ j3 = Append(Append(j2, Space), dp)
                    /\ Joins(P, t3, j3)
  BY <1>4, JoinsOnePiece
<1>6. PICK t4, j4 : /\ t4 = Append(t3, <<port>>) /\ j4 = Append(Append(j3, Space), port)
                    /\ Joins(P, t4, j4)
  BY <1>5, JoinsOnePiece
<1>7. PICK t5, j5 : /\ t5 = Append(t4, <<dr>>) /\ j5 = Append(Append(j4, Space), dr)
                    /\ Joins(P, t5, j5)
  BY <1>6, JoinsOnePiece
<1>8. PICK t6 : t6 = Append(t5, tunnel) /\ Joins(P, t6, Append(j5, Space) \o tunnel)
  BY <1>1, <1>7, JoinsOneMore
<1>9. PICK a \in Seq(P) : a = Append(j5, Space)
  <2>1. Append(j5, Space) \in Seq(P)
    BY <1>7 DEF Joins
  <2> QED
    BY <2>1
<1>10. PICK k \in Seq(P) : /\ k = j2 \o <<Space, dp, Space, port, Space, dr, Space, spec>>
                          /\ k = a \o <<spec>>
  <2>1. PICK sp \in P : sp = Space
    OBVIOUS
  <2>2. EightBehind(j2, sp, dp, sp, port, sp, dr, sp, spec)
    BY <2>1, EightMore
  <2>3. j2 \o <<Space, dp, Space, port, Space, dr, Space, spec>> = Append(a, spec)
    BY <1>5, <1>6, <1>7, <1>9, <2>1, <2>2, Zenon DEF EightBehind
  <2>4. a \o <<spec>> = Append(a, spec) /\ Append(a, spec) \in Seq(P)
    OBVIOUS
  <2> QED
    BY <2>3, <2>4
<1>11. PICK q \in Seq(P), r \in Seq(P) : q = <<spec>> \o ip /\ r = <<colon, local>>
  BY <1>1
<1>12. PICK b \in Seq(P) : b = k \o ip
  BY ConcatType
<1>13. a \o tunnel = b \o r
  <2>1. Associates(a, q, r)
    BY Associative
  <2>2. PICK s \in Seq(P) : s = <<spec>>
    BY <1>1
  <2>3. Associates(a, s, ip)
    BY Associative
  <2> QED
    BY <1>10, <1>11, <1>12, <2>1, <2>2, <2>3 DEF Associates, tunnel
<1>14. Append(a \o tunnel, Space) = b \o <<colon, local, Space>>
  <2>1. b \o Append(r, Space) = Append(b \o r, Space)
    BY ConcatAppend
  <2>2. Append(r, Space) = <<colon, local, Space>>
    <3>1. <<colon, local, Space>> = Append(<<colon, local>>, Space)
      OBVIOUS
    <3> QED
      BY <1>11, <3>1, Zenon
  <2> QED
    BY <1>13, <2>1, <2>2
<1>15. HostText(ssh, at, addr, dp, port, dr, spec, ip, colon, local) = Append(a \o tunnel, Space)
  BY <1>3, <1>10, <1>12, <1>14, Zenon DEF HostText
<1>16. HostWords(ssh, at, addr, dp, port, dr, spec, ip, colon, local) = t6
  <2>1. PICK S : S = Seq(P)
    OBVIOUS
  <2>2. PICK w1 \in S, w3 \in S, w4 \in S, w5 \in S :
          w1 = <<ssh>> /\ w3 = <<dp>> /\ w4 = <<port>> /\ w5 = <<dr>>
    <3>1. <<ssh>> \in S /\ <<dp>> \in S /\ <<port>> \in S /\ <<dr>> \in S
      BY <2>1
    <3> QED
      BY <3>1
  <2>3. PICK w2 \in S, w6 \in S : w2 = host /\ w6 = tunnel
    BY <1>1, <2>1
  <2>4. Append(Append(Append(Append(Append(<<w1>>, w2), w3), w4), w5), w6)
          = <<w1, w2, w3, w4, w5, w6>>
    <3>1. InTurn(w1, w2, w3, w4, w5, w6)
      BY TuplesInTurn
    <3> QED
      BY <3>1, Zenon DEF InTurn
  <2>5. t6 = Append(Append(Append(Append(Append(<<w1>>, w2), w3), w4), w5), w6)
    BY <1>4, <1>5, <1>6, <1>7, <1>8, <2>2, <2>3, Zenon
  <2>6. HostWords(ssh, at, addr, dp, port, dr, spec, ip, colon, local)
          = <<w1, w2, w3, w4, w5, w6>>
    BY <2>2, <2>3, Zenon DEF HostWords, host, tunnel
  <2> QED
    BY <2>4, <2>5, <2>6
<1> QED
  BY <1>8, <1>9, <1>15, <1>16 DEF JoinsBefore

(* The pieces parse_to_native_ssh adds to what it is told.                 *)
OptionPieces ==
  {"ssh", "v0@", "-p", "-R", ":80:", ":", "-o", "StrictHostKeyChecking=no",
   "UserKnownHostsFile=/dev/null", "UserKnownHostsFile="}

HostWordsOf(p, c) ==
  HostWords("ssh", "v0@", c.serverAddr, "-p", ToString(c.serverPort), "-R", ":80:",
            p.localIP, ":", ToString(p.localPort))

KeyWordsOf(c) ==
  IF c.sshKnownHosts = NoText
  THEN << <<"-o">>, <<"StrictHostKeyChecking=no">>, <<"-o">>, <<"UserKnownHostsFile=/dev/null">> >>
  ELSE << <<"-o">>, <<"UserKnownHostsFile=">> \o c.sshKnownHosts >>

SshWords(p, c) == HostWordsOf(p, c) \o KeyWordsOf(c)

(* The texts of a command line that no proxy flag stands for.              *)
CommandPieces(p, c, P) ==
  /\ OptionPieces \subseteq P
  /\ ToString(c.serverPort) \in P /\ ToString(p.localPort) \in P
  /\ c.serverAddr \in Seq(P) /\ c.sshKnownHosts \in Seq(P) /\ p.localIP \in Seq(P)

LEMMA NativeIsJoined ==
  ASSUME NEW P, Space \in P, NEW p, NEW c, CommandPieces(p, c, P),
         NEW words \in Texts(P), words # << >>, GenExtra(p, c) = JoinWith(words, Space)
  PROVE  NativeCommand(p, c) = JoinWith(SshWords(p, c) \o words, Space)
<1>1. /\ "ssh" \in P /\ "v0@" \in P /\ "-p" \in P /\ "-R" \in P /\ ":80:" \in P /\ ":" \in P
      /\ "-o" \in P /\ "StrictHostKeyChecking=no" \in P
      /\ "UserKnownHostsFile=/dev/null" \in P /\ "UserKnownHostsFile=" \in P
  BY DEF CommandPieces, OptionPieces
<1> DEFINE hostText == HostText("ssh", "v0@", c.serverAddr, "-p", ToString(c.serverPort),
                                "-R", ":80:", p.localIP, ":", ToString(p.localPort))
           keyText ==
             IF c.sshKnownHosts = NoText
             THEN <<"-o", Space, "StrictHostKeyChecking=no", Space, "-o", Space,
                    "UserKnownHostsFile=/dev/null", Space>>
             ELSE <<"-o", Space, "UserKnownHostsFile=">> \o c.sshKnownHosts \o <<Space>>
<1>2. NativeCommand(p, c) = (hostText \o keyText) \o GenExtra(p, c)
  BY Zenon DEF NativeCommand, HostText
<1>3. JoinsBefore(P, HostWordsOf(p, c), hostText)
  <2>1. c.serverAddr \in Seq(P) /\ p.localIP \in Seq(P)
        /\ ToString(c.serverPort) \in P /\ ToString(p.localPort) \in P
    BY DEF CommandPieces
  <2>2. PICK addr \in Seq(P), ip \in Seq(P), port \in P, local \in P :
          /\ addr = c.serverAddr /\ ip = p.localIP
          /\ port = ToString(c.serverPort) /\ local = ToString(p.localPort)
    BY <2>1
  <2>3. JoinsBefore(P, HostWords("ssh", "v0@", addr, "-p", port, "-R", ":80:", ip, ":", local),
                    HostText("ssh", "v0@", addr, "-p", port, "-R", ":80:", ip, ":", local))
    BY <1>1, HostIsJoined
  <2> QED
    BY <2>2, <2>3, Zenon DEF HostWordsOf
<1>4. JoinsBefore(P, SshWords(p, c), hostText \o keyText)
  <2> HIDE DEF hostText
  <2>1. CASE c.sshKnownHosts = NoText
    <3>1. JoinsBefore(P, HostWordsOf(p, c) \o << <<"-o">>, <<"StrictHostKeyChecking=no">>, <<"-o">>,
                                                <<"UserKnownHostsFile=/dev/null">> >>,
                      hostText \o <<"-o", Space, "StrictHostKeyChecking=no", Space, "-o", Space,
                                    "UserKnownHostsFile=/dev/null", Space>>)
      BY <1>1, <1>3, FourWords
    <3> QED
      BY <2>1, <3>1, Zenon DEF SshWords, KeyWordsOf
  <2>2. CASE c.sshKnownHosts # NoText
    <3>1. PICK rest \in Seq(P) : rest = c.sshKnownHosts
      BY DEF CommandPieces
    <3>2. JoinsBefore(P, HostWordsOf(p, c) \o << <<"-o">>, <<"UserKnownHostsFile=">> \o rest >>,
                      hostText \o ((<<"-o", Space, "UserKnownHostsFile=">> \o rest) \o <<Space>>))
      BY <1>1, <1>3, TwoWords
    <3> QED
      BY <2>2, <3>1, <3>2, Zenon DEF SshWords, KeyWordsOf
  <2> QED
    BY <2>1, <2>2
<1> HIDE DEF hostText, keyText
<1>5. PICK head \in Texts(P) :
        /\ head = SshWords(p, c) /\ head # << >>
        /\ Append(JoinWith(head, Space), Space) = hostText \o keyText
  BY <1>4 DEF JoinsBefore, Joins
<1>6. JoinWith(head \o words, Space)
        = Append(JoinWith(head, Space), Space) \o JoinWith(words, Space)
  BY <1>5, JoinConcat
<1> QED
  BY <1>2, <1>5, <1>6

(* The options: every other word from the third on is one.                 *)
OptionsIn(head) ==
  \E n \in Nat :
    Len(head) = 2 * n + 4 /\ \A k \in 1 .. n + 1 : head[2 * k + 1] \in SshOptions

(* Two and four options behind the six words of the host.                  *)
LEMMA TwoBehindSix ==
  ASSUME NEW S, NEW w1 \in S, NEW w2 \in S, NEW w3 \in S, NEW w4 \in S, NEW w5 \in S,
         NEW w6 \in S, NEW k1 \in S, NEW k2 \in S
  PROVE  <<w1, w2, w3, w4, w5, w6>> \o <<k1, k2>> = <<w1, w2, w3, w4, w5, w6, k1, k2>>
<1>1. <<w1, w2, w3, w4, w5, w6>> \in Seq(S)
  OBVIOUS
<1>2. <<w1, w2, w3, w4, w5, w6>> \o <<k1, k2>>
        = Append(Append(<<w1, w2, w3, w4, w5, w6>>, k1), k2)
  BY <1>1, TwoMore
<1>3. <<w1, w2, w3, w4, w5, w6, k1>> = Append(<<w1, w2, w3, w4, w5, w6>>, k1)
  OBVIOUS
<1>4. <<w1, w2, w3, w4, w5, w6, k1, k2>> = Append(<<w1, w2, w3, w4, w5, w6, k1>>, k2)
  OBVIOUS
<1> QED
  BY <1>2, <1>3, <1>4, Zenon

LEMMA FourBehindSix ==
  ASSUME NEW S, NEW w1 \in S, NEW w2 \in S, NEW w3 \in S, NEW w4 \in S, NEW w5 \in S,
         NEW w6 \in S, NEW k1 \in S, NEW k2 \in S, NEW k3 \in S, NEW k4 \in S
  PROVE  <<w1, w2, w3, w4, w5, w6>> \o <<k1, k2, k3, k4>>
           = <<w1, w2, w3, w4, w5, w6, k1, k2, k3, k4>>
<1>1. <<w1, w2, w3, w4, w5, w6>> \in Seq(S)
  OBVIOUS
<1>2. <<w1, w2, w3, w4, w5, w6>> \o <<k1, k2, k3, k4>>
        = Append(Append(Append(Append(<<w1, w2, w3, w4, w5, w6>>, k1), k2), k3), k4)
  BY <1>1, FourMore
<1>3. <<w1, w2, w3, w4, w5, w6, k1>> = Append(<<w1, w2, w3, w4, w5, w6>>, k1)
  OBVIOUS
<1>4. <<w1, w2, w3, w4, w5, w6, k1, k2>> = Append(<<w1, w2, w3, w4, w5, w6, k1>>, k2)
  OBVIOUS
<1>5. <<w1, w2, w3, w4, w5, w6, k1, k2, k3>>
        = Append(<<w1, w2, w3, w4, w5, w6, k1, k2>>, k3)
  OBVIOUS
<1>6. <<w1, w2, w3, w4, w5, w6, k1, k2, k3, k4>>
        = Append(<<w1, w2, w3, w4, w5, w6, k1, k2, k3>>, k4)
  OBVIOUS
<1> QED
  BY <1>2, <1>3, <1>4, <1>5, <1>6, Zenon

LEMMA SshWordsType ==
  ASSUME NEW Q, NEW p, NEW c, CommandPieces(p, c, Q)
  PROVE  SshWords(p, c) \in Seq(Solid(Q)) /\ OptionsIn(SshWords(p, c))
<1>1. /\ "ssh" \in Q /\ "v0@" \in Q /\ "-p" \in Q /\ "-R" \in Q /\ ":80:" \in Q /\ ":" \in Q
      /\ "-o" \in Q /\ "StrictHostKeyChecking=no" \in Q
      /\ "UserKnownHostsFile=/dev/null" \in Q /\ "UserKnownHostsFile=" \in Q
  BY DEF CommandPieces, OptionPieces
<1>2. \A e \in Q : <<e>> \in Solid(Q)
  BY DEF Solid
<1>3. ASSUME NEW e \in Q, NEW text \in Seq(Q) PROVE <<e>> \o text \in Solid(Q)
  BY DEF Solid
<1>4. PICK S : S = Solid(Q)
  OBVIOUS
<1>5. PICK w1 \in S, w2 \in S, w3 \in S, w4 \in S, w5 \in S, w6 \in S :
        /\ HostWordsOf(p, c) = <<w1, w2, w3, w4, w5, w6>>
        /\ w3 = <<"-p">> /\ w5 = <<"-R">>
  <2>1. <<"v0@">> \o c.serverAddr \in S
    BY <1>1, <1>3, <1>4 DEF CommandPieces
  <2>2. <<":80:">> \o p.localIP \o <<":", ToString(p.localPort)>> \in S
    <3>1. PICK ip \in Seq(Q), local \in Q, spec \in Q, colon \in Q :
            /\ ip = p.localIP /\ local = ToString(p.localPort) /\ spec = ":80:" /\ colon = ":"
      BY <1>1 DEF CommandPieces
    <3>2. PICK first \in Seq(Q) : first = <<spec>> \o ip /\ Len(first) > 0
      <4>1. <<spec>> \o ip \in Seq(Q) /\ Len(<<spec>> \o ip) > 0
        OBVIOUS
      <4> QED
        BY <4>1
    <3>3. first \o <<colon, local>> \in Seq(Q) /\ first \o <<colon, local>> # << >>
      BY <3>2
    <3> QED
      BY <1>4, <3>1, <3>2, <3>3 DEF Solid
  <2>3. <<"ssh">> \in S /\ <<"-p">> \in S /\ <<ToString(c.serverPort)>> \in S /\ <<"-R">> \in S
    BY <1>1, <1>2, <1>4 DEF CommandPieces
  <2>4. HostWordsOf(p, c) =
          << <<"ssh">>, <<"v0@">> \o c.serverAddr, <<"-p">>, <<ToString(c.serverPort)>>, <<"-R">>,
             <<":80:">> \o p.localIP \o <<":", ToString(p.localPort)>> >>
    BY Zenon DEF HostWordsOf, HostWords
  <2> QED
    BY <2>1, <2>2, <2>3, <2>4
<1>6. PICK head : head = SshWords(p, c)
  OBVIOUS
<1>7. CASE c.sshKnownHosts = NoText
  <2>1. PICK k1 \in S, k2 \in S, k3 \in S, k4 \in S :
          /\ KeyWordsOf(c) = <<k1, k2, k3, k4>>
          /\ k1 = <<"-o">> /\ k3 = <<"-o">>
    BY <1>1, <1>2, <1>4, <1>7 DEF KeyWordsOf
  <2>2. head = <<w1, w2, w3, w4, w5, w6>> \o <<k1, k2, k3, k4>>
    BY <1>5, <1>6, <2>1 DEF SshWords
  <2>3. /\ head \in Seq(S) /\ Len(head) = 10
        /\ head[3] = w3 /\ head[5] = w5 /\ head[7] = k1 /\ head[9] = k3
    BY <2>2, FourBehindSix
  <2>4. \A k \in 1 .. 4 : head[2 * k + 1] \in SshOptions
    <3>1. /\ head[3] \in SshOptions /\ head[5] \in SshOptions
          /\ head[7] \in SshOptions /\ head[9] \in SshOptions
      BY <1>5, <2>1, <2>3 DEF SshOptions
    <3>2. \A k \in 1 .. 4 : k = 1 \/ k = 2 \/ k = 3 \/ k = 4
      OBVIOUS
    <3>3. 2 * 1 + 1 = 3 /\ 2 * 2 + 1 = 5 /\ 2 * 3 + 1 = 7 /\ 2 * 4 + 1 = 9
      OBVIOUS
    <3> QED
      BY <3>1, <3>2, <3>3
  <2>5. 3 \in Nat /\ 2 * 3 + 4 = 10 /\ 3 + 1 = 4
    OBVIOUS
  <2> QED
    BY <1>4, <1>6, <2>3, <2>4, <2>5 DEF OptionsIn
<1>8. CASE c.sshKnownHosts # NoText
  <2>1. PICK k1 \in S, k2 \in S : KeyWordsOf(c) = <<k1, k2>> /\ k1 = <<"-o">>
    <3>1. <<"UserKnownHostsFile=">> \o c.sshKnownHosts \in S
      BY <1>1, <1>3, <1>4 DEF CommandPieces
    <3> QED
      BY <1>1, <1>2, <1>4, <1>8, <3>1 DEF KeyWordsOf
  <2>2. head = <<w1, w2, w3, w4, w5, w6>> \o <<k1, k2>>
    BY <1>5, <1>6, <2>1 DEF SshWords
  <2>3. /\ head \in Seq(S) /\ Len(head) = 8
        /\ head[3] = w3 /\ head[5] = w5 /\ head[7] = k1
    BY <2>2, TwoBehindSix
  <2>4. \A k \in 1 .. 3 : head[2 * k + 1] \in SshOptions
    <3>1. head[3] \in SshOptions /\ head[5] \in SshOptions /\ head[7] \in SshOptions
      BY <1>5, <2>1, <2>3 DEF SshOptions
    <3>2. \A k \in 1 .. 3 : k = 1 \/ k = 2 \/ k = 3
      OBVIOUS
    <3>3. 2 * 1 + 1 = 3 /\ 2 * 2 + 1 = 5 /\ 2 * 3 + 1 = 7
      OBVIOUS
    <3> QED
      BY <3>1, <3>2, <3>3
  <2>5. 2 \in Nat /\ 2 * 2 + 4 = 8 /\ 2 + 1 = 3
    OBVIOUS
  <2> QED
    BY <1>4, <1>6, <2>3, <2>4, <2>5 DEF OptionsIn
<1> QED
  BY <1>7, <1>8

(* What tiny-frpc-ssh has ssh execute on the server is the payload that    *)
(* tiny-frpc sends.                                                        *)
LEMMA SshGivesThePayload ==
  ASSUME NEW P, Space \in P, NEW Q, Q = Without(P, Space), FlagNames \subseteq Q,
         NEW p, NEW c, CommandPieces(p, c, Q), PlainlySent(p, c, Q), p.type \in Q,
         <<p.type>> \notin SshOptions, ToSet(NativeCommand(p, c)) \cap Quotes = {}
  PROVE  SshExecutes(ShellWords(NativeCommand(p, c))) = GenExtra(p, c)
<1>1. PICK words \in Seq(Solid(Q)) :
        /\ words # << >> /\ words[1] = <<p.type>> /\ GenExtra(p, c) = JoinWith(words, Space)
  <2>1. PICK value \in [FlagNames -> Seq(Q)] :
          GenExtra(p, c) = Payload(p.type, Given(value))
    BY PlainlySentArguments
  <2>2. PICK arguments \in Seq(Q \X Solid(Q)) : arguments = Given(value)
    BY GivenType, ValuedType
  <2>3. PICK type \in Q : type = p.type
    OBVIOUS
  <2>4. PICK t \in Seq(Solid(Q)) : /\ IsTokens(t, type, arguments)
                                   /\ ReadsAs(Payload(type, arguments), t)
    BY PayloadWords
  <2>5. t # << >>
    BY <2>4 DEF IsTokens
  <2> QED
    BY <2>1, <2>2, <2>3, <2>4, <2>5 DEF IsTokens, ReadsAs
<1>2. PICK head \in Seq(Solid(Q)) : head = SshWords(p, c) /\ OptionsIn(head)
  BY SshWordsType
<1>3. Q \subseteq P
  BY WithoutIsSubset
<1>4. words \in Texts(P) /\ head \o words \in Seq(Solid(Q)) /\ head \o words \in Texts(P)
  <2>1. head \o words \in Seq(Solid(Q))
    BY ConcatType
  <2> QED
    BY <1>3, <2>1, SolidIsText
<1>5. NativeCommand(p, c) = JoinWith(head \o words, Space)
  <2>1. CommandPieces(p, c, P)
    <3>1. Seq(Q) \subseteq Seq(P)
      BY <1>3, SeqMonotonic
    <3> QED
      BY <1>3, <3>1 DEF CommandPieces
  <2> QED
    BY <1>1, <1>2, <1>4, <2>1, NativeIsJoined
<1>6. Words(NativeCommand(p, c)) = head \o words
  <2>1. PICK all \in Seq(Solid(Q)) : all = head \o words
    BY <1>4
  <2>2. Words(JoinWith(all, Space)) = all
    BY JoinThenWords
  <2> QED
    BY <1>5, <2>1, <2>2
<1>7. ShellWords(NativeCommand(p, c)) = Words(NativeCommand(p, c))
  <2>1. PICK command \in Seq(P) : command = NativeCommand(p, c)
    BY <1>4, <1>5, JoinType
  <2>2. command \in Seq(P \ Quotes)
    BY <2>1 DEF ToSet
  <2>3. PICK R : R = P \ Quotes /\ R \cap Quotes = {}
    OBVIOUS
  <2>4. ShellWords(command) = Words(command)
    BY <2>2, <2>3, ShellWordsAreWords
  <2> QED
    BY <2>1, <2>4
<1>8. SshExecutes(head \o words) = JoinWith(words, Space)
  <2>1. PICK n \in Nat : /\ Len(head) = 2 * n + 4
                         /\ \A k \in 1 .. n + 1 : head[2 * k + 1] \in SshOptions
    BY <1>2 DEF OptionsIn
  <2>2. words[1] \notin SshOptions
    BY <1>1
  <2> QED
    BY <1>1, <2>1, <2>2, SshFindsTheCommand
<1> QED
  BY <1>1, <1>6, <1>7, <1>8
=============================================================================
