---------------------------- MODULE ForwardPool ----------------------------
(***************************************************************************)
(* What the cap on forwarded connections promises of one ssh session: at   *)
(* most Capacity of its connections are served at once, one that is turned *)
(* away met a full pool, and one that left does not come back. Bridge      *)
(* implements one pool per session.                                        *)
(***************************************************************************)
EXTENDS Naturals, FiniteSets

CONSTANTS Conns, Capacity

VARIABLES
  served,  \* the connections in service
  away,    \* the ones turned away
  left     \* the ones whose service ended

vars == <<served, away, left>>

Init == served = {} /\ away = {} /\ left = {}

New(c) == c \notin served \cup away \cup left

Enter(c) ==
  /\ New(c)
  /\ Cardinality(served) < Capacity
  /\ served' = served \cup {c}
  /\ UNCHANGED <<away, left>>

TurnAway(c) ==
  /\ New(c)
  /\ Cardinality(served) = Capacity
  /\ away' = away \cup {c}
  /\ UNCHANGED <<served, left>>

Leave(c) ==
  /\ c \in served
  /\ served' = served \ {c}
  /\ left' = left \cup {c}
  /\ UNCHANGED away

Next == \E c \in Conns : Enter(c) \/ TurnAway(c) \/ Leave(c)

Spec == Init /\ [][Next]_vars
=============================================================================
