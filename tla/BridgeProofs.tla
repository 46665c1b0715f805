---------------------------- MODULE BridgeProofs ----------------------------
(***************************************************************************)
(* Proofs about Bridge, for any number of connections and sessions and any *)
(* limit.                                                                  *)
(***************************************************************************)
EXTENDS Bridge, FiniteSetTheorems, TLAPS

LEMMA CapacityType == Capacity \in Nat \ {0}
BY LimitsAssumption DEF Capacity

LEMMA HoldersFinite ==
  ASSUME NEW s
  PROVE  /\ IsFiniteSet(Holders(s))
         /\ Cardinality(Holders(s)) \in Nat
<1>1. Holders(s) \subseteq Conns
  BY DEF Holders
<1>2. IsFiniteSet(Holders(s))
  BY <1>1, ConnsAssumption, FS_Subset
<1> QED
  BY <1>2, FS_CardinalityType

(* A connection has a session from the moment it is accepted.              *)
HasSession == \A c \in Conns : stage[c] # "new" => via[c] \in Sessions

(* The inductive invariant. That a permit given back fits its semaphore    *)
(* follows from the conservation, so the two are one invariant.            *)
BridgeInv == TypeOK /\ HasSession /\ PermitsAreConserved

-----------------------------------------------------------------------------
(* The three things a step can do to the permits and their holders.        *)

LEMMA SameHolders ==
  ASSUME BridgeInv, permits' = permits,
         \A s \in Sessions : Holders(s)' = Holders(s)
  PROVE  PermitsAreConserved'
BY DEF BridgeInv, PermitsAreConserved

LEMMA AdmissionTakesPermit ==
  ASSUME BridgeInv, NEW c \in Conns, Admits(c)
  PROVE  /\ permits' \in [Sessions -> 0 .. Capacity]
         /\ \A s \in Sessions :
              Holders(s)' = IF s = via[c] THEN Holders(s) \cup {c} ELSE Holders(s)
         /\ PermitsAreConserved'
<1> USE CapacityType DEF BridgeInv, TypeOK, HasSession, Admits
<1>1. via[c] \in Sessions /\ stage[c] = "accepted"
  OBVIOUS
<1>2. \A s \in Sessions :
        Holders(s)' = IF s = via[c] THEN Holders(s) \cup {c} ELSE Holders(s)
  BY <1>1 DEF Holders, HasPermit, Stages
<1>3. c \notin Holders(via[c])
  BY <1>1 DEF Holders, HasPermit
<1>4. permits' \in [Sessions -> 0 .. Capacity]
  BY <1>1
<1>5. ASSUME NEW s \in Sessions
      PROVE  permits'[s] + Cardinality(Holders(s)') = Capacity
  <2>1. permits[s] + Cardinality(Holders(s)) = Capacity
    BY DEF PermitsAreConserved
  <2>2. CASE s = via[c]
    <3>1. Cardinality(Holders(s)') = Cardinality(Holders(s)) + 1
      BY <2>2, <1>2, <1>3, HoldersFinite, FS_AddElement
    <3>2. permits'[s] = permits[s] - 1
      BY <2>2, <1>1
    <3> QED
      BY <2>1, <3>1, <3>2, HoldersFinite
  <2>3. CASE s # via[c]
    BY <2>1, <2>3, <1>1, <1>2
  <2> QED
    BY <2>2, <2>3
<1> QED
  BY <1>2, <1>4, <1>5 DEF PermitsAreConserved

LEMMA FinishReturnsPermit ==
  ASSUME BridgeInv, NEW c \in Conns, stage[c] \in {"dialling", "closing"}, Finishes(c)
  PROVE  /\ permits' \in [Sessions -> 0 .. Capacity]
         /\ \A s \in Sessions :
              Holders(s)' = IF s = via[c] THEN Holders(s) \ {c} ELSE Holders(s)
         /\ c \in Holders(via[c])
         /\ PermitsAreConserved'
<1> USE CapacityType DEF BridgeInv, TypeOK, HasSession, Finishes
<1>1. via[c] \in Sessions /\ stage' = [stage EXCEPT ![c] = "done"]
  OBVIOUS
<1>2. \A s \in Sessions :
        Holders(s)' = IF s = via[c] THEN Holders(s) \ {c} ELSE Holders(s)
  BY <1>1 DEF Holders, HasPermit, Stages
<1>3. c \in Holders(via[c])
  BY <1>1 DEF Holders, HasPermit
<1>4. Cardinality(Holders(via[c])) >= 1
  BY <1>3, HoldersFinite, FS_EmptySet
<1>5. permits[via[c]] + Cardinality(Holders(via[c])) = Capacity
  BY <1>1 DEF PermitsAreConserved
<1>6. permits[via[c]] + 1 \in 0 .. Capacity
  BY <1>1, <1>4, <1>5, HoldersFinite
<1>7. permits' \in [Sessions -> 0 .. Capacity]
  BY <1>1, <1>6
<1>8. ASSUME NEW s \in Sessions
      PROVE  permits'[s] + Cardinality(Holders(s)') = Capacity
  <2>1. CASE s = via[c]
    <3>1. Cardinality(Holders(s)') = Cardinality(Holders(s)) - 1
      BY <2>1, <1>2, <1>3, HoldersFinite, FS_RemoveElement
    <3>2. permits'[s] = permits[s] + 1
      BY <2>1, <1>1
    <3> QED
      BY <2>1, <3>1, <3>2, <1>5, HoldersFinite
  <2>2. CASE s # via[c]
    <3>1. permits[s] + Cardinality(Holders(s)) = Capacity
      BY DEF PermitsAreConserved
    <3> QED
      BY <2>2, <3>1, <1>1, <1>2
  <2> QED
    BY <2>1, <2>2
<1> QED
  BY <1>2, <1>3, <1>7, <1>8 DEF PermitsAreConserved

(* The steps that move no permit, and leave every holder one.              *)
Quiet ==
  \/ \E s \in Sessions : SessionStarts(s) \/ SessionEnds(s)
  \/ \E c \in Conns, s \in Sessions : Accepts(c, s)
  \/ \E c \in Conns : \/ TurnsAway(c) \/ DialSucceeds(c)
                      \/ RemoteEnds(c) \/ LocalEnds(c) \/ CopyFails(c)

LEMMA QuietKeepsPermits ==
  ASSUME BridgeInv, Quiet
  PROVE  /\ permits' = permits
         /\ \A s \in Sessions : Holders(s)' = Holders(s)
         /\ TypeOK'
         /\ HasSession'
<1> USE DEF BridgeInv, TypeOK, HasSession, Stages, Holders, HasPermit
<1>1. ASSUME NEW s \in Sessions, SessionStarts(s)
      PROVE  /\ permits' = permits
             /\ \A t \in Sessions : Holders(t)' = Holders(t)
             /\ TypeOK' /\ HasSession'
  BY <1>1 DEF SessionStarts
<1>2. ASSUME NEW s \in Sessions, SessionEnds(s)
      PROVE  /\ permits' = permits
             /\ \A t \in Sessions : Holders(t)' = Holders(t)
             /\ TypeOK' /\ HasSession'
  BY <1>2 DEF SessionEnds, Of
<1>3. ASSUME NEW c \in Conns, NEW s \in Sessions, Accepts(c, s)
      PROVE  /\ permits' = permits
             /\ \A t \in Sessions : Holders(t)' = Holders(t)
             /\ TypeOK' /\ HasSession'
  BY <1>3 DEF Accepts
<1>4. ASSUME NEW c \in Conns, TurnsAway(c) \/ DialSucceeds(c) \/ CopyFails(c)
      PROVE  /\ permits' = permits
             /\ \A t \in Sessions : Holders(t)' = Holders(t)
             /\ TypeOK' /\ HasSession'
  BY <1>4 DEF TurnsAway, DialSucceeds, CopyFails
<1>5. ASSUME NEW c \in Conns, RemoteEnds(c)
      PROVE  /\ permits' = permits
             /\ \A t \in Sessions : Holders(t)' = Holders(t)
             /\ TypeOK' /\ HasSession'
  BY <1>5 DEF RemoteEnds
<1>6. ASSUME NEW c \in Conns, LocalEnds(c)
      PROVE  /\ permits' = permits
             /\ \A t \in Sessions : Holders(t)' = Holders(t)
             /\ TypeOK' /\ HasSession'
  BY <1>6 DEF LocalEnds
<1> QED
  BY <1>1, <1>2, <1>3, <1>4, <1>5, <1>6 DEF Quiet

-----------------------------------------------------------------------------
LEMMA NextSplits ==
  ASSUME Next
  PROVE  \/ Quiet
         \/ \E c \in Conns : Admits(c)
         \/ \E c \in Conns : stage[c] \in {"dialling", "closing"} /\ Finishes(c)
BY DEF Next, Quiet, Handles, DialFails, Closes

LEMMA BridgeStep ==
  ASSUME BridgeInv, [Next]_vars
  PROVE  BridgeInv'
<1>1. CASE UNCHANGED vars
  BY <1>1 DEF vars, BridgeInv, TypeOK, HasSession, PermitsAreConserved, Holders, HasPermit
<1>2. CASE Quiet
  BY <1>2, QuietKeepsPermits, SameHolders DEF BridgeInv
<1>3. ASSUME NEW c \in Conns, Admits(c)
      PROVE  BridgeInv'
  <2>1. TypeOK' /\ HasSession'
    BY <1>3, AdmissionTakesPermit DEF BridgeInv, TypeOK, HasSession, Stages, Admits
  <2> QED
    BY <1>3, <2>1, AdmissionTakesPermit DEF BridgeInv
<1>4. ASSUME NEW c \in Conns, stage[c] \in {"dialling", "closing"}, Finishes(c)
      PROVE  BridgeInv'
  <2>1. TypeOK' /\ HasSession'
    BY <1>4, FinishReturnsPermit DEF BridgeInv, TypeOK, HasSession, Stages, Finishes
  <2> QED
    BY <1>4, <2>1, FinishReturnsPermit DEF BridgeInv
<1> QED
  BY <1>1, <1>2, <1>3, <1>4, NextSplits

LEMMA BridgeStarts == Init => BridgeInv
<1> SUFFICES ASSUME Init PROVE BridgeInv
  OBVIOUS
<1>1. TypeOK /\ HasSession
  BY CapacityType DEF Init, TypeOK, HasSession, Stages
<1>2. \A s \in Sessions : Holders(s) = {}
  BY DEF Init, Holders, HasPermit
<1>3. PermitsAreConserved
  BY <1>2, CapacityType, FS_EmptySet DEF Init, PermitsAreConserved
<1> QED
  BY <1>1, <1>3 DEF BridgeInv

LEMMA BridgeInvariant == Spec => []BridgeInv
BY BridgeStarts, BridgeStep, PTL DEF Spec

(* Every variable keeps its type; of the permits this says that no task    *)
(* gives back one it did not take.                                         *)
THEOREM BridgeTypeCorrect == Spec => []TypeOK
BY BridgeInvariant, PTL DEF BridgeInv

(* No permit is lost or made, for any number of connections and sessions   *)
(* and any limit, whichever way the tasks and the sessions end.            *)
THEOREM PermitsConserved == Spec => []PermitsAreConserved
BY BridgeInvariant, PTL DEF BridgeInv

-----------------------------------------------------------------------------
(* Each session implements a pool *)

LEMMA PoolStarts ==
  ASSUME Init, NEW s \in Sessions
  PROVE  Pool(s)!Init
BY DEF Init, Pool!Init, Holders, HasPermit, Of

LEMMA PoolCardinality ==
  ASSUME NEW s, NEW set
  PROVE  Pool(s)!Cardinality(set) = Cardinality(set)
BY DEF Pool!Cardinality, Cardinality

(* A connection that frps opened and the handler has not admitted yet is   *)
(* new to the pool of its session.                                         *)
LEMMA PoolStep ==
  ASSUME BridgeInv, [Next]_vars, NEW s \in Sessions
  PROVE  [Pool(s)!Next]_(Pool(s)!vars)
<1> DEFINE away == Of(s, {"turnedAway"})
           left == Of(s, {"done"})
<1> USE DEF BridgeInv, TypeOK, HasSession
<1>1. CASE UNCHANGED vars
  BY <1>1 DEF vars, Pool!vars, Holders, HasPermit, Of
<1>2. ASSUME NEW c \in Conns, Admits(c)
      PROVE  [Pool(s)!Next]_(Pool(s)!vars)
  <2>1. away' = away /\ left' = left
    BY <1>2 DEF Admits, Of, Stages
  <2>2. CASE s # via[c]
    BY <1>2, <2>1, <2>2, AdmissionTakesPermit DEF Pool!vars
  <2>3. CASE s = via[c]
    <3>1. Pool(s)!New(c)
      BY <1>2 DEF Admits, Pool!New, Holders, HasPermit, Of
    <3>2. Cardinality(Holders(s)) < Capacity
      BY <1>2, <2>3, HoldersFinite, CapacityType DEF Admits, PermitsAreConserved
    <3>3. Holders(s)' = Holders(s) \cup {c}
      BY <1>2, <2>3, AdmissionTakesPermit
    <3>4. Pool(s)!Enter(c)
      BY <3>1, <3>2, <3>3, <2>1, PoolCardinality DEF Pool!Enter
    <3> QED
      BY <3>4 DEF Pool!Next
  <2> QED
    BY <2>2, <2>3
<1>3. ASSUME NEW c \in Conns, stage[c] \in {"dialling", "closing"}, Finishes(c)
      PROVE  [Pool(s)!Next]_(Pool(s)!vars)
  <2>1. away' = away
    BY <1>3 DEF Finishes, Of, Stages
  <2>2. CASE s # via[c]
    <3>1. left' = left
      BY <1>3, <2>2 DEF Finishes, Of, Stages
    <3> QED
      BY <1>3, <2>1, <2>2, <3>1, FinishReturnsPermit DEF Pool!vars
  <2>3. CASE s = via[c]
    <3>1. left' = left \cup {c}
      BY <1>3, <2>3 DEF Finishes, Of, Stages
    <3>2. Pool(s)!Leave(c)
      BY <1>3, <2>1, <2>3, <3>1, FinishReturnsPermit DEF Pool!Leave
    <3> QED
      BY <3>2 DEF Pool!Next
  <2> QED
    BY <2>2, <2>3
<1>4. ASSUME NEW c \in Conns, TurnsAway(c)
      PROVE  [Pool(s)!Next]_(Pool(s)!vars)
  <2>1. Quiet
    BY <1>4 DEF Quiet
  <2>2. Holders(s)' = Holders(s)
    BY <2>1, QuietKeepsPermits
  <2>3. left' = left
    BY <1>4 DEF TurnsAway, Of, Stages
  <2>4. CASE s # via[c]
    <3>1. away' = away
      BY <1>4, <2>4 DEF TurnsAway, Of, Stages
    <3> QED
      BY <2>2, <2>3, <3>1 DEF Pool!vars
  <2>5. CASE s = via[c]
    <3>1. away' = away \cup {c}
      BY <1>4, <2>5 DEF TurnsAway, Of, Stages
    <3>2. Pool(s)!New(c)
      BY <1>4 DEF TurnsAway, Pool!New, Holders, HasPermit, Of
    <3>3. Cardinality(Holders(s)) = Capacity
      BY <1>4, <2>5, HoldersFinite DEF TurnsAway, PermitsAreConserved
    <3>4. Pool(s)!TurnAway(c)
      BY <2>2, <2>3, <3>1, <3>2, <3>3, PoolCardinality DEF Pool!TurnAway
    <3> QED
      BY <3>4 DEF Pool!Next
  <2> QED
    BY <2>4, <2>5
<1>5. CASE Quiet /\ ~\E c \in Conns : TurnsAway(c)
  <2>1. Holders(s)' = Holders(s)
    BY <1>5, QuietKeepsPermits
  <2>2. away' = away /\ left' = left
    <3>1. ASSUME NEW t \in Sessions, SessionStarts(t) \/ SessionEnds(t)
          PROVE  away' = away /\ left' = left
      BY <3>1 DEF SessionStarts, SessionEnds, Of, Stages
    <3>2. ASSUME NEW c \in Conns, NEW t \in Sessions, Accepts(c, t)
          PROVE  away' = away /\ left' = left
      BY <3>2 DEF Accepts, Of, Stages
    <3>3. ASSUME NEW c \in Conns, DialSucceeds(c) \/ CopyFails(c)
          PROVE  away' = away /\ left' = left
      BY <3>3 DEF DialSucceeds, CopyFails, Of, Stages
    <3>4. ASSUME NEW c \in Conns, RemoteEnds(c) \/ LocalEnds(c)
          PROVE  away' = away /\ left' = left
      BY <3>4 DEF RemoteEnds, LocalEnds, Of, Stages
    <3> QED
      BY <1>5, <3>1, <3>2, <3>3, <3>4 DEF Quiet
  <2> QED
    BY <2>1, <2>2 DEF Pool!vars
<1> QED
  BY <1>1, <1>2, <1>3, <1>4, <1>5, NextSplits

(* Each ssh session is a bounded pool of its own, which turns nobody away  *)
(* while it has room.                                                      *)
THEOREM SessionsArePools == Spec => EachSessionIsAPool
<1> DEFINE Step == \A s \in Sessions : [Pool(s)!Next]_(Pool(s)!vars)
<1>1. Init => \A s \in Sessions : Pool(s)!Init
  BY PoolStarts
<1>2. BridgeInv /\ [Next]_vars => [Step]_vars
  BY PoolStep
<1> QED
  BY <1>1, <1>2, BridgeInvariant, PTL DEF Spec, EachSessionIsAPool
=============================================================================
