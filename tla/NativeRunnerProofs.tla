------------------------- MODULE NativeRunnerProofs -------------------------
(***************************************************************************)
(* Proofs about NativeRunner, for any number of ssh children.              *)
(***************************************************************************)
EXTENDS NativeRunner, TLAPS

(* A task ends only when its child is not there, a child is killed only    *)
(* after cancellation, and that only after a signal.                       *)
ChildInv ==
  /\ TypeOK
  /\ cancelled => signalled
  /\ mainPc = "exited" => reaped = Commands
  /\ \A c \in reaped : taskPc[c] = "ended"
  /\ \A c \in Commands :
       /\ taskPc[c] = "spawning" => child[c] = "none"
       /\ child[c] = "killed" => cancelled
       /\ taskPc[c] \in {"flushing", "ended"} => child[c] # "running"

(* The stage of each task of native::run goes with the state of its child  *)
(* (ChildInv).                                                             *)
THEOREM ChildInvariant == Spec => []ChildInv
<1> USE DEF ChildInv, TypeOK
<1>1. Init => ChildInv
  BY DEF Init
<1>2. ChildInv /\ [Next]_vars => ChildInv'
  <2> SUFFICES ASSUME ChildInv, [Next]_vars PROVE ChildInv'
    OBVIOUS
  <2>1. ASSUME NEW c \in Commands, SpawnSucceeds(c) PROVE ChildInv'
    BY <2>1 DEF SpawnSucceeds
  <2>2. ASSUME NEW c \in Commands, SpawnFails(c) PROVE ChildInv'
    BY <2>2 DEF SpawnFails
  <2>3. ASSUME NEW c \in Commands, SeesExit(c) PROVE ChildInv'
    BY <2>3 DEF SeesExit
  <2>4. ASSUME NEW c \in Commands, CancelKillsChild(c) PROVE ChildInv'
    BY <2>4 DEF CancelKillsChild
  <2>5. ASSUME NEW c \in Commands, ReapsChild(c) PROVE ChildInv'
    BY <2>5 DEF ReapsChild
  <2>6. ASSUME NEW c \in Commands, FlushesOutput(c) PROVE ChildInv'
    BY <2>6 DEF FlushesOutput
  <2>7. CASE MainHearsSignal
    BY <2>7 DEF MainHearsSignal
  <2>8. ASSUME NEW c \in Commands, MainJoinsFirst(c) PROVE ChildInv'
    BY <2>8 DEF MainJoinsFirst
  <2>9. ASSUME NEW c \in Commands, MainDrains(c) PROVE ChildInv'
    BY <2>9 DEF MainDrains
  <2>10. CASE MainExits
    BY <2>10 DEF MainExits
  <2>11. CASE SignalArrives
    BY <2>11 DEF SignalArrives
  <2>12. ASSUME NEW c \in Commands, ChildExits(c) PROVE ChildInv'
    BY <2>12 DEF ChildExits
  <2>13. CASE UNCHANGED vars
    BY <2>13 DEF vars
  <2> QED
    BY <2>1, <2>2, <2>3, <2>4, <2>5, <2>6, <2>7, <2>8, <2>9, <2>10, <2>11, <2>12,
       <2>13
       DEF Next, TaskStep, MainStep
<1> QED
  BY <1>1, <1>2, PTL DEF Spec

(* native::run returns only when no ssh child runs.                        *)
THEOREM NoChildIsLeft == Spec => []ExitLeavesNoChild
<1>1. ChildInv => ExitLeavesNoChild
  BY DEF ChildInv, TypeOK, ExitLeavesNoChild
<1> QED
  BY <1>1, ChildInvariant, PTL

(* No child is killed before a signal was delivered.                       *)
THEOREM NoChildDiesUnasked == Spec => []ChildrenDieOfSignalsOnly
<1>1. ChildInv => ChildrenDieOfSignalsOnly
  BY DEF ChildInv, TypeOK, ChildrenDieOfSignalsOnly
<1> QED
  BY <1>1, ChildInvariant, PTL
=============================================================================
