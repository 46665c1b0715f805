-------------------------- MODULE CloseStateProofs --------------------------
(***************************************************************************)
(* Proofs about CloseState, for any tasks and any calls of close().        *)
(***************************************************************************)
EXTENDS CloseState, TLAPS

(* A wake-up is lost only if nobody is left to notify; and a notification  *)
(* or a return is seen only after the flag was stored.                     *)
WakeInv ==
  /\ NoLostWakeup
  /\ ReturnsOnlyWhenClosed
  /\ generation > 0 => closed
  /\ \A c \in Closers : closerPc[c] # "start" => closed

(* Every variable of a CloseState has its type, in every interleaving of   *)
(* waiters and closers.                                                    *)
THEOREM CloseStateTypeCorrect == Spec => []TypeOK
<1>1. Init => TypeOK
  <2> SUFFICES ASSUME Init PROVE TypeOK
    OBVIOUS
  <2>1. 0 \in 0 .. generation
    BY DEF Init
  <2> QED
    BY <2>1 DEF Init, TypeOK
<1>2. TypeOK /\ [Next]_vars => TypeOK'
  <2> SUFFICES ASSUME TypeOK, [Next]_vars PROVE TypeOK'
    OBVIOUS
  <2> USE DEF TypeOK
  <2>1. ASSUME NEW c \in Closers, StoreFlag(c) PROVE TypeOK'
    BY <2>1 DEF StoreFlag
  <2>2. ASSUME NEW c \in Closers, NotifyWaiters(c) PROVE TypeOK'
    BY <2>2 DEF NotifyWaiters
  <2>3. ASSUME NEW w \in Waiters, Register(w) PROVE TypeOK'
    BY <2>3 DEF Register
  <2>4. ASSUME NEW w \in Waiters, CheckFlag(w) PROVE TypeOK'
    BY <2>4 DEF CheckFlag
  <2>5. ASSUME NEW w \in Waiters, Wake(w) PROVE TypeOK'
    BY <2>5 DEF Wake
  <2>6. ASSUME NEW w \in Waiters, Drop(w) PROVE TypeOK'
    BY <2>6 DEF Drop
  <2>7. CASE UNCHANGED vars
    BY <2>7 DEF vars
  <2> QED
    BY <2>1, <2>2, <2>3, <2>4, <2>5, <2>6, <2>7 DEF Next
<1> QED
  BY <1>1, <1>2, PTL DEF Spec

(* What close() and cancelled() keep between them, step by step (WakeInv). *)
THEOREM WakeInvariant == Spec => []WakeInv
<1>1. Init => WakeInv
  BY DEF Init, WakeInv, NoLostWakeup, ReturnsOnlyWhenClosed
<1>2. TypeOK /\ WakeInv /\ [Next]_vars => WakeInv'
  <2> SUFFICES ASSUME TypeOK, WakeInv, [Next]_vars PROVE WakeInv'
    OBVIOUS
  <2> USE DEF TypeOK, WakeInv, NoLostWakeup, ReturnsOnlyWhenClosed
  <2>1. ASSUME NEW c \in Closers, StoreFlag(c) PROVE WakeInv'
    BY <2>1 DEF StoreFlag
  <2>2. ASSUME NEW c \in Closers, NotifyWaiters(c) PROVE WakeInv'
    BY <2>2 DEF NotifyWaiters
  <2>3. ASSUME NEW w \in Waiters, Register(w) PROVE WakeInv'
    BY <2>3 DEF Register
  <2>4. ASSUME NEW w \in Waiters, CheckFlag(w) PROVE WakeInv'
    BY <2>4 DEF CheckFlag
  <2>5. ASSUME NEW w \in Waiters, Wake(w) PROVE WakeInv'
    BY <2>5 DEF Wake
  <2>6. ASSUME NEW w \in Waiters, Drop(w) PROVE WakeInv'
    BY <2>6 DEF Drop
  <2>7. CASE UNCHANGED vars
    BY <2>7 DEF vars
  <2> QED
    BY <2>1, <2>2, <2>3, <2>4, <2>5, <2>6, <2>7 DEF Next
<1> QED
  BY <1>1, <1>2, CloseStateTypeCorrect, PTL DEF Spec

(* No waiter is left parked by a close() that went through: registering    *)
(* with the Notify before testing the flag is enough.                      *)
THEOREM WakeupsAreNotLost == Spec => []NoLostWakeup
BY WakeInvariant, PTL DEF WakeInv

(* cancelled() resolves for nobody before close().                         *)
THEOREM NobodyReturnsEarly == Spec => []ReturnsOnlyWhenClosed
BY WakeInvariant, PTL DEF WakeInv

(* The flag and the Notify implement the safety of a sticky cancellation.  *)
THEOREM SafeStickyCancel == Spec => Sticky!Spec
<1>1. Init => Sticky!Init
  BY DEF Init, Sticky!Init
<1>2. TypeOK /\ WakeInv /\ [Next]_vars => [Sticky!Next]_(Sticky!vars)
  <2> SUFFICES ASSUME TypeOK, WakeInv, [Next]_vars
               PROVE  Sticky!Next \/ UNCHANGED Sticky!vars
    BY DEF Sticky!vars
  <2> USE DEF TypeOK
  <2>1. ASSUME NEW c \in Closers, StoreFlag(c) PROVE Sticky!Cancel
    BY <2>1 DEF StoreFlag, Sticky!Cancel
  <2>2. ASSUME NEW c \in Closers, NotifyWaiters(c) PROVE UNCHANGED Sticky!vars
    BY <2>2 DEF NotifyWaiters, Sticky!vars
  <2>3. ASSUME NEW w \in Waiters, Register(w) PROVE Sticky!Wait(w)
    BY <2>3 DEF Register, Sticky!Wait
  <2>4. ASSUME NEW w \in Waiters, CheckFlag(w)
        PROVE  Sticky!Return(w) \/ UNCHANGED Sticky!vars
    <3>1. CASE closed
      BY <2>4, <3>1 DEF CheckFlag, Sticky!Return
    <3>2. CASE ~closed
      BY <2>4, <3>2 DEF CheckFlag, Sticky!vars
    <3> QED
      BY <3>1, <3>2
  <2>5. ASSUME NEW w \in Waiters, Wake(w) PROVE Sticky!Return(w)
    <3>1. closed
      BY <2>5 DEF Wake, WakeInv
    <3> QED
      BY <2>5, <3>1 DEF Wake, Sticky!Return
  <2>6. ASSUME NEW w \in Waiters, Drop(w) PROVE Sticky!Abandon(w)
    BY <2>6 DEF Drop, Sticky!Abandon
  <2>7. CASE UNCHANGED vars
    BY <2>7 DEF vars, Sticky!vars
  <2> QED
    BY <2>1, <2>2, <2>3, <2>4, <2>5, <2>6, <2>7 DEF Next, Sticky!Next
<1> QED
  BY <1>1, <1>2, CloseStateTypeCorrect, WakeInvariant, PTL DEF Spec, Sticky!Spec
=============================================================================
