----------------------------- MODULE CloseState -----------------------------
(***************************************************************************)
(* CloseState (src/src/ssh/gateway.rs), and NativeCancel                   *)
(* (src/src/ssh/native.rs), which is the same code: an atomic flag and a   *)
(* tokio Notify. close() and cancelled() are called from any task at any   *)
(* moment; a step is one access to the flag or to the Notify.              *)
(*                                                                         *)
(* Of tokio's Notify the code uses this much: a `notified()` future        *)
(* completes once notify_waiters() was called after the future was         *)
(* created, whether or not it had been polled. `generation` counts those   *)
(* calls, and a future remembers the count it was created at.              *)
(***************************************************************************)
EXTENDS Naturals

CONSTANTS
  Waiters,  \* the tasks that call cancelled()
  Closers   \* the calls of close()

VARIABLES
  closed,      \* the AtomicBool
  generation,  \* Notify: how many times notify_waiters() was called
  created,     \* Notify: the generation at which a waiter's future was created
  waiterPc,
  closerPc

vars == <<closed, generation, created, waiterPc, closerPc>>

Init ==
  /\ closed = FALSE
  /\ generation = 0
  /\ created = [w \in Waiters |-> 0]
  /\ waiterPc = [w \in Waiters |-> "away"]
  /\ closerPc = [c \in Closers |-> "start"]

-----------------------------------------------------------------------------
(* Faulty variants, used by no specification.                              *)

(* closed() without the test between notified() and the await.             *)
ParksUnchecked(w) ==
  /\ waiterPc[w] = "registered"
  /\ waiterPc' = [waiterPc EXCEPT ![w] = "parked"]
  /\ UNCHANGED <<closed, generation, created, closerPc>>

(* close() only stores the flag.                                           *)
ForgetsToNotify(c) ==
  /\ closerPc[c] = "stored"
  /\ closerPc' = [closerPc EXCEPT ![c] = "returned"]
  /\ UNCHANGED <<closed, generation, created, waiterPc>>

-----------------------------------------------------------------------------
(* close() *)

StoreFlag(c) ==
  /\ closerPc[c] = "start"
  /\ closed' = TRUE
  /\ closerPc' = [closerPc EXCEPT ![c] = "stored"]
  /\ UNCHANGED <<generation, created, waiterPc>>

NotifyWaiters(c) ==
  /\ closerPc[c] = "stored"
  /\ generation' = generation + 1
  /\ closerPc' = [closerPc EXCEPT ![c] = "returned"]
  /\ UNCHANGED <<closed, created, waiterPc>>

(* cancelled() *)

Register(w) ==
  /\ waiterPc[w] = "away"
  /\ created' = [created EXCEPT ![w] = generation]
  /\ waiterPc' = [waiterPc EXCEPT ![w] = "registered"]
  /\ UNCHANGED <<closed, generation, closerPc>>

CheckFlag(w) ==
  /\ waiterPc[w] = "registered"
  /\ waiterPc' = [waiterPc EXCEPT ![w] = IF closed THEN "returned" ELSE "parked"]
  /\ UNCHANGED <<closed, generation, created, closerPc>>

Wake(w) ==
  /\ waiterPc[w] = "parked"
  /\ created[w] # generation
  /\ waiterPc' = [waiterPc EXCEPT ![w] = "returned"]
  /\ UNCHANGED <<closed, generation, created, closerPc>>

(* The select! around the future took another branch and dropped it; a     *)
(* later select!, as in the loop of pump(), makes a new one.               *)
Drop(w) ==
  /\ waiterPc[w] = "parked"
  /\ waiterPc' = [waiterPc EXCEPT ![w] = "away"]
  /\ UNCHANGED <<closed, generation, created, closerPc>>

Next ==
  \/ \E c \in Closers : StoreFlag(c) \/ NotifyWaiters(c)
  \/ \E w \in Waiters : Register(w) \/ CheckFlag(w) \/ Wake(w) \/ Drop(w)

Spec == Init /\ [][Next]_vars

(* A task inside close() or cancelled() is polled until it is through; no  *)
(* one has to call them, and a dropped future need not be made again.      *)
Fairness ==
  /\ \A c \in Closers : WF_vars(NotifyWaiters(c))
  /\ \A w \in Waiters : WF_vars(CheckFlag(w)) /\ WF_vars(Wake(w))

FairSpec == Spec /\ Fairness

-----------------------------------------------------------------------------
(* Properties *)

TypeOK ==
  /\ closed \in BOOLEAN
  /\ generation \in Nat
  /\ created \in [Waiters -> 0 .. generation]
  /\ waiterPc \in [Waiters -> {"away", "registered", "parked", "returned"}]
  /\ closerPc \in [Closers -> {"start", "stored", "returned"}]

(* "a close() racing this call cannot be missed" (closed()): when the flag *)
(* is set, a parked waiter either was woken already or is about to be, by  *)
(* a close() that has not reached notify_waiters() yet.                    *)
NoLostWakeup ==
  \A w \in Waiters :
    closed /\ waiterPc[w] = "parked" =>
      \/ created[w] < generation
      \/ \E c \in Closers : closerPc[c] = "stored"

(* cancelled() returns only after close() stored the flag.                 *)
ReturnsOnlyWhenClosed ==
  \A w \in Waiters : waiterPc[w] = "returned" => closed

(* A CloseState is a sticky cancellation.                                  *)
Sticky == INSTANCE StickyCancel WITH
  cancelled <- closed,
  waiter <- [w \in Waiters |->
               IF waiterPc[w] \in {"registered", "parked"} THEN "waiting"
                                                           ELSE waiterPc[w]]

ImplementsStickyCancel == Sticky!FairSpec
=============================================================================
