---------------------------- MODULE StickyCancel ----------------------------
(***************************************************************************)
(* What a CloseState promises its users: a flag that is set once, and      *)
(* waiters that return when it is set, whenever they began to wait.        *)
(***************************************************************************)
CONSTANT Waiters

VARIABLES cancelled, waiter

vars == <<cancelled, waiter>>

Init == cancelled = FALSE /\ waiter = [w \in Waiters |-> "away"]

Cancel == cancelled' = TRUE /\ UNCHANGED waiter

Wait(w) ==
  /\ waiter[w] = "away"
  /\ waiter' = [waiter EXCEPT ![w] = "waiting"]
  /\ UNCHANGED cancelled

(* The future is dropped: another branch of the select! won.               *)
Abandon(w) ==
  /\ waiter[w] = "waiting"
  /\ waiter' = [waiter EXCEPT ![w] = "away"]
  /\ UNCHANGED cancelled

Return(w) ==
  /\ cancelled
  /\ waiter[w] = "waiting"
  /\ waiter' = [waiter EXCEPT ![w] = "returned"]
  /\ UNCHANGED cancelled

Next == Cancel \/ \E w \in Waiters : Wait(w) \/ Abandon(w) \/ Return(w)

Spec == Init /\ [][Next]_vars

FairSpec == Spec /\ \A w \in Waiters : WF_vars(Return(w))
=============================================================================
