------------------------------- MODULE Tunnel -------------------------------
(***************************************************************************)
(* What a TunnelClient promises the runner: an attempt goes through        *)
(* TunnelStates' stages, and it ends once it is cancelled. GatewayRunner   *)
(* composes tunnels that behave like this one; TunnelClient implements it. *)
(***************************************************************************)
EXTENDS TunnelStates

VARIABLES status, cancelled

vars == <<status, cancelled>>

Init == status = "idle" /\ cancelled = FALSE

(* close() was called, and not for the first time perhaps.                 *)
Cancel == cancelled' = TRUE /\ UNCHANGED status

Step ==
  /\ \E s \in NextStatus(status, cancelled) : status' = s
  /\ UNCHANGED cancelled

Next == Cancel \/ Step

Spec == Init /\ [][Next]_vars

(* Only an open tunnel that nobody cancelled may stay as it is.            *)
FairSpec == Spec /\ WF_vars(Step /\ (cancelled \/ status # "open"))
=============================================================================
