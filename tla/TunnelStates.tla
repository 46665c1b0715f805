---------------------------- MODULE TunnelStates ----------------------------
(***************************************************************************)
(* What the runner may assume of one tunnel attempt: the stages of         *)
(* TunnelClient::start (src/src/ssh/gateway.rs) that can be told apart     *)
(* from outside, and the stages each one may be followed by.               *)
(*                                                                         *)
(* Tunnel.tla makes a specification of it, TunnelClient.tla implements     *)
(* that specification handler by handler, and GatewayRunner.tla composes   *)
(* one tunnel per proxy out of the same transition relation.               *)
(***************************************************************************)

(* The four results of an attempt: TunnelOutcome::Closed and the three     *)
(* cases of TunnelError.                                                   *)
Final == {"Closed", "ProxyConflict", "Canceled", "Other"}

(* "idle":  built, start() not entered.                                    *)
(* "setup": connecting, authenticating, requesting the forward.            *)
(* "open":  the exec request was sent; pump() reads the session.           *)
Status == {"idle", "setup", "open"} \cup Final

(* The statuses that may follow s in a tunnel whose own CloseState is      *)
(* closed exactly when `cancelled`. A result is never left, and nothing    *)
(* but cancellation yields Canceled. A cancelled tunnel may still end with *)
(* another result: pump() does not look at the flag once frps closed the   *)
(* channel, and every failure of the set-up returns Other.                 *)
NextStatus(s, cancelled) ==
  CASE s = "idle"  -> IF cancelled THEN {"Canceled"} ELSE {"setup"}
    [] s = "setup" -> {"open", "Other"} \cup
                      (IF cancelled THEN {"Canceled"} ELSE {})
    [] s = "open"  -> {"Closed", "ProxyConflict", "Other"} \cup
                      (IF cancelled THEN {"Canceled"} ELSE {})
    [] s \in Final -> {}
=============================================================================
