---------------------------- MODULE GatewayRunner ---------------------------
(***************************************************************************)
(* The gateway runner (src/src/runner/gateway.rs): one task per proxy that *)
(* keeps a tunnel to frps up, walking the rename sequence on a conflict    *)
(* and backing off on a failure; the task that joins them; and the main    *)
(* task that waits for a signal and closes everything.                     *)
(*                                                                         *)
(* A step is what one task does between two points where another task can  *)
(* be observed: an await, a load or store of the closed flag, or a         *)
(* critical section of the `active` mutex. The binaries run these tasks on *)
(* tokio's multi-threaded runtime, so all interleavings of steps are real. *)
(* The tunnel of a proxy is TunnelStates' transition relation. Time is     *)
(* abstracted: a delay may end at any moment; its length is kept only      *)
(* where the code computes it (backoff).                                   *)
(***************************************************************************)
EXTENDS Integers, FiniteSets, TunnelStates

CONSTANTS
  Proxies,             \* the indices of runner.commands
  RenameEnabled,       \* config.rename
  MaxSameNameRetries,  \* RetryOptions::max_same_name_retries
  MaxRenameRetries,    \* RetryOptions::max_rename_retries
  MaxExSequence,       \* rename::MAX_EX_SEQUENCE
  ReconnectBaseDelay,  \* RetryOptions::reconnect_base_delay, in seconds
  ReconnectMaxDelay,   \* RetryOptions::reconnect_max_delay, in seconds
  Unwinds              \* TRUE in builds with panic = "unwind"

ASSUME ProxiesAssumption == IsFiniteSet(Proxies)

ASSUME SwitchAssumption == RenameEnabled \in BOOLEAN /\ Unwinds \in BOOLEAN

ASSUME RetryAssumption ==
  /\ MaxSameNameRetries \in Nat
  /\ MaxRenameRetries \in Nat
  /\ MaxExSequence \in Nat \ {0}
  /\ ReconnectBaseDelay \in Nat
  /\ ReconnectMaxDelay \in Nat
  /\ ReconnectBaseDelay <= ReconnectMaxDelay

VARIABLES
  closed,     \* the runner's CloseState
  active,     \* the proxies with an entry in the `active` map
  mainPc,     \* where gateway::run(config) is
  joinPc,     \* where GatewayRunner::run is
  reaped,     \* the tasks join_next() has returned
  pc,         \* where the proxy's task is
  phase,      \* which loop of try_proxy it is in
  attempt,    \* the counter of that loop
  exNumber,   \* 0: the configured name; n: the name under ex_n_
  backoff,
  failed,     \* `outcome.is_err()` of the last finished attempt
  tunnel,     \* the status of the proxy's tunnel
  cancelled,  \* the CloseState of that tunnel
  tried,      \* history: the names frps refused in this reconnect cycle
  kept,       \* history: the ex_N_ name that worked and was not refused since
  raced       \* history: the tunnels the last sweep of `active` came too early for

control == <<mainPc, joinPc, reaped>>
naming  == <<phase, attempt, exNumber, tried, kept>>
pacing  == <<backoff, failed>>
tunnels == <<active, tunnel, cancelled>>
vars    == <<closed, control, pc, naming, pacing, tunnels, raced>>

Names == 0 .. MaxExSequence

TaskPc == {"loop", "start", "insert", "tunnel", "conflictWait",
           "backoffWait", "done", "panicked"}

(* The name the current attempt registers; 0 is the configured one.        *)
Wanted(p) == IF phase[p] = "same" THEN 0 ELSE exNumber[p]

(* The proxies whose task has ended, one way or the other.                 *)
Ended == {p \in Proxies : pc[p] \in {"done", "panicked"}}

Init ==
  /\ closed = FALSE
  /\ active = {}
  /\ mainPc = "waiting"
  /\ joinPc = "joining"
  /\ reaped = {}
  /\ pc = [p \in Proxies |-> "loop"]
  /\ phase = [p \in Proxies |-> "same"]
  /\ attempt = [p \in Proxies |-> 0]
  /\ exNumber = [p \in Proxies |-> 0]
  /\ backoff = [p \in Proxies |-> ReconnectBaseDelay]
  /\ failed = [p \in Proxies |-> FALSE]
  /\ tunnel = [p \in Proxies |-> "idle"]
  /\ cancelled = [p \in Proxies |-> FALSE]
  /\ tried = [p \in Proxies |-> {}]
  /\ kept = [p \in Proxies |-> 0]
  /\ raced = {}

-----------------------------------------------------------------------------
(* Faulty variants: plausible mistakes in the code below, kept here so     *)
(* that each property can be seen to catch one. Next uses none of them.    *)

(* `number > MAX_EX_SEQUENCE`: the sequence runs one name too far.         *)
NextExTooFar(n) == IF n > MaxExSequence THEN 1 ELSE n + 1

(* The sequence wraps before its last name.                                *)
NextExWrapsEarly(n) == IF n + 1 >= MaxExSequence THEN 1 ELSE n + 1

(* start() returns without `active.remove`.                                *)
AttemptEndsInMap(p, r) ==
  /\ pc[p] = "tunnel"
  /\ tunnel[p] = r
  /\ active' = active
  /\ tunnel' = [tunnel EXCEPT ![p] = "idle"]
  /\ cancelled' = [cancelled EXCEPT ![p] = FALSE]

(* A renamed proxy starts its cycle with the name it has, and does not     *)
(* probe the configured one.                                               *)
CycleBeginsRenamed(p) ==
  /\ pc[p] = "loop"
  /\ ~closed
  /\ pc' = [pc EXCEPT ![p] = "start"]
  /\ phase' = [phase EXCEPT ![p] = IF exNumber[p] = 0 THEN "same" ELSE "rename"]
  /\ attempt' = [attempt EXCEPT ![p] = 0]
  /\ tried' = [tried EXCEPT ![p] = {}]
  /\ UNCHANGED <<closed, control, exNumber, kept, pacing, tunnels, raced>>

(* The reset of the backoff moved before the match on the outcome.         *)
HandleOtherResetsBackoff(p) ==
  /\ pc[p] = "tunnel"
  /\ tunnel[p] = "Other"
  /\ active' = active \ {p}
  /\ tunnel' = [tunnel EXCEPT ![p] = "idle"]
  /\ cancelled' = [cancelled EXCEPT ![p] = FALSE]
  /\ failed' = [failed EXCEPT ![p] = TRUE]
  /\ backoff' = [backoff EXCEPT ![p] = ReconnectBaseDelay]
  /\ pc' = [pc EXCEPT ![p] = "backoffWait"]
  /\ UNCHANGED <<closed, control, naming, raced>>

(* Phase 2 without the test of rename_enabled before it.                   *)
StartRenameUnguarded(p) ==
  /\ pc[p] = "tunnel"
  /\ tunnel[p] = "ProxyConflict"
  /\ phase[p] = "same"
  /\ active' = active \ {p}
  /\ tunnel' = [tunnel EXCEPT ![p] = "idle"]
  /\ cancelled' = [cancelled EXCEPT ![p] = FALSE]
  /\ tried' = [tried EXCEPT ![p] = @ \cup {0}]
  /\ exNumber' = [exNumber EXCEPT ![p] = IF @ = 0 THEN 1 ELSE @]
  /\ phase' = [phase EXCEPT ![p] = "rename"]
  /\ attempt' = [attempt EXCEPT ![p] = 0]
  /\ pc' = [pc EXCEPT ![p] = "start"]
  /\ UNCHANGED <<closed, control, kept, pacing, raced>>

(* Phase 2 starts over at ex_1_, whatever name worked before.              *)
StartRenameFromOne(p) ==
  /\ pc[p] = "tunnel"
  /\ tunnel[p] = "ProxyConflict"
  /\ phase[p] = "same"
  /\ attempt[p] > (IF exNumber[p] = 0 THEN MaxSameNameRetries - 1 ELSE -1)
  /\ active' = active \ {p}
  /\ tunnel' = [tunnel EXCEPT ![p] = "idle"]
  /\ cancelled' = [cancelled EXCEPT ![p] = FALSE]
  /\ tried' = [tried EXCEPT ![p] = @ \cup {0}]
  /\ exNumber' = [exNumber EXCEPT ![p] = 1]
  /\ phase' = [phase EXCEPT ![p] = "rename"]
  /\ attempt' = [attempt EXCEPT ![p] = 0]
  /\ pc' = [pc EXCEPT ![p] = "start"]
  /\ UNCHANGED <<closed, control, kept, pacing, raced>>

(* The last renamed attempt is counted as used before it is made.          *)
RenamedGivesUpEarly(p) ==
  /\ phase[p] = "rename"
  /\ pc[p] = "tunnel"
  /\ tunnel[p] = "ProxyConflict"
  /\ active' = active \ {p}
  /\ tunnel' = [tunnel EXCEPT ![p] = "idle"]
  /\ cancelled' = [cancelled EXCEPT ![p] = FALSE]
  /\ tried' = [tried EXCEPT ![p] = @ \cup {exNumber[p]}]
  /\ exNumber' = [exNumber EXCEPT ![p] =
                    IF @ >= MaxExSequence THEN 1 ELSE @ + 1]
  /\ kept' = [kept EXCEPT ![p] = 0]
  /\ attempt' = [attempt EXCEPT ![p] = @ + 1]
  /\ pc' = [pc EXCEPT ![p] = IF attempt[p] + 2 < MaxRenameRetries
                             THEN "conflictWait" ELSE "backoffWait"]
  /\ failed' = [failed EXCEPT ![p] = attempt[p] + 2 >= MaxRenameRetries]
  /\ UNCHANGED <<closed, control, phase, backoff, raced>>

(* A proxy whose backoff reached the cap gives up.                         *)
BackoffElapsesOrGivesUp(p) ==
  /\ pc[p] = "backoffWait"
  /\ ~closed
  /\ pc' = [pc EXCEPT ![p] =
              IF backoff[p] = ReconnectMaxDelay THEN "done" ELSE "loop"]
  /\ backoff' = [backoff EXCEPT ![p] =
                   IF 2 * @ < ReconnectMaxDelay THEN 2 * @ ELSE ReconnectMaxDelay]
  /\ UNCHANGED <<closed, control, naming, failed, tunnels, raced>>

(* The runner's flag ends the await of tunnel.start() too, as it ends the  *)
(* waits: the tunnel is dropped with its session up.                       *)
WaitCancelledDropsTunnel(p) ==
  /\ pc[p] \in {"conflictWait", "backoffWait", "tunnel"}
  /\ closed
  /\ active' = active \ {p}
  /\ tunnel' = [tunnel EXCEPT ![p] = "idle"]
  /\ cancelled' = [cancelled EXCEPT ![p] = FALSE]
  /\ pc' = [pc EXCEPT ![p] = "done"]
  /\ UNCHANGED <<closed, control, naming, pacing, raced>>

(* close() skips the tunnels that have no session yet.                     *)
SweepOpenOnly ==
  /\ cancelled' = [p \in Proxies |-> cancelled[p] \/ (p \in active /\ tunnel[p] = "open")]
  /\ raced' = {p \in Proxies : pc[p] = "insert"}

(* close() stores the flag and leaves the tunnels alone.                   *)
MainForgetsSweep ==
  /\ mainPc = "sweeping"
  /\ mainPc' = "awaiting"
  /\ UNCHANGED <<closed, joinPc, reaped, pc, naming, pacing, tunnels, raced>>

(* A panic stores the flag only.                                           *)
JoinPanickedForgetsSweep(p) ==
  /\ joinPc = "joining"
  /\ p \notin reaped
  /\ pc[p] = "panicked"
  /\ reaped' = reaped \cup {p}
  /\ closed' = TRUE
  /\ UNCHANGED <<mainPc, joinPc, pc, naming, pacing, tunnels, raced>>

(* A panic is logged only.                                                 *)
JoinPanickedGoesOn(p) ==
  /\ joinPc = "joining"
  /\ p \notin reaped
  /\ pc[p] = "panicked"
  /\ reaped' = reaped \cup {p}
  /\ UNCHANGED <<closed, mainPc, joinPc, pc, naming, pacing, tunnels, raced>>

-----------------------------------------------------------------------------
(* The names *)

(* rename::next_ex: the sequence wraps to ex_1_.                           *)
NextEx(n) == IF n >= MaxExSequence THEN 1 ELSE n + 1

(* Extra attempts with the wanted name: only while the proxy was never     *)
(* renamed. exNumber cannot change during this phase, so reading it at     *)
(* every attempt gives what the code computed before the loop.             *)
ExtraSameNameAttempts(p) ==
  IF RenameEnabled /\ exNumber[p] = 0 THEN MaxSameNameRetries ELSE 0

(* The backoff after a failure, applied once its wait has elapsed.         *)
Doubled(delay) ==
  IF 2 * delay < ReconnectMaxDelay THEN 2 * delay ELSE ReconnectMaxDelay

-----------------------------------------------------------------------------
(* One attempt: start(), and the tunnel it runs *)

(* start() reads the runner's flag before it builds the tunnel ...         *)
StartRefused(p) ==
  /\ pc[p] = "start"
  /\ closed
  /\ pc' = [pc EXCEPT ![p] = "done"]
  /\ UNCHANGED <<closed, control, naming, pacing, tunnels, raced>>

(* ... which gets a CloseState of its own, open whatever the runner's is.  *)
StartBuildsTunnel(p) ==
  /\ pc[p] = "start"
  /\ ~closed
  /\ pc' = [pc EXCEPT ![p] = "insert"]
  /\ tunnel' = [tunnel EXCEPT ![p] = "idle"]
  /\ cancelled' = [cancelled EXCEPT ![p] = FALSE]
  /\ UNCHANGED <<closed, control, naming, pacing, active, raced>>

(* The tunnel becomes visible to close() only here.                        *)
StartInsertsTunnel(p) ==
  /\ pc[p] = "insert"
  /\ active' = active \cup {p}
  /\ pc' = [pc EXCEPT ![p] = "tunnel"]
  /\ UNCHANGED <<closed, control, naming, pacing, tunnel, cancelled, raced>>

(* tunnel.start().await, one stage of the tunnel at a time.                *)
TunnelStep(p) ==
  /\ pc[p] = "tunnel"
  /\ \E s \in NextStatus(tunnel[p], cancelled[p]) :
       tunnel' = [tunnel EXCEPT ![p] = s]
  /\ UNCHANGED <<closed, control, pc, naming, pacing, active, cancelled, raced>>

(* The tunnel returned r: start() removes it from `active` and drops it.   *)
AttemptEnds(p, r) ==
  /\ pc[p] = "tunnel"
  /\ tunnel[p] = r
  /\ active' = active \ {p}
  /\ tunnel' = [tunnel EXCEPT ![p] = "idle"]
  /\ cancelled' = [cancelled EXCEPT ![p] = FALSE]

-----------------------------------------------------------------------------
(* try_proxy and run_proxy: what a task does with the result *)

(* while !self.state.is_closed(): leave the loop, or begin a new cycle     *)
(* with the configured name.                                               *)
LoopEnds(p) ==
  /\ pc[p] = "loop"
  /\ closed
  /\ pc' = [pc EXCEPT ![p] = "done"]
  /\ UNCHANGED <<closed, control, naming, pacing, tunnels, raced>>

CycleBegins(p) ==
  /\ pc[p] = "loop"
  /\ ~closed
  /\ pc' = [pc EXCEPT ![p] = "start"]
  /\ phase' = [phase EXCEPT ![p] = "same"]
  /\ attempt' = [attempt EXCEPT ![p] = 0]
  /\ tried' = [tried EXCEPT ![p] = {}]
  /\ UNCHANGED <<closed, control, exNumber, kept, pacing, tunnels, raced>>

(* frps closed a registered tunnel: recover with the shortest delay. The   *)
(* ex_N_ name in use, if any, is kept.                                     *)
HandleClosed(p) ==
  /\ AttemptEnds(p, "Closed")
  /\ failed' = [failed EXCEPT ![p] = FALSE]
  /\ backoff' = [backoff EXCEPT ![p] = ReconnectBaseDelay]
  /\ kept' = [kept EXCEPT ![p] = IF phase[p] = "rename" THEN exNumber[p] ELSE @]
  /\ pc' = [pc EXCEPT ![p] = "backoffWait"]
  /\ UNCHANGED <<closed, control, phase, attempt, exNumber, tried, raced>>

HandleCanceled(p) ==
  /\ AttemptEnds(p, "Canceled")
  /\ pc' = [pc EXCEPT ![p] = "done"]
  /\ UNCHANGED <<closed, control, naming, pacing, raced>>

(* Any failure but a conflict ends the cycle at once, in either phase.     *)
HandleOther(p) ==
  /\ AttemptEnds(p, "Other")
  /\ failed' = [failed EXCEPT ![p] = TRUE]
  /\ pc' = [pc EXCEPT ![p] = "backoffWait"]
  /\ UNCHANGED <<closed, control, naming, backoff, raced>>

(* With renaming off a conflict is a plain failure of the cycle.           *)
HandleConflictRenameOff(p) ==
  /\ ~RenameEnabled
  /\ phase[p] = "same"
  /\ AttemptEnds(p, "ProxyConflict")
  /\ tried' = [tried EXCEPT ![p] = @ \cup {Wanted(p)}]
  /\ failed' = [failed EXCEPT ![p] = TRUE]
  /\ pc' = [pc EXCEPT ![p] = "backoffWait"]
  /\ UNCHANGED <<closed, control, phase, attempt, exNumber, kept, backoff, raced>>

(* The wanted name is taken, and it has attempts left: wait, try it again. *)
HandleConflictRetrySame(p) ==
  /\ RenameEnabled
  /\ phase[p] = "same"
  /\ attempt[p] < ExtraSameNameAttempts(p)
  /\ AttemptEnds(p, "ProxyConflict")
  /\ tried' = [tried EXCEPT ![p] = @ \cup {Wanted(p)}]
  /\ attempt' = [attempt EXCEPT ![p] = @ + 1]
  /\ pc' = [pc EXCEPT ![p] = "conflictWait"]
  /\ UNCHANGED <<closed, control, phase, exNumber, kept, pacing, raced>>

(* The wanted name is taken and out of attempts: phase 2 starts, with no   *)
(* wait, at ex_1_ or at the ex_N_ the proxy used last. With no renamed     *)
(* attempts at all its loop is empty and the conflict is returned.         *)
HandleConflictStartRename(p) ==
  /\ RenameEnabled
  /\ phase[p] = "same"
  /\ attempt[p] >= ExtraSameNameAttempts(p)
  /\ AttemptEnds(p, "ProxyConflict")
  /\ tried' = [tried EXCEPT ![p] = @ \cup {Wanted(p)}]
  /\ exNumber' = [exNumber EXCEPT ![p] = IF @ = 0 THEN 1 ELSE @]
  /\ IF MaxRenameRetries > 0
     THEN /\ phase' = [phase EXCEPT ![p] = "rename"]
          /\ attempt' = [attempt EXCEPT ![p] = 0]
          /\ pc' = [pc EXCEPT ![p] = "start"]
          /\ UNCHANGED failed
     ELSE /\ failed' = [failed EXCEPT ![p] = TRUE]
          /\ pc' = [pc EXCEPT ![p] = "backoffWait"]
          /\ UNCHANGED <<phase, attempt>>
  /\ UNCHANGED <<closed, control, kept, backoff, raced>>

(* A renamed candidate is taken: step the sequence, and wait for the next  *)
(* candidate or, out of attempts, return the conflict.                     *)
HandleConflictRenamed(p) ==
  /\ phase[p] = "rename"
  /\ AttemptEnds(p, "ProxyConflict")
  /\ tried' = [tried EXCEPT ![p] = @ \cup {Wanted(p)}]
  /\ exNumber' = [exNumber EXCEPT ![p] = NextEx(@)]
  /\ kept' = [kept EXCEPT ![p] = 0]
  /\ IF attempt[p] + 1 < MaxRenameRetries
     THEN /\ attempt' = [attempt EXCEPT ![p] = @ + 1]
          /\ pc' = [pc EXCEPT ![p] = "conflictWait"]
          /\ UNCHANGED failed
     ELSE /\ failed' = [failed EXCEPT ![p] = TRUE]
          /\ pc' = [pc EXCEPT ![p] = "backoffWait"]
          /\ UNCHANGED attempt
  /\ UNCHANGED <<closed, control, phase, backoff, raced>>

-----------------------------------------------------------------------------
(* wait(): cancelled, or elapsed with the flag still unset *)

WaitCancelled(p) ==
  /\ pc[p] \in {"conflictWait", "backoffWait"}
  /\ closed
  /\ pc' = [pc EXCEPT ![p] = "done"]
  /\ UNCHANGED <<closed, control, naming, pacing, tunnels, raced>>

ConflictWaitElapses(p) ==
  /\ pc[p] = "conflictWait"
  /\ ~closed
  /\ pc' = [pc EXCEPT ![p] = "start"]
  /\ UNCHANGED <<closed, control, naming, pacing, tunnels, raced>>

BackoffElapses(p) ==
  /\ pc[p] = "backoffWait"
  /\ ~closed
  /\ backoff' = [backoff EXCEPT ![p] = IF failed[p] THEN Doubled(@) ELSE @]
  /\ pc' = [pc EXCEPT ![p] = "loop"]
  /\ UNCHANGED <<closed, control, naming, failed, tunnels, raced>>

(* The task panics while it drives the tunnel, the one place where it runs *)
(* library code on input from the network. start() is unwound before its   *)
(* `active.remove`, so the entry stays behind.                             *)
Panic(p) ==
  /\ Unwinds
  /\ pc[p] = "tunnel"
  /\ tunnel[p] \notin Final
  /\ pc' = [pc EXCEPT ![p] = "panicked"]
  /\ UNCHANGED <<closed, control, naming, pacing, tunnels, raced>>

-----------------------------------------------------------------------------
(* close(), called by the main task and by the joining task *)

(* The critical section of close(): every tunnel in the map is closed. The *)
(* tunnels a task has built but not inserted are not in it.                *)
SweepActive ==
  /\ cancelled' = [p \in Proxies |-> cancelled[p] \/ p \in active]
  /\ raced' = {p \in Proxies : pc[p] = "insert"}

(* run(config): the signal arrives, then close() stores the flag.          *)
MainSignal ==
  /\ mainPc = "waiting"
  /\ mainPc' = "sweeping"
  /\ closed' = TRUE
  /\ UNCHANGED <<joinPc, reaped, pc, naming, pacing, tunnels, raced>>

MainSweep ==
  /\ mainPc = "sweeping"
  /\ SweepActive
  /\ mainPc' = "awaiting"
  /\ UNCHANGED <<closed, joinPc, reaped, pc, naming, pacing, active, tunnel>>

MainExit ==
  /\ mainPc = "awaiting"
  /\ joinPc = "returned"
  /\ mainPc' = "exited"
  /\ UNCHANGED <<closed, joinPc, reaped, pc, naming, pacing, tunnels, raced>>

(* GatewayRunner::run: join_next() returns the tasks in any order.         *)
JoinTask(p) ==
  /\ joinPc = "joining"
  /\ p \notin reaped
  /\ pc[p] = "done"
  /\ reaped' = reaped \cup {p}
  /\ UNCHANGED <<closed, mainPc, joinPc, pc, naming, pacing, tunnels, raced>>

(* A join error is a panic: the runner closes itself, in the same steps.   *)
JoinPanicked(p) ==
  /\ joinPc = "joining"
  /\ p \notin reaped
  /\ pc[p] = "panicked"
  /\ reaped' = reaped \cup {p}
  /\ joinPc' = "sweeping"
  /\ closed' = TRUE
  /\ UNCHANGED <<mainPc, pc, naming, pacing, tunnels, raced>>

JoinSweep ==
  /\ joinPc = "sweeping"
  /\ SweepActive
  /\ joinPc' = "joining"
  /\ UNCHANGED <<closed, mainPc, reaped, pc, naming, pacing, active, tunnel>>

JoinReturns ==
  /\ joinPc = "joining"
  /\ reaped = Proxies
  /\ joinPc' = "returned"
  /\ UNCHANGED <<closed, mainPc, reaped, pc, naming, pacing, tunnels, raced>>

(* The process has exited.                                                 *)
Exited == mainPc = "exited" /\ UNCHANGED vars

-----------------------------------------------------------------------------
HandleResult(p) ==
  \/ HandleClosed(p)
  \/ HandleCanceled(p)
  \/ HandleOther(p)
  \/ HandleConflictRenameOff(p)
  \/ HandleConflictRetrySame(p)
  \/ HandleConflictStartRename(p)
  \/ HandleConflictRenamed(p)

(* What the task of p does by itself, as long as the runtime polls it.     *)
TaskStep(p) ==
  \/ LoopEnds(p)
  \/ CycleBegins(p)
  \/ StartRefused(p)
  \/ StartBuildsTunnel(p)
  \/ StartInsertsTunnel(p)
  \/ HandleResult(p)
  \/ WaitCancelled(p)
  \/ ConflictWaitElapses(p)
  \/ BackoffElapses(p)

Joins == JoinSweep \/ JoinReturns \/ \E p \in Proxies : JoinTask(p) \/ JoinPanicked(p)

Next ==
  \/ \E p \in Proxies : TaskStep(p) \/ TunnelStep(p) \/ Panic(p)
  \/ Joins
  \/ MainSignal \/ MainSweep \/ MainExit
  \/ Exited

Spec == Init /\ [][Next]_vars

(* The runtime polls every runnable task, and every delay ends. A tunnel   *)
(* leaves the set-up because each await of it runs under a timeout, and    *)
(* pump() wakes up once the tunnel's own CloseState is closed. An open     *)
(* tunnel that nobody cancelled owes nothing: frps may keep it for ever.   *)
(* So do the operator (MainSignal) and the panics.                         *)
TunnelOwesStep(p) == TunnelStep(p) /\ (cancelled[p] \/ tunnel[p] # "open")

Fairness ==
  /\ \A p \in Proxies : WF_vars(TaskStep(p)) /\ WF_vars(TunnelOwesStep(p))
  /\ WF_vars(Joins)
  /\ WF_vars(MainSweep)
  /\ WF_vars(MainExit)

FairSpec == Spec /\ Fairness
-----------------------------------------------------------------------------
(* Properties: the rename sequence *)

(* Every variable has its type: the ex number never leaves the sequence    *)
(* and the backoff stays between its base and its cap.                     *)
TypeOK ==
  /\ closed \in BOOLEAN
  /\ active \subseteq Proxies
  /\ mainPc \in {"waiting", "sweeping", "awaiting", "exited"}
  /\ joinPc \in {"joining", "sweeping", "returned"}
  /\ reaped \subseteq Proxies
  /\ pc \in [Proxies -> TaskPc]
  /\ phase \in [Proxies -> {"same", "rename"}]
  /\ attempt \in [Proxies -> Nat]
  /\ exNumber \in [Proxies -> Names]
  /\ backoff \in [Proxies -> ReconnectBaseDelay .. ReconnectMaxDelay]
  /\ failed \in [Proxies -> BOOLEAN]
  /\ tunnel \in [Proxies -> Status]
  /\ cancelled \in [Proxies -> BOOLEAN]
  /\ tried \in [Proxies -> SUBSET Names]
  /\ kept \in [Proxies -> Names]
  /\ raced \subseteq Proxies

(* The proxy is about to try, or is trying, the name Wanted(p).            *)
Trying(p) == pc[p] \in {"start", "insert", "tunnel", "conflictWait"}

(* A proxy takes an ex_N_ name only after frps refused the configured one  *)
(* in the same reconnect cycle: each cycle probes it first, which is what  *)
(* brings the original name back when the conflict is gone.                *)
RenamesOnlyAfterConflict ==
  \A p \in Proxies : phase[p] = "rename" /\ Trying(p) => 0 \in tried[p]

(* A cycle never tries a candidate that frps refused in that cycle, as     *)
(* long as it is not given more attempts than the sequence has names.      *)
CandidatesAreFresh ==
  MaxRenameRetries <= MaxExSequence =>
    \A p \in Proxies :
      phase[p] = "rename" /\ Trying(p) => exNumber[p] \notin tried[p]

(* An ex_N_ name that registered is the candidate the proxy comes back to, *)
(* across reconnects, until frps refuses that very name: the public        *)
(* address stays stable (the comment on ex_number in run_proxy).           *)
WorkingNameIsKept ==
  \A p \in Proxies : kept[p] # 0 => exNumber[p] = kept[p]

(* With renaming off no proxy ever leaves its configured name.             *)
NeverRenamesWhenOff ==
  ~RenameEnabled =>
    \A p \in Proxies : phase[p] = "same" /\ exNumber[p] = 0 /\ tried[p] \subseteq {0}

(* try_proxy returns the conflict only when frps refused, in this cycle,   *)
(* every name it may use.                                                  *)
GivesUpOnlyAfterEveryName ==
  [][RenameEnabled /\ MaxRenameRetries >= MaxExSequence =>
       \A p \in Proxies :
         tunnel[p] = "ProxyConflict" /\ pc[p] = "tunnel" /\ pc'[p] = "backoffWait"
           => tried'[p] = Names]_vars

(* The delay before the next cycle shrinks only when a registered tunnel   *)
(* was closed: failing attempts never make a client reconnect faster.      *)
BackoffShrinksOnlyAfterClosed ==
  [][\A p \in Proxies :
       backoff'[p] < backoff[p] => pc[p] = "tunnel" /\ tunnel[p] = "Closed"]_vars

(* A proxy that waits, after a conflict or a finished attempt, drives a    *)
(* tunnel again, unless the runner is closed meanwhile.                    *)
KeepsReconnecting ==
  \A p \in Proxies :
    pc[p] \in {"conflictWait", "backoffWait"} ~> (pc[p] = "tunnel" \/ closed)

-----------------------------------------------------------------------------
(* Properties: shutdown *)

(* The map holds exactly the tunnels that are running, and the ones whose  *)
(* task panicked: close() reaches every tunnel it could reach.             *)
ActiveIsWhatRuns ==
  active = {p \in Proxies : pc[p] \in {"tunnel", "panicked"}}

(* "A proxy task only ends on cancellation" (run): the Canceled result of  *)
(* a tunnel comes from no one but close().                                 *)
TasksEndOnlyOnClose == \A p \in Proxies : pc[p] = "done" => closed

(* No close() is between its store to the flag and its sweep of the map.   *)
CloseDone == closed /\ mainPc # "sweeping" /\ joinPc # "sweeping"

(* Once close() is done, every tunnel in the map is cancelled, but for the *)
(* ones whose task had passed the check in start() and had not reached     *)
(* `active.insert`.                                                        *)
SweepMissesOnlyRaced ==
  CloseDone => \A p \in active : cancelled[p] \/ p \in raced

(* When run() returns, no tunnel is left connected: a task that panicked   *)
(* leaves its entry in the map, and the close() that answers the panic     *)
(* cancels it, even if an earlier close() had missed it.                   *)
ReturnLeavesNoTunnel ==
  joinPc = "returned" => \A p \in active : cancelled[p]

(* Each proxy drives the tunnels that TunnelClient implements, and one at  *)
(* a time: none is abandoned before it has a result, by the task that      *)
(* awaits it, a close() or the next attempt (start).                       *)
TunnelOf(p) == INSTANCE Tunnel WITH status <- tunnel[p], cancelled <- cancelled[p]

StartsAfresh(p) == tunnel[p] \in Final /\ tunnel'[p] = "idle" /\ cancelled'[p] = FALSE

TunnelsRunToTheirEnd ==
  /\ \A p \in Proxies : TunnelOf(p)!Init
  /\ [][\A p \in Proxies :
          [TunnelOf(p)!Next \/ StartsAfresh(p)]_(TunnelOf(p)!vars)]_vars

(* A panic stops the other proxies (the comment in run), unless close()    *)
(* was too early for one of them.                                          *)
PanicStopsTheOthers ==
  (\E p \in Proxies : pc[p] = "panicked") ~> (Ended = Proxies \/ raced # {})

(* A signal ends the process, unless close() was too early for a tunnel.   *)
ShutdownCompletes ==
  mainPc = "sweeping" ~> (mainPc = "exited" \/ raced # {})

(* What the comment on CloseState says, "A tunnel that starts after        *)
(* close() ran still observes it": once close() is done every running      *)
(* tunnel is cancelled. The code does not keep it.                         *)
CloseCoversTunnels == CloseDone => \A p \in active : cancelled[p]
=============================================================================
