---------------------------- MODULE NativeRunner ----------------------------
(***************************************************************************)
(* The native runner (src/src/runner/native.rs, src/src/ssh/native.rs):    *)
(* one ssh child per proxy, a task that waits for each, and the main task  *)
(* that waits for a signal or for the first task to end, then for the      *)
(* rest. NativeCancel is the CloseState module's sticky cancellation, so   *)
(* here it is a flag. The operating system is external: children exit when *)
(* they like, and signals arrive when they like.                           *)
(***************************************************************************)
EXTENDS FiniteSets

CONSTANT Commands  \* the generated ssh command lines

(* With no command the first join_next() returns None and run() returns.   *)
ASSUME CommandsAssumption == IsFiniteSet(Commands) /\ Commands # {}

VARIABLES
  cancelled,  \* the NativeCancel
  mainPc,     \* where native::run is
  signalled,  \* SIGINT or SIGTERM has been delivered to the process
  reaped,     \* the tasks join_next() has returned
  taskPc,     \* where the task of each command is
  child       \* its ssh process

vars == <<cancelled, mainPc, signalled, reaped, taskPc, child>>

Init ==
  /\ cancelled = FALSE
  /\ mainPc = "selecting"
  /\ signalled = FALSE
  /\ reaped = {}
  /\ taskPc = [c \in Commands |-> "spawning"]
  /\ child = [c \in Commands |-> "none"]

-----------------------------------------------------------------------------
(* Faulty variants, used by no specification.                              *)

(* run() returns after the select!, without draining the JoinSet: the      *)
(* children, spawned with kill_on_drop(false), outlive the process.        *)
ExitsWithoutDraining ==
  /\ mainPc = "draining"
  /\ mainPc' = "exited"
  /\ UNCHANGED <<cancelled, signalled, reaped, taskPc, child>>

(* The first task to end cancels the others.                               *)
FirstTaskCancelsAll(c) ==
  /\ mainPc = "selecting"
  /\ taskPc[c] = "ended"
  /\ mainPc' = "draining"
  /\ reaped' = reaped \cup {c}
  /\ cancelled' = TRUE
  /\ UNCHANGED <<signalled, taskPc, child>>

(* wait() asks the child to stop and does not kill it.                     *)
CancelWithoutKill(c) ==
  /\ taskPc[c] = "waiting"
  /\ cancelled
  /\ taskPc' = [taskPc EXCEPT ![c] = "killing"]
  /\ UNCHANGED <<cancelled, mainPc, signalled, reaped, child>>

-----------------------------------------------------------------------------
(* The task of one command: NativeChild::spawn and NativeChild::wait *)

SpawnSucceeds(c) ==
  /\ taskPc[c] = "spawning"
  /\ taskPc' = [taskPc EXCEPT ![c] = "waiting"]
  /\ child' = [child EXCEPT ![c] = "running"]
  /\ UNCHANGED <<cancelled, mainPc, signalled, reaped>>

(* No program, or the program cannot be started: logged, and the task ends.*)
SpawnFails(c) ==
  /\ taskPc[c] = "spawning"
  /\ taskPc' = [taskPc EXCEPT ![c] = "ended"]
  /\ UNCHANGED <<cancelled, mainPc, signalled, reaped, child>>

(* The select! of wait(): the child exited by itself ...                   *)
SeesExit(c) ==
  /\ taskPc[c] = "waiting"
  /\ child[c] = "exited"
  /\ taskPc' = [taskPc EXCEPT ![c] = "flushing"]
  /\ UNCHANGED <<cancelled, mainPc, signalled, reaped, child>>

(* ... or cancellation came first: start_kill, then wait for the child.    *)
(* Killing a child that has exited meanwhile is an ignored error.          *)
CancelKillsChild(c) ==
  /\ taskPc[c] = "waiting"
  /\ cancelled
  /\ taskPc' = [taskPc EXCEPT ![c] = "killing"]
  /\ child' = [child EXCEPT ![c] = IF @ = "running" THEN "killed" ELSE @]
  /\ UNCHANGED <<cancelled, mainPc, signalled, reaped>>

ReapsChild(c) ==
  /\ taskPc[c] = "killing"
  /\ child[c] \in {"killed", "exited"}
  /\ taskPc' = [taskPc EXCEPT ![c] = "flushing"]
  /\ UNCHANGED <<cancelled, mainPc, signalled, reaped, child>>

(* The tasks that forward the output end with the pipes of the child.      *)
FlushesOutput(c) ==
  /\ taskPc[c] = "flushing"
  /\ taskPc' = [taskPc EXCEPT ![c] = "ended"]
  /\ UNCHANGED <<cancelled, mainPc, signalled, reaped, child>>

-----------------------------------------------------------------------------
(* native::run *)

(* The select!: a signal that arrives while it waits cancels the children. *)
MainHearsSignal ==
  /\ mainPc = "selecting"
  /\ signalled
  /\ cancelled' = TRUE
  /\ mainPc' = "draining"
  /\ UNCHANGED <<signalled, reaped, taskPc, child>>

(* The other branch: a task ended, and wait_for_shutdown() is dropped with *)
(* its signal streams. Their handlers stay installed, so from here on a    *)
(* signal neither ends the process nor reaches anybody.                    *)
MainJoinsFirst(c) ==
  /\ mainPc = "selecting"
  /\ taskPc[c] = "ended"
  /\ mainPc' = "draining"
  /\ reaped' = reaped \cup {c}
  /\ UNCHANGED <<cancelled, signalled, taskPc, child>>

MainDrains(c) ==
  /\ mainPc = "draining"
  /\ c \notin reaped
  /\ taskPc[c] = "ended"
  /\ reaped' = reaped \cup {c}
  /\ UNCHANGED <<cancelled, mainPc, signalled, taskPc, child>>

MainExits ==
  /\ mainPc = "draining"
  /\ reaped = Commands
  /\ mainPc' = "exited"
  /\ UNCHANGED <<cancelled, signalled, reaped, taskPc, child>>

-----------------------------------------------------------------------------
(* External: the operating system *)

SignalArrives ==
  /\ mainPc # "exited"
  /\ signalled' = TRUE
  /\ UNCHANGED <<cancelled, mainPc, reaped, taskPc, child>>

ChildExits(c) ==
  /\ child[c] = "running"
  /\ child' = [child EXCEPT ![c] = "exited"]
  /\ UNCHANGED <<cancelled, mainPc, signalled, reaped, taskPc>>

TaskStep(c) ==
  \/ SpawnSucceeds(c)
  \/ SpawnFails(c)
  \/ SeesExit(c)
  \/ CancelKillsChild(c)
  \/ ReapsChild(c)
  \/ FlushesOutput(c)

MainStep ==
  \/ MainHearsSignal
  \/ MainExits
  \/ \E c \in Commands : MainJoinsFirst(c) \/ MainDrains(c)

Next ==
  \/ MainStep
  \/ SignalArrives
  \/ \E c \in Commands : TaskStep(c) \/ ChildExits(c)

Spec == Init /\ [][Next]_vars

(* The runtime polls the tasks. A child owes nobody its exit.              *)
FairSpec == Spec /\ WF_vars(MainStep) /\ \A c \in Commands : WF_vars(TaskStep(c))

-----------------------------------------------------------------------------
(* Properties *)

TypeOK ==
  /\ cancelled \in BOOLEAN
  /\ mainPc \in {"selecting", "draining", "exited"}
  /\ signalled \in BOOLEAN
  /\ reaped \subseteq Commands
  /\ taskPc \in [Commands -> {"spawning", "waiting", "killing", "flushing", "ended"}]
  /\ child \in [Commands -> {"none", "running", "exited", "killed"}]

(* The process leaves no ssh child behind, although none is killed when    *)
(* its handle is dropped (kill_on_drop(false)).                            *)
ExitLeavesNoChild ==
  mainPc = "exited" => \A c \in Commands : child[c] # "running"

(* A child is killed only when the operator asked for a shutdown: one      *)
(* tunnel that ends, or cannot start, leaves the others up.                *)
ChildrenDieOfSignalsOnly ==
  \A c \in Commands : child[c] = "killed" => signalled

(* A signal that run() hears ends the process.                             *)
HeardSignalStops == cancelled ~> mainPc = "exited"

(* "Both binaries treat SIGINT and SIGTERM as shutdown" (README.md): a     *)
(* signal ends the process. The code does not keep it once the first child *)
(* has ended.                                                              *)
SignalStops == signalled ~> mainPc = "exited"
=============================================================================
