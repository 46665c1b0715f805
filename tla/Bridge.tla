------------------------------- MODULE Bridge -------------------------------
(***************************************************************************)
(* The forwarded connections of one proxy (TunnelHandler in                *)
(* src/src/ssh/gateway.rs), across the ssh sessions of its attempts. The   *)
(* handler of a session accepts a channel, takes one of the session's      *)
(* permits, and spawns a task that dials the local service and copies both *)
(* ways. The task is not awaited by anyone: it outlives its session.       *)
(*                                                                         *)
(* frps, the network and the local service are external. What is copied is *)
(* left out; of each direction the model keeps whether it has ended.       *)
(***************************************************************************)
EXTENDS Naturals, FiniteSets

CONSTANTS
  Conns,                  \* the forwarded connections, in all sessions
  MaxSessions,            \* bound: ssh sessions of the proxy
  MaxForwardConnections   \* config.max_forward_connections

ASSUME ConnsAssumption == IsFiniteSet(Conns)

ASSUME LimitsAssumption == MaxSessions \in Nat \ {0} /\ MaxForwardConnections \in Nat

Sessions == 1 .. MaxSessions

VARIABLES
  session,  \* the sessions: not started, up, or down
  permits,  \* free permits of each session's Semaphore
  via,      \* the session a connection came through; 0: none yet
  stage,    \* where the connection is
  ended     \* the directions of its copy that reached their end

vars == <<session, permits, via, stage, ended>>

Stages == {"new", "accepted", "dialling", "copying", "closing",
           "done", "turnedAway", "lost"}

(* The task of c holds a permit: `_permit` lives as long as the task.      *)
HasPermit(c) == stage[c] \in {"dialling", "copying", "closing"}

(* The connections of session s that are in one of these stages.           *)
Of(s, stages) == {c \in Conns : via[c] = s /\ stage[c] \in stages}

Holders(s) == {c \in Conns : via[c] = s /\ HasPermit(c)}

-----------------------------------------------------------------------------
(* Faulty variants, used by no specification.                              *)

(* The permit is dropped at the end of the handler, not of the task.       *)
AdmitsWithoutPermit(c) ==
  /\ stage[c] = "accepted"
  /\ permits[via[c]] > 0
  /\ stage' = [stage EXCEPT ![c] = "dialling"]
  /\ UNCHANGED <<session, permits, via, ended>>

(* One permit is kept in reserve.                                          *)
TurnsAwayEarly(c) ==
  /\ stage[c] = "accepted"
  /\ permits[via[c]] <= 1
  /\ stage' = [stage EXCEPT ![c] = "turnedAway"]
  /\ UNCHANGED <<session, permits, via, ended>>

(* TcpStream::connect without the timeout: a service that hangs is waited  *)
(* for, and only an error of the dial ends it.                             *)
DialWithoutTimeout(c) ==
  /\ stage[c] = "dialling"
  /\ session[via[c]] = "down"
  /\ stage' = [stage EXCEPT ![c] = "done"]
  /\ permits' = [permits EXCEPT ![via[c]] = @ + 1]
  /\ UNCHANGED <<session, via, ended>>

(* The end of the channel is noticed while its session is up only.         *)
RemoteEndsWhileUp(c) ==
  /\ stage[c] = "copying"
  /\ "remote" \notin ended[c]
  /\ session[via[c]] = "up"
  /\ ended' = [ended EXCEPT ![c] = @ \cup {"remote"}]
  /\ stage' = [stage EXCEPT ![c] = IF "local" \in ended[c] THEN "closing" ELSE @]
  /\ UNCHANGED <<session, permits, via>>

-----------------------------------------------------------------------------
(* Semaphore::new(max_forward_connections.max(1)): every session has its   *)
(* own.                                                                    *)
Capacity == IF MaxForwardConnections > 1 THEN MaxForwardConnections ELSE 1

Init ==
  /\ session = [s \in Sessions |-> "none"]
  /\ permits = [s \in Sessions |-> Capacity]
  /\ via = [c \in Conns |-> 0]
  /\ stage = [c \in Conns |-> "new"]
  /\ ended = [c \in Conns |-> {}]

(* The runner makes one attempt at a time.                                 *)
SessionStarts(s) ==
  /\ session[s] = "none"
  /\ \A t \in 1 .. s - 1 : session[t] = "down"
  /\ session' = [session EXCEPT ![s] = "up"]
  /\ UNCHANGED <<permits, via, stage, ended>>

(* The session's event loop stops, for whatever reason. It runs the        *)
(* handler, which is dropped where it is; the spawned tasks are not.       *)
SessionEnds(s) ==
  /\ session[s] = "up"
  /\ session' = [session EXCEPT ![s] = "down"]
  /\ stage' = [c \in Conns |-> IF c \in Of(s, {"accepted"}) THEN "lost" ELSE stage[c]]
  /\ UNCHANGED <<permits, via, ended>>

(* frps opens a channel, and the handler accepts it before anything else.  *)
(* The event loop runs one handler at a time.                              *)
Accepts(c, s) ==
  /\ stage[c] = "new"
  /\ session[s] = "up"
  /\ Of(s, {"accepted"}) = {}
  /\ via' = [via EXCEPT ![c] = s]
  /\ stage' = [stage EXCEPT ![c] = "accepted"]
  /\ UNCHANGED <<session, permits, ended>>

(* try_acquire_owned, then the task is spawned ...                         *)
Admits(c) ==
  /\ stage[c] = "accepted"
  /\ permits[via[c]] > 0
  /\ permits' = [permits EXCEPT ![via[c]] = @ - 1]
  /\ stage' = [stage EXCEPT ![c] = "dialling"]
  /\ UNCHANGED <<session, via, ended>>

(* ... or the accepted channel is dropped.                                 *)
TurnsAway(c) ==
  /\ stage[c] = "accepted"
  /\ permits[via[c]] = 0
  /\ stage' = [stage EXCEPT ![c] = "turnedAway"]
  /\ UNCHANGED <<session, permits, via, ended>>

DialSucceeds(c) ==
  /\ stage[c] = "dialling"
  /\ stage' = [stage EXCEPT ![c] = "copying"]
  /\ UNCHANGED <<session, permits, via, ended>>

(* The task ends, and with it the permit.                                  *)
Finishes(c) ==
  /\ stage' = [stage EXCEPT ![c] = "done"]
  /\ permits' = [permits EXCEPT ![via[c]] = @ + 1]
  /\ UNCHANGED <<session, via, ended>>

(* The dial is refused, or runs into DIAL_TIMEOUT; either may happen at    *)
(* any time.                                                               *)
DialFails(c) == stage[c] = "dialling" /\ Finishes(c)

(* copy_bidirectional: a direction that reads its end shuts the other      *)
(* side's writer down and waits for the other direction. The channel of a  *)
(* session that is down reads as ended.                                    *)
RemoteEnds(c) ==
  /\ stage[c] = "copying"
  /\ "remote" \notin ended[c]
  /\ ended' = [ended EXCEPT ![c] = @ \cup {"remote"}]
  /\ stage' = [stage EXCEPT ![c] = IF "local" \in ended[c] THEN "closing" ELSE @]
  /\ UNCHANGED <<session, permits, via>>

(* Shutting down the writer of a channel whose session is gone is an       *)
(* error, and ends the copy at once.                                       *)
LocalEnds(c) ==
  /\ stage[c] = "copying"
  /\ "local" \notin ended[c]
  /\ ended' = [ended EXCEPT ![c] = @ \cup {"local"}]
  /\ stage' = [stage EXCEPT ![c] =
                 IF "remote" \in ended[c] \/ session[via[c]] = "down"
                 THEN "closing" ELSE @]
  /\ UNCHANGED <<session, permits, via>>

(* A read or a write fails: the local service resets the connection, or    *)
(* sends something after the session is gone.                              *)
CopyFails(c) ==
  /\ stage[c] = "copying"
  /\ stage' = [stage EXCEPT ![c] = "closing"]
  /\ UNCHANGED <<session, permits, via, ended>>

(* local.shutdown(), and the task is over.                                 *)
Closes(c) == stage[c] = "closing" /\ Finishes(c)

Handles(c) == Admits(c) \/ TurnsAway(c)

Next ==
  \/ \E s \in Sessions : SessionStarts(s) \/ SessionEnds(s)
  \/ \E c \in Conns, s \in Sessions : Accepts(c, s)
  \/ \E c \in Conns : \/ Handles(c)
                      \/ DialSucceeds(c) \/ DialFails(c)
                      \/ RemoteEnds(c) \/ LocalEnds(c) \/ CopyFails(c)
                      \/ Closes(c)

Spec == Init /\ [][Next]_vars

(* The runtime polls the handler and the tasks, a dial that goes on runs   *)
(* into its timeout, and the copy sees that the session is gone. Neither   *)
(* end of a live connection owes anything, nor do frps, the network and a  *)
(* service that is dialled.                                                *)
Fairness ==
  \A c \in Conns :
    /\ WF_vars(Handles(c))
    /\ WF_vars(DialFails(c))
    /\ WF_vars(Closes(c))
    /\ WF_vars(RemoteEnds(c) /\ session[via[c]] = "down")

FairSpec == Spec /\ Fairness

-----------------------------------------------------------------------------
(* Properties *)

(* Every variable has its type.                                            *)
TypeOK ==
  /\ session \in [Sessions -> {"none", "up", "down"}]
  /\ permits \in [Sessions -> 0 .. Capacity]
  /\ via \in [Conns -> Sessions \cup {0}]
  /\ stage \in [Conns -> Stages]
  /\ ended \in [Conns -> SUBSET {"remote", "local"}]

(* No permit is lost or made: what is not free is held by a task, however  *)
(* that task ends and whether or not its session is still there.           *)
PermitsAreConserved ==
  \A s \in Sessions : permits[s] + Cardinality(Holders(s)) = Capacity

(* Each session is a pool of its own: at most Capacity connections at      *)
(* once, and none is turned away while there is room.                      *)
Pool(s) == INSTANCE ForwardPool WITH
  served <- Holders(s),
  away   <- Of(s, {"turnedAway"}),
  left   <- Of(s, {"done"})

EachSessionIsAPool ==
  /\ \A s \in Sessions : Pool(s)!Init
  /\ [][\A s \in Sessions : [Pool(s)!Next]_(Pool(s)!vars)]_vars

(* "A local service that is down or hanging must not pin this task         *)
(* forever": a session out of permits has one again, unless all of them    *)
(* have a live connection to the local service.                            *)
FullPoolDrains ==
  \A s \in Sessions :
    permits[s] = 0 ~> (permits[s] > 0 \/ Of(s, {"copying"}) = Holders(s))

(* A bridge that outlived its session waits for nothing but the local      *)
(* service: its other half ends by itself.                                 *)
OrphanWaitsForLocalOnly ==
  \A c \in Conns :
    (stage[c] = "copying" /\ session[via[c]] = "down")
      ~> (stage[c] = "done" \/ ended[c] = {"remote"})

(* "Upper bound on concurrently bridged forwarded connections" (the        *)
(* comment on max_forward_connections). The code bounds each session, not  *)
(* the proxy: bridges of a lost session are not counted in the next.       *)
TotalWithinLimit == Cardinality({c \in Conns : HasPermit(c)}) <= Capacity
=============================================================================
