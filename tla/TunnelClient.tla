---------------------------- MODULE TunnelClient ----------------------------
(***************************************************************************)
(* One tunnel attempt (TunnelClient in src/src/ssh/gateway.rs): start()    *)
(* and pump() on the runner's task, close() called by other tasks, and the *)
(* ssh session they share. frps and the network are external; of frps the  *)
(* model keeps the verdict on the registration and the session output.     *)
(***************************************************************************)
EXTENDS Naturals, Sequences, SequencesExt

CONSTANTS
  Closers,    \* the calls of close(): a signal and a panic each sweep once
  OutputCap,  \* MAX_OUTPUT_BYTES, in pieces of output
  MaxText     \* bound: further pieces of output frps sends

ASSUME BoundsAssumption == OutputCap \in Nat \ {0} /\ MaxText \in Nat

VARIABLES
  closed,      \* self.state
  closerPc,    \* where each close() is
  pc,          \* where start() is
  slot,        \* self.session is Some(handle)
  session,     \* the ssh session: none yet, up, or down
  frps,        \* what frps made of the registration
  texts,       \* pieces of output frps sent after its verdict
  queue,       \* messages received and not read by pump()
  output,      \* pump's buffer, as pieces
  exitStatus,
  outcome,     \* what start() returned
  read         \* history: the pieces of output pump() has read

client   == <<pc, output, exitStatus, outcome, read>>
server   == <<frps, texts, queue>>
vars     == <<closed, closerPc, client, slot, session, server>>

(* The stages of start() that hold a handle of the session.                *)
Holding == {"auth", "recheck", "publish", "forward", "channel", "exec",
            "pump", "finish"}

(* A sweep of GatewayRunner::close, the only caller of close(), is at this *)
(* tunnel: it holds the `active` mutex until it has emptied the slot.      *)
Sweeping == \E c \in Closers : closerPc[c] = "take"

(* The awaits of the set-up, each under SETUP_TIMEOUT.                     *)
SetupAwaits == {"connect", "auth", "forward", "channel", "exec"}

Init ==
  /\ closed = FALSE
  /\ closerPc = [c \in Closers |-> "start"]
  /\ pc = "new"
  /\ slot = FALSE
  /\ session = "none"
  /\ frps = "none"
  /\ texts = 0
  /\ queue = <<>>
  /\ output = <<>>
  /\ exitStatus = "none"
  /\ outcome = "none"
  /\ read = {}

-----------------------------------------------------------------------------
(* Faulty variants, used by no specification.                              *)

(* push_output makes room by dropping the oldest output.                   *)
PushOutputKeepsTail(buffer, piece) ==
  IF Len(buffer) >= OutputCap THEN Append(Tail(buffer), piece)
                              ELSE Append(buffer, piece)

(* pump() waits for the channel only.                                      *)
PumpIgnoresClose ==
  /\ pc = "pump"
  /\ closed
  /\ session = "down"
  /\ pc' = "done"
  /\ outcome' = "Canceled"
  /\ UNCHANGED <<closed, closerPc, slot, session, server, output, exitStatus, read>>

(* The runner keeps the tunnel after start() returned.                     *)
DropClientKeepsSlot ==
  /\ pc = "done"
  /\ ~Sweeping
  /\ pc' = "dropped"
  /\ UNCHANGED <<closed, closerPc, slot, session, server, output, exitStatus, outcome, read>>

-----------------------------------------------------------------------------
(* start() *)

Returns(result) == pc' = "done" /\ outcome' = result

(* What a step of the set-up leaves alone.                                 *)
SetupUnchanged == UNCHANGED <<closed, closerPc, texts, queue, output, exitStatus, read>>

Starts ==
  /\ pc = "new"
  /\ IF closed THEN Returns("Canceled") ELSE pc' = "connect" /\ UNCHANGED outcome
  /\ SetupUnchanged
  /\ UNCHANGED <<slot, session, frps>>

(* The handshake succeeded, check_server_key included.                     *)
Connects ==
  /\ pc = "connect"
  /\ pc' = "auth"
  /\ session' = "up"
  /\ SetupUnchanged
  /\ UNCHANGED <<slot, frps, outcome>>

Authenticates ==
  /\ pc = "auth"
  /\ session = "up"
  /\ pc' = "recheck"
  /\ SetupUnchanged
  /\ UNCHANGED <<slot, session, frps, outcome>>

(* An await of the set-up returned an error, timed out, or was refused by  *)
(* the server: `?` returns Other, and drops start()'s handle.              *)
SetupFails ==
  /\ pc \in SetupAwaits
  /\ Returns("Other")
  /\ SetupUnchanged
  /\ UNCHANGED <<slot, session, frps>>

(* The flag is read again after the authentication ...                     *)
RechecksFlag ==
  /\ pc = "recheck"
  /\ IF closed THEN Returns("Canceled") ELSE pc' = "publish" /\ UNCHANGED outcome
  /\ SetupUnchanged
  /\ UNCHANGED <<slot, session, frps>>

(* ... and the handle is published later: a close() in between finds none. *)
PublishesSession ==
  /\ pc = "publish"
  /\ slot' = TRUE
  /\ pc' = "forward"
  /\ SetupUnchanged
  /\ UNCHANGED <<session, frps, outcome>>

(* tcpip_forward, channel_open_session and exec, in the order frps needs:  *)
(* it listens for the exec payload once it has the forward request.        *)
RequestsForward ==
  /\ pc = "forward"
  /\ session = "up"
  /\ pc' = "channel"
  /\ SetupUnchanged
  /\ UNCHANGED <<slot, session, frps, outcome>>

OpensChannel ==
  /\ pc = "channel"
  /\ session = "up"
  /\ pc' = "exec"
  /\ SetupUnchanged
  /\ UNCHANGED <<slot, session, frps, outcome>>

Executes ==
  /\ pc = "exec"
  /\ session = "up"
  /\ pc' = "pump"
  /\ frps' = "deciding"
  /\ SetupUnchanged
  /\ UNCHANGED <<slot, session, outcome>>

-----------------------------------------------------------------------------
(* pump() *)

(* The first OutputCap pieces are kept. (A piece at the edge of the buffer *)
(* is cut in the code; here it is kept whole.)                             *)
PushOutput(buffer, piece) ==
  IF Len(buffer) >= OutputCap THEN buffer ELSE Append(buffer, piece)

(* What the buffer and the exit status say of the session.                 *)
Verdict(buffer, status) ==
  CASE Contains(buffer, "conflict") -> "ProxyConflict"
    [] ~Contains(buffer, "conflict") /\ Contains(buffer, "banner") /\ status # "nonzero"
         -> "Closed"
    [] OTHER -> "Other"

PumpCanceled ==
  /\ pc = "pump"
  /\ closed
  /\ Returns("Canceled")
  /\ UNCHANGED <<closed, closerPc, slot, session, server, output, exitStatus, read>>

(* Data and ExtendedData go to the buffer.                                 *)
PumpReadsOutput ==
  /\ pc = "pump"
  /\ queue # <<>>
  /\ Head(queue) \in {"banner", "conflict", "text"}
  /\ output' = PushOutput(output, Head(queue))
  /\ read' = read \cup {Head(queue)}
  /\ queue' = Tail(queue)
  /\ UNCHANGED <<closed, closerPc, pc, slot, session, frps, texts, exitStatus, outcome>>

PumpReadsExitStatus ==
  /\ pc = "pump"
  /\ queue # <<>>
  /\ Head(queue) \in {"zero", "nonzero"}
  /\ exitStatus' = Head(queue)
  /\ queue' = Tail(queue)
  /\ UNCHANGED <<closed, closerPc, pc, slot, session, frps, texts, output, outcome, read>>

(* ChannelMsg::Close, or None: the session is gone and its last message    *)
(* was read.                                                               *)
PumpEnds ==
  /\ pc = "pump"
  /\ IF queue = <<>> THEN session = "down" ELSE Head(queue) = "close"
  /\ pc' = "finish"
  /\ UNCHANGED <<closed, closerPc, slot, session, server, output, exitStatus, outcome, read>>

(* Disconnects, then classifies what was read. The flag is not looked at.  *)
PumpClassifies ==
  /\ pc = "finish"
  /\ session' = "down"
  /\ Returns(Verdict(output, exitStatus))
  /\ UNCHANGED <<closed, closerPc, slot, server, output, exitStatus, read>>

(* GatewayRunner::start removes the tunnel from its map, and returns: the  *)
(* last Arc<TunnelClient> goes, and the slot with it.                      *)
DropClient ==
  /\ pc = "done"
  /\ ~Sweeping
  /\ pc' = "dropped"
  /\ slot' = FALSE
  /\ UNCHANGED <<closed, closerPc, session, server, output, exitStatus, outcome, read>>

-----------------------------------------------------------------------------
(* close() *)

CloseStoresFlag(c) ==
  /\ closerPc[c] = "start"
  /\ ~Sweeping
  /\ pc # "dropped"
  /\ closed' = TRUE
  /\ closerPc' = [closerPc EXCEPT ![c] = "take"]
  /\ UNCHANGED <<client, slot, session, server>>

CloseTakesSlot(c) ==
  /\ closerPc[c] = "take"
  /\ closerPc' = [closerPc EXCEPT ![c] = IF slot THEN "disconnect" ELSE "returned"]
  /\ slot' = FALSE
  /\ UNCHANGED <<closed, client, session, server>>

(* The spawned task: disconnect, and drop the handle that was taken.       *)
CloseDisconnects(c) ==
  /\ closerPc[c] = "disconnect"
  /\ closerPc' = [closerPc EXCEPT ![c] = "returned"]
  /\ session' = "down"
  /\ UNCHANGED <<closed, client, slot, server>>

-----------------------------------------------------------------------------
(* External: russh, the network, frps *)

(* Dropping the last handle stops the ssh event loop.                      *)
HandleHeld == pc \in Holding \/ slot \/ \E c \in Closers : closerPc[c] = "disconnect"

SessionStops ==
  /\ session = "up"
  /\ ~HandleHeld
  /\ session' = "down"
  /\ UNCHANGED <<closed, closerPc, client, slot, server>>

(* The connection breaks, or the keepalives find it broken.                *)
NetworkFails ==
  /\ session = "up"
  /\ session' = "down"
  /\ UNCHANGED <<closed, closerPc, client, slot, server>>

FrpsSends(messages) == queue' = queue \o messages

FrpsDecides ==
  /\ session = "up"
  /\ frps = "deciding"
  /\ frps' \in {"registered", "refused", "rejected"}
  /\ UNCHANGED <<closed, closerPc, client, slot, session, texts, queue>>

(* The banner leaves frps after the registration took effect.              *)
FrpsSendsBanner ==
  /\ session = "up"
  /\ frps = "registered"
  /\ FrpsSends(<<"banner">>)
  /\ frps' = "serving"
  /\ UNCHANGED <<closed, closerPc, client, slot, session, texts>>

FrpsTalks ==
  /\ session = "up"
  /\ frps = "serving"
  /\ texts < MaxText
  /\ texts' = texts + 1
  /\ FrpsSends(<<"text">>)
  /\ UNCHANGED <<closed, closerPc, client, slot, session, frps>>

(* frps ends a session it served with an exit status or without one.       *)
FrpsCloses ==
  /\ session = "up"
  /\ frps = "serving"
  /\ frps' = "ended"
  /\ \E status \in {<<>>, <<"zero">>, <<"nonzero">>} :
       FrpsSends(status \o <<"close">>)
  /\ UNCHANGED <<closed, closerPc, client, slot, session, texts>>

(* A rejection is plain output, and the channel is closed after it.        *)
FrpsTurnsDown ==
  /\ session = "up"
  /\ frps \in {"refused", "rejected"}
  /\ frps' = IF frps = "refused" THEN "refusedTold" ELSE "rejectedTold"
  /\ \E status \in {<<>>, <<"zero">>, <<"nonzero">>} :
       FrpsSends(<<IF frps = "refused" THEN "conflict" ELSE "text">>
                 \o (status \o <<"close">>))
  /\ UNCHANGED <<closed, closerPc, client, slot, session, texts>>

-----------------------------------------------------------------------------
ClientStep ==
  \/ Starts
  \/ Connects
  \/ Authenticates
  \/ SetupFails
  \/ RechecksFlag
  \/ PublishesSession
  \/ RequestsForward
  \/ OpensChannel
  \/ Executes
  \/ PumpCanceled
  \/ PumpReadsOutput
  \/ PumpReadsExitStatus
  \/ PumpEnds
  \/ PumpClassifies
  \/ DropClient

FrpsStep ==
  \/ FrpsDecides
  \/ FrpsSendsBanner
  \/ FrpsTalks
  \/ FrpsCloses
  \/ FrpsTurnsDown

Next ==
  \/ ClientStep
  \/ \E c \in Closers : CloseStoresFlag(c) \/ CloseTakesSlot(c) \/ CloseDisconnects(c)
  \/ SessionStops
  \/ NetworkFails
  \/ FrpsStep

Spec == Init /\ [][Next]_vars

(* start() is polled to its end: each await of the set-up ends with its    *)
(* timeout at the latest (SetupFails). A close() that began goes on, and   *)
(* the event loop notices that its handles are gone. frps, the network and *)
(* the callers of close() owe nothing.                                     *)
Fairness ==
  /\ WF_vars(ClientStep)
  /\ \A c \in Closers : WF_vars(CloseTakesSlot(c)) /\ WF_vars(CloseDisconnects(c))
  /\ WF_vars(SessionStops)

FairSpec == Spec /\ Fairness

-----------------------------------------------------------------------------
(* Properties *)

Registered == frps \in {"registered", "serving", "ended"}
Refused == frps \in {"refused", "refusedTold"}

(* A session whose banner was read and that ended without an error status  *)
(* counts as a clean close however much output came after the banner: the  *)
(* backoff of a long-lived tunnel must not grow because its log was long.  *)
LongSessionsEndClosed ==
  outcome = "Other" /\ "banner" \in read => exitStatus = "nonzero"

(* The result is what frps decided: Closed is reported of a session frps   *)
(* had registered, a conflict of one whose name it refused, and a failure  *)
(* of a session that got its banner only for an error status. What the cap *)
(* of the output drops must not change it.                                 *)
ResultIsFrpsVerdict ==
  /\ outcome = "Closed" => Registered
  /\ outcome = "ProxyConflict" => Refused
  /\ LongSessionsEndClosed

(* A closed tunnel ends, and its ssh session with it, whichever of         *)
(* close() and start() was first at the slot.                              *)
CloseEndsSession == closed ~> (pc = "dropped" /\ session # "up")

(* The stages of start() as the runner sees them.                          *)
Status ==
  CASE pc = "new" -> "idle"
    [] pc \in {"connect", "auth", "recheck", "publish", "forward", "channel", "exec"}
         -> "setup"
    [] pc \in {"pump", "finish"} -> "open"
    [] pc \in {"done", "dropped"} -> outcome

T == INSTANCE Tunnel WITH status <- Status, cancelled <- closed

ImplementsTunnel == T!FairSpec
=============================================================================
