------------------------- MODULE TunnelClientProofs -------------------------
(***************************************************************************)
(* Proofs about TunnelClient, for any calls of close(), any buffer and any *)
(* amount of output.                                                       *)
(***************************************************************************)
EXTENDS TunnelClient, TLAPS

(* The result is there exactly once start() returned, and Canceled is      *)
(* returned of a closed tunnel only.                                       *)
OutcomeInv ==
  /\ closed \in BOOLEAN
  /\ pc \in {"new", "done", "dropped"} \cup SetupAwaits \cup Holding
  /\ pc \in {"done", "dropped"} => outcome \in T!Final

LEMMA VerdictIsFinal ==
  ASSUME NEW buffer, NEW status
  PROVE  Verdict(buffer, status) \in {"ProxyConflict", "Closed", "Other"}
BY DEF Verdict

(* There is a result when start() has returned, and not before             *)
(* (OutcomeInv).                                                           *)
THEOREM OutcomeInvariant == Spec => []OutcomeInv
<1> USE DEF OutcomeInv, SetupAwaits, Holding, T!Final
<1>1. Init => OutcomeInv
  BY DEF Init
<1>2. OutcomeInv /\ [Next]_vars => OutcomeInv'
  <2> SUFFICES ASSUME OutcomeInv, [Next]_vars PROVE OutcomeInv'
    OBVIOUS
  <2> USE DEF SetupUnchanged, Returns
  <2>1. CASE Starts
    BY <2>1 DEF Starts
  <2>2. CASE Connects
    BY <2>2 DEF Connects
  <2>3. CASE Authenticates
    BY <2>3 DEF Authenticates
  <2>4. CASE SetupFails
    BY <2>4 DEF SetupFails
  <2>5. CASE RechecksFlag
    BY <2>5 DEF RechecksFlag
  <2>6. CASE PublishesSession
    BY <2>6 DEF PublishesSession
  <2>7. CASE RequestsForward
    BY <2>7 DEF RequestsForward
  <2>8. CASE OpensChannel
    BY <2>8 DEF OpensChannel
  <2>9. CASE Executes
    BY <2>9 DEF Executes
  <2>10. CASE PumpCanceled
    BY <2>10 DEF PumpCanceled
  <2>11. CASE PumpReadsOutput \/ PumpReadsExitStatus
    BY <2>11 DEF PumpReadsOutput, PumpReadsExitStatus
  <2>12. CASE PumpEnds
    BY <2>12 DEF PumpEnds
  <2>13. CASE PumpClassifies
    BY <2>13, VerdictIsFinal DEF PumpClassifies
  <2>14. CASE DropClient
    BY <2>14 DEF DropClient
  <2>15. ASSUME NEW c \in Closers,
                CloseStoresFlag(c) \/ CloseTakesSlot(c) \/ CloseDisconnects(c)
         PROVE  OutcomeInv'
    BY <2>15 DEF CloseStoresFlag, CloseTakesSlot, CloseDisconnects, client
  <2>16. CASE SessionStops \/ NetworkFails \/ FrpsStep
    BY <2>16 DEF SessionStops, NetworkFails, FrpsStep, FrpsDecides, FrpsSendsBanner,
       FrpsTalks, FrpsCloses, FrpsTurnsDown, client
  <2>17. CASE UNCHANGED vars
    BY <2>17 DEF vars, client
  <2> QED
    BY <2>1, <2>2, <2>3, <2>4, <2>5, <2>6, <2>7, <2>8, <2>9, <2>10, <2>11, <2>12,
       <2>13, <2>14, <2>15, <2>16, <2>17
       DEF Next, ClientStep
<1> QED
  BY <1>1, <1>2, PTL DEF Spec

(* The stages an abstract tunnel may go through, spelled out.              *)
LEMMA StageSteps ==
  ASSUME closed' = closed,
         \/ Status = "idle" /\ Status' = (IF closed THEN "Canceled" ELSE "setup")
         \/ Status = "setup" /\ Status' \in {"open", "Other"}
         \/ Status = "open" /\ Status' \in {"Closed", "ProxyConflict", "Other"}
         \/ Status \in {"setup", "open"} /\ closed /\ Status' = "Canceled"
  PROVE  T!Next
<1>1. /\ T!NextStatus("idle", closed) = IF closed THEN {"Canceled"} ELSE {"setup"}
      /\ {"open", "Other"} \subseteq T!NextStatus("setup", closed)
      /\ {"Closed", "ProxyConflict", "Other"} \subseteq T!NextStatus("open", closed)
      /\ closed => \A s \in {"setup", "open"} : "Canceled" \in T!NextStatus(s, closed)
  BY DEF T!NextStatus, T!Final
<1>2. Status' \in T!NextStatus(Status, closed)
  BY <1>1
<1> QED
  BY <1>2 DEF T!Next, T!Step

(* An attempt goes through the stages the runner relies on, and through no *)
(* other: every step is a step of Tunnel or leaves its status as it is.    *)
THEOREM ClientImplementsTunnel == Spec => T!Spec
<1>1. Init => T!Init
  BY DEF Init, T!Init, Status
<1>2. OutcomeInv /\ [Next]_vars => [T!Next]_(T!vars)
  <2> SUFFICES ASSUME OutcomeInv, [Next]_vars
               PROVE  T!Next \/ UNCHANGED T!vars
    BY DEF T!vars
  <2> USE DEF SetupUnchanged, Returns, Status
  <2>1. CASE Starts
    BY <2>1, StageSteps DEF Starts
  <2>2. CASE Connects
    BY <2>2 DEF Connects, T!vars
  <2>3. CASE Authenticates
    BY <2>3 DEF Authenticates, T!vars
  <2>4. CASE SetupFails
    BY <2>4, StageSteps DEF SetupFails, SetupAwaits
  <2>5. CASE RechecksFlag
    BY <2>5, StageSteps DEF RechecksFlag, T!vars
  <2>6. CASE PublishesSession
    BY <2>6 DEF PublishesSession, T!vars
  <2>7. CASE RequestsForward
    BY <2>7 DEF RequestsForward, T!vars
  <2>8. CASE OpensChannel
    BY <2>8 DEF OpensChannel, T!vars
  <2>9. CASE Executes
    BY <2>9, StageSteps DEF Executes
  <2>10. CASE PumpCanceled
    BY <2>10, StageSteps DEF PumpCanceled
  <2>11. CASE PumpReadsOutput \/ PumpReadsExitStatus
    BY <2>11 DEF PumpReadsOutput, PumpReadsExitStatus, T!vars
  <2>12. CASE PumpEnds
    BY <2>12 DEF PumpEnds, T!vars
  <2>13. CASE PumpClassifies
    <3>1. Status = "open" /\ Status' \in {"ProxyConflict", "Closed", "Other"}
      BY <2>13, VerdictIsFinal DEF PumpClassifies
    <3> QED
      BY <2>13, <3>1, StageSteps DEF PumpClassifies
  <2>14. CASE DropClient
    BY <2>14 DEF DropClient, T!vars
  <2>15. ASSUME NEW c \in Closers, CloseStoresFlag(c) PROVE T!Cancel
    BY <2>15 DEF CloseStoresFlag, client, T!Cancel
  <2>16. ASSUME NEW c \in Closers, CloseTakesSlot(c) \/ CloseDisconnects(c)
         PROVE  UNCHANGED T!vars
    BY <2>16 DEF CloseTakesSlot, CloseDisconnects, client, T!vars
  <2>17. CASE SessionStops \/ NetworkFails \/ FrpsStep
    BY <2>17 DEF SessionStops, NetworkFails, FrpsStep, FrpsDecides, FrpsSendsBanner,
       FrpsTalks, FrpsCloses, FrpsTurnsDown, client, T!vars
  <2>18. CASE UNCHANGED vars
    BY <2>18 DEF vars, client, T!vars
  <2> QED
    BY <2>1, <2>2, <2>3, <2>4, <2>5, <2>6, <2>7, <2>8, <2>9, <2>10, <2>11, <2>12,
       <2>13, <2>14, <2>15, <2>16, <2>17, <2>18
       DEF Next, ClientStep, T!Next
<1> QED
  BY <1>1, <1>2, OutcomeInvariant, PTL DEF Spec, T!Spec

-----------------------------------------------------------------------------
(* The result and what frps decided.                                       *)

Messages == {"banner", "conflict", "text", "zero", "nonzero", "close"}

(* frps has not said anything yet.                                         *)
Silent == frps \in {"none", "deciding", "registered", "refused", "rejected"}

Told(piece) == Contains(queue, piece) \/ Contains(output, piece)

(* Why the verdict is right: what was sent says what frps decided, and the *)
(* banner is the first thing a served session sends, so it is kept however *)
(* small the buffer.                                                       *)
VerdictInv ==
  /\ queue \in Seq(Messages)
  /\ output \in Seq(Messages)
  /\ pc \notin {"pump", "finish", "done", "dropped"} => frps = "none"
  /\ pc \notin {"done", "dropped"} => outcome = "none"
  /\ Silent => queue = <<>> /\ output = <<>> /\ read = {}
  /\ Told("banner") => frps \in {"serving", "ended"}
  /\ Told("conflict") => frps = "refusedTold"
  /\ \A i \in 1..Len(queue) : queue[i] = "banner" => i = 1 /\ output = <<>>
  /\ "banner" \in read => Contains(output, "banner")
  /\ outcome = "Closed" => frps \in {"serving", "ended"}
  /\ outcome = "ProxyConflict" => frps = "refusedTold"
  /\ LongSessionsEndClosed

LEMMA EmptyContains ==
  ASSUME NEW e
  PROVE  ~Contains(<<>>, e)
BY DEF Contains

LEMMA AppendContains ==
  ASSUME NEW S, NEW s \in Seq(S), NEW x \in S, NEW e
  PROVE  Contains(Append(s, x), e) <=> Contains(s, e) \/ x = e
<1>1. ASSUME Contains(Append(s, x), e), x # e PROVE Contains(s, e)
  BY <1>1 DEF Contains
<1>2. ASSUME Contains(s, e) PROVE Contains(Append(s, x), e)
  BY <1>2 DEF Contains
<1>3. ASSUME x = e PROVE Contains(Append(s, x), e)
  <2>1. Len(s) + 1 \in 1..Len(Append(s, x)) /\ Append(s, x)[Len(s) + 1] = e
    BY <1>3
  <2> QED
    BY <2>1 DEF Contains
<1> QED
  BY <1>1, <1>2, <1>3

LEMMA TailContains ==
  ASSUME NEW S, NEW s \in Seq(S), s # <<>>, NEW e, Contains(Tail(s), e)
  PROVE  Contains(s, e)
<1>1. PICK i \in 1..Len(Tail(s)) : Tail(s)[i] = e
  BY DEF Contains
<1>2. i + 1 \in 1..Len(s) /\ s[i + 1] = e
  BY <1>1
<1> QED
  BY <1>2 DEF Contains

LEMMA ConcatContains ==
  ASSUME NEW S, NEW s \in Seq(S), NEW t \in Seq(S), NEW e, Contains(s \o t, e)
  PROVE  Contains(s, e) \/ Contains(t, e)
<1>1. PICK i \in 1..Len(s \o t) : (s \o t)[i] = e
  BY DEF Contains
<1>2. CASE i <= Len(s)
  BY <1>1, <1>2 DEF Contains
<1>3. CASE i > Len(s)
  <2>1. i - Len(s) \in 1..Len(t) /\ t[i - Len(s)] = e
    BY <1>1, <1>3
  <2> QED
    BY <2>1 DEF Contains
<1> QED
  BY <1>1, <1>2, <1>3

(* frps may send anything but the banner and a conflict, once it decided.  *)
LEMMA PlainOutput ==
  ASSUME VerdictInv, NEW messages \in Seq(Messages), ~Contains(messages, "banner"),
         ~Contains(messages, "conflict"),
         queue' = queue \o messages, ~Silent', UNCHANGED client,
         frps = "rejected" \/ frps = "serving",
         frps = "serving" => frps' \in {"serving", "ended"}
  PROVE  VerdictInv'
<1> USE DEF VerdictInv, client
<1>1. queue' \in Seq(Messages)
  OBVIOUS
<1>2. \A e \in {"banner", "conflict"} : Told(e)' => Told(e)
  BY ConcatContains DEF Told
<1>3. \A i \in 1..Len(queue') : queue'[i] = "banner" => i = 1 /\ output = <<>>
  <2> SUFFICES ASSUME NEW i \in 1..Len(queue'), queue'[i] = "banner"
               PROVE  i = 1 /\ output = <<>>
    OBVIOUS
  <2>1. CASE i <= Len(queue)
    BY <2>1
  <2>2. CASE i > Len(queue)
    <3>1. i - Len(queue) \in 1..Len(messages) /\ messages[i - Len(queue)] = "banner"
      BY <2>2
    <3> QED
      BY <3>1 DEF Contains
  <2> QED
    BY <2>1, <2>2
<1>4. UNCHANGED LongSessionsEndClosed
  BY DEF LongSessionsEndClosed
<1>5. Contains(output, "banner")' = Contains(output, "banner")
  OBVIOUS
<1>6. frps = "rejected" => outcome \notin {"Closed", "ProxyConflict"} /\ ~Told("banner")
  OBVIOUS
<1> QED
  BY <1>1, <1>2, <1>3, <1>4, <1>5, <1>6

(* The status and the close frps ends a session with.                      *)
LEMMA EndOfSession ==
  ASSUME NEW status \in {<<>>, <<"zero">>, <<"nonzero">>}
  PROVE  /\ status \o <<"close">> \in Seq(Messages)
         /\ \A e \in {"banner", "conflict"} : ~Contains(status \o <<"close">>, e)
<1>1. status \in Seq(Messages) /\ <<"close">> \in Seq(Messages)
  <2>1. /\ <<>> \in Seq(Messages) /\ <<"close">> \in Seq(Messages)
        /\ <<"zero">> \in Seq(Messages) /\ <<"nonzero">> \in Seq(Messages)
    BY DEF Messages
  <2> QED
    BY <2>1
<1>2. \A e \in {"banner", "conflict"} : ~Contains(status, e) /\ ~Contains(<<"close">>, e)
  BY DEF Contains
<1>3. status \o <<"close">> \in Seq(Messages)
  BY <1>1
<1> QED
  BY <1>1, <1>2, <1>3, ConcatContains

(* The output that is on its way or kept says what frps decided            *)
(* (VerdictInv).                                                           *)
THEOREM VerdictInvariant == Spec => []VerdictInv
<1>1. Init => VerdictInv
  BY EmptyContains DEF Init, VerdictInv, Told, Silent, LongSessionsEndClosed
<1>2. VerdictInv /\ [Next]_vars => VerdictInv'
  <2> SUFFICES ASSUME VerdictInv, [Next]_vars PROVE VerdictInv'
    OBVIOUS
  <2> USE DEF VerdictInv, LongSessionsEndClosed
  <2>1. CASE Starts \/ RechecksFlag
    BY <2>1 DEF Starts, RechecksFlag, SetupUnchanged, Returns, Told, Silent
  <2>2. CASE SetupFails
    BY <2>2 DEF SetupFails, SetupAwaits, SetupUnchanged, Returns, Told, Silent
  <2>3. CASE \/ Connects \/ Authenticates \/ PublishesSession
             \/ RequestsForward \/ OpensChannel
    BY <2>3 DEF Connects, Authenticates, PublishesSession, RequestsForward, OpensChannel,
       SetupUnchanged, Told, Silent
  <2>4. CASE Executes
    BY <2>4 DEF Executes, SetupUnchanged, Told, Silent
  <2>5. CASE PumpCanceled
    BY <2>5 DEF PumpCanceled, Returns, server, Told, Silent
  <2>6. CASE PumpReadsOutput
    <3> DEFINE piece == Head(queue)
    <3> USE <2>6 DEF PumpReadsOutput
    <3>1. piece \in Messages /\ queue' \in Seq(Messages) /\ output' \in Seq(Messages)
      BY DEF Messages, PushOutput
    <3>2. piece = queue[1] /\ 1 \in 1..Len(queue) /\ Contains(queue, piece)
      BY DEF Contains
    <3>3. \A e : Contains(output', e) => Contains(output, e) \/ piece = e
      BY <3>1, AppendContains DEF PushOutput
    <3>4. \A e : Contains(output, e) => Contains(output', e)
      BY <3>1, AppendContains DEF PushOutput
    <3>5. \A e : Told(e)' => Told(e)
      BY <3>2, <3>3, TailContains DEF Told
    <3>6. "banner" \in read' => Contains(output', "banner")
      <4>1. CASE "banner" \in read
        BY <3>4, <4>1
      <4>2. CASE piece = "banner"
        <5>1. output = <<>> /\ Len(output) < OutputCap
          BY <3>2, <4>2, BoundsAssumption
        <5>2. output' = Append(output, piece)
          BY <3>1, <5>1, BoundsAssumption DEF PushOutput
        <5>3. Contains(Append(output, piece), "banner")
          BY <3>1, <4>2, AppendContains
        <5> QED
          BY <5>2, <5>3
      <4> QED
        BY <4>1, <4>2
    <3>7. \A i \in 1..Len(queue') : queue'[i] # "banner"
      <4> SUFFICES ASSUME NEW i \in 1..Len(queue'), queue'[i] = "banner" PROVE FALSE
        OBVIOUS
      <4>1. i + 1 \in 1..Len(queue) /\ queue[i + 1] = "banner"
        OBVIOUS
      <4> QED
        BY <4>1
    <3>8. ~Silent /\ Silent' = Silent
      BY DEF Silent
    <3> QED
      BY <3>1, <3>5, <3>6, <3>7, <3>8
  <2>7. CASE PumpReadsExitStatus
    <3> USE <2>7 DEF PumpReadsExitStatus
    <3>1. queue' \in Seq(Messages)
      OBVIOUS
    <3>2. \A e : Told(e)' => Told(e)
      BY TailContains DEF Told
    <3>3. \A i \in 1..Len(queue') : queue'[i] # "banner"
      <4> SUFFICES ASSUME NEW i \in 1..Len(queue'), queue'[i] = "banner" PROVE FALSE
        OBVIOUS
      <4>1. i + 1 \in 1..Len(queue) /\ queue[i + 1] = "banner"
        OBVIOUS
      <4> QED
        BY <4>1
    <3>4. ~Silent /\ Silent' = Silent
      BY DEF Silent
    <3> QED
      BY <3>1, <3>2, <3>3, <3>4
  <2>8. CASE PumpEnds \/ DropClient
    BY <2>8 DEF PumpEnds, DropClient, server, Told, Silent
  <2>9. CASE PumpClassifies
    <3> USE <2>9 DEF PumpClassifies, Returns, server
    <3>1. outcome' = "ProxyConflict" => Told("conflict")
      BY DEF Verdict, Told
    <3>2. outcome' = "Closed" => Told("banner")
      BY DEF Verdict, Told
    <3>3. outcome' = "Other" /\ Contains(output, "banner") => exitStatus = "nonzero"
      BY DEF Verdict
    <3> QED
      BY <3>1, <3>2, <3>3 DEF Told, Silent
  <2>10. ASSUME NEW c \in Closers,
                CloseStoresFlag(c) \/ CloseTakesSlot(c) \/ CloseDisconnects(c)
         PROVE  VerdictInv'
    BY <2>10 DEF CloseStoresFlag, CloseTakesSlot, CloseDisconnects, client, server,
       Told, Silent
  <2>11. CASE SessionStops \/ NetworkFails \/ UNCHANGED vars
    BY <2>11 DEF SessionStops, NetworkFails, vars, client, server, Told, Silent
  <2>12. CASE FrpsDecides
    BY <2>12 DEF FrpsDecides, client, Told, Silent
  <2>13. CASE FrpsSendsBanner
    <3> USE <2>13 DEF FrpsSendsBanner, FrpsSends, client
    <3>1. queue' = <<"banner">> /\ output' = <<>> /\ read' = {}
      BY DEF Silent
    <3>2. queue' \in Seq(Messages) /\ ~Contains(queue', "conflict")
      BY <3>1 DEF Messages, Contains
    <3>3. outcome' = outcome /\ outcome \notin {"Closed", "ProxyConflict"}
      OBVIOUS
    <3> QED
      BY <3>1, <3>2, <3>3, EmptyContains DEF Told, Silent
  <2>14. CASE FrpsTalks
    <3>1. <<"text">> \in Seq(Messages) /\ \A e \in {"banner", "conflict"} : ~Contains(<<"text">>, e)
      BY DEF Messages, Contains
    <3> QED
      BY <2>14, <3>1, PlainOutput DEF FrpsTalks, FrpsSends, Silent
  <2>15. CASE FrpsCloses
    BY <2>15, EndOfSession, PlainOutput DEF FrpsCloses, FrpsSends, Silent
  <2>16. CASE FrpsTurnsDown
    <3> USE <2>16 DEF FrpsTurnsDown, FrpsSends
    <3> DEFINE piece == IF frps = "refused" THEN "conflict" ELSE "text"
    <3>1. PICK status \in {<<>>, <<"zero">>, <<"nonzero">>} :
            queue' = queue \o (<<piece>> \o (status \o <<"close">>))
      OBVIOUS
    <3> DEFINE messages == <<piece>> \o (status \o <<"close">>)
    <3>2. <<piece>> \in Seq(Messages) /\ \A e : Contains(<<piece>>, e) => e = piece
      BY DEF Messages, Contains
    <3>3. messages \in Seq(Messages) /\ queue' = queue \o messages
      <4>1. status \o <<"close">> \in Seq(Messages)
        BY EndOfSession
      <4>2. \A s, t \in Seq(Messages) : s \o t \in Seq(Messages)
        OBVIOUS
      <4>3. messages \in Seq(Messages)
        BY <3>2, <4>1, <4>2
      <4> QED
        BY <3>1, <4>3
    <3>4. \A e \in {"banner", "conflict"} : Contains(messages, e) => e = piece
      BY <3>2, EndOfSession, ConcatContains
    <3>5. CASE frps = "rejected"
      BY <3>3, <3>4, <3>5, PlainOutput DEF Silent
    <3>6. CASE frps = "refused"
      <4>1. queue' = messages /\ output' = <<>> /\ read' = {} /\ frps' = "refusedTold"
        BY <3>3, <3>6 DEF Silent, client
      <4>2. \A i \in 1..Len(queue') : queue'[i] # "banner"
        BY <3>4, <3>6, <4>1 DEF Contains
      <4>3. ~Told("banner")'
        BY <4>1, <4>2, EmptyContains DEF Told, Contains
      <4>4. UNCHANGED <<pc, outcome>> /\ outcome \notin {"Closed", "ProxyConflict"}
            /\ pc \in {"pump", "finish", "done", "dropped"}
        BY <3>6 DEF client
      <4> QED
        BY <3>3, <4>1, <4>2, <4>3, <4>4 DEF Silent
    <3> QED
      BY <3>5, <3>6
  <2> QED
    BY <2>1, <2>2, <2>3, <2>4, <2>5, <2>6, <2>7, <2>8, <2>9, <2>10, <2>11, <2>12,
       <2>13, <2>14, <2>15, <2>16
       DEF Next, ClientStep, FrpsStep
<1> QED
  BY <1>1, <1>2, PTL DEF Spec

(* start() reports a clean close only of a session frps had registered, a  *)
(* conflict only of one whose name frps refused, and a failure of a        *)
(* session whose banner was read only with an error status, for any buffer *)
(* and any amount of output.                                               *)
THEOREM VerdictIsTrue == Spec => []ResultIsFrpsVerdict
<1>1. VerdictInv => ResultIsFrpsVerdict
  BY DEF VerdictInv, ResultIsFrpsVerdict, Registered, Refused
<1> QED
  BY <1>1, VerdictInvariant, PTL
=============================================================================
