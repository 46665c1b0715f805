------------------------- MODULE NameRegistryProofs -------------------------
(***************************************************************************)
(* Proofs about NameRegistry, for any proxies, retry counts, other clients *)
(* and number of troubles. The runner in it is GatewayRunner's, so what    *)
(* GatewayRunnerProofs shows of one holds here too.                        *)
(***************************************************************************)
EXTENDS NameRegistry, GatewayRunnerProofs

(* The steps of a tunnel and of frps that move the tunnel of p.            *)
TunnelMoves(p) ==
  \/ Connects(p) \/ SetupFails(p) \/ Registers(p) \/ Refuses(p)
  \/ RefusalArrives(p) \/ FrpsCloses(p) \/ LinkLost(p)

(* The steps of frps and of other clients that no proxy sees.              *)
OthersMove(n) == GhostExpires(n) \/ ForeignLeaves(n) \/ ForeignTakes(n)

LEMMA RegistrySteps ==
  ASSUME [RegistryNext]_allVars
  PROVE  \/ \E p \in Proxies : RunnerStep(p) \/ TunnelMoves(p)
         \/ \E n \in Names : OthersMove(n)
         \/ UNCHANGED allVars
BY DEF RegistryNext, Attempt, TunnelMoves, OthersMove

LEMMA TunnelMovesAreSteps ==
  ASSUME NEW p \in Proxies, TunnelMoves(p)
  PROVE  TunnelStep(p)
BY DEF TunnelMoves, Connects, SetupFails, Registers, Refuses, RefusalArrives, FrpsCloses,
       LinkLost, TunnelReaches

(* The registry only joins the runner's steps with frps' decisions: each   *)
(* step is one of the runner's, or none of its business. So every theorem  *)
(* about the runner holds under RegistrySpec as well.                      *)
THEOREM RegistryRunsTheRunner == RegistrySpec => Spec
<1>1. RegistryInit => Init
  BY DEF RegistryInit
<1>2. [RegistryNext]_allVars => [Next]_vars
  <2> SUFFICES ASSUME [RegistryNext]_allVars PROVE [Next]_vars
    OBVIOUS
  <2>1. ASSUME NEW p \in Proxies, RunnerStep(p) PROVE Next
    BY <2>1 DEF RunnerStep, Next
  <2>2. ASSUME NEW p \in Proxies, TunnelMoves(p) PROVE Next
    BY <2>2, TunnelMovesAreSteps DEF Next
  <2>3. ASSUME NEW n \in Names, OthersMove(n) PROVE UNCHANGED vars
    BY <2>3 DEF OthersMove, GhostExpires, ForeignLeaves, ForeignTakes
  <2>4. CASE UNCHANGED allVars
    BY <2>4 DEF allVars
  <2> QED
    BY <2>1, <2>2, <2>3, <2>4, RegistrySteps
<1> QED
  BY <1>1, <1>2, PTL DEF RegistrySpec, Spec

-----------------------------------------------------------------------------
(* What the client and frps know of each other *)

(* The proxy has no session and its attempt has not ended, but perhaps     *)
(* with a conflict.                                                        *)
Pending(p) ==
  /\ Trying(p)
  /\ registered[p] = NoName
  /\ tunnel[p] \notin {"Closed", "Canceled", "Other"}

(* A session without a name was refused the one it asked for; a proxy that *)
(* tries renamed candidates was refused the configured name since its last *)
(* registration; and so was the name of that registration, unless it is    *)
(* the configured one or still the candidate.                              *)
RefusalsAt(p) ==
  /\ pc[p] # "tunnel" => tunnel[p] = "idle"
  /\ registered[p] # NoName => tunnel[p] = "open" /\ registered[p] = Wanted(p)
  /\ tunnel[p] \in {"open", "ProxyConflict"} /\ registered[p] = NoName =>
       Wanted(p) \in refused[p]
  /\ phase[p] = "rename" /\ Pending(p) => 0 \in refused[p]
  /\ last[p] \notin {NoName, 0, exNumber[p]} => last[p] \in refused[p]

RegistryInv == RegistryTypeOK /\ \A p \in Proxies : RefusalsAt(p)

(* Nothing that RefusalsAt speaks of changes for q.                        *)
ProxyUntouched(q) ==
  /\ pc'[q] = pc[q]
  /\ phase'[q] = phase[q]
  /\ exNumber'[q] = exNumber[q]
  /\ tunnel'[q] = tunnel[q]
  /\ registered'[q] = registered[q]
  /\ last'[q] = last[q]
  /\ refused'[q] = refused[q]

LEMMA RefusalsFrame ==
  ASSUME NEW q \in Proxies, RefusalsAt(q), ProxyUntouched(q)
  PROVE  RefusalsAt(q)'
BY DEF RefusalsAt, ProxyUntouched, Pending, Trying, Wanted

(* A step of p that leaves the others alone keeps the invariant if p's     *)
(* part of it, and the types of the registry, are kept.                    *)
LEMMA RefusalsOfOthers ==
  ASSUME NEW p \in Proxies, \A q \in Proxies : RefusalsAt(q), RefusalsAt(p)',
         \A q \in Proxies \ {p} : ProxyUntouched(q)
  PROVE  \A q \in Proxies : RefusalsAt(q)'
BY RefusalsFrame

(* What the types of the registry say beside the agreement.                *)
RegistryTypes ==
  /\ registered \in [Proxies -> Names \cup {NoName}]
  /\ ghosts \subseteq Names
  /\ foreign \subseteq Foreign
  /\ last \in [Proxies -> Names \cup {NoName}]
  /\ refused \in [Proxies -> SUBSET Names]

LEMMA RegistryTypeParts ==
  RegistryTypes /\ (\A p \in Proxies : RefusalsAt(p)) => RegistryTypeOK
BY DEF RegistryTypes, RefusalsAt, RegistryTypeOK

LEMMA RunnerKeepsRefusals ==
  ASSUME TypeOK, RegistryInv, NEW p \in Proxies, RunnerStep(p)
  PROVE  /\ \A q \in Proxies : RefusalsAt(q)'
         /\ UNCHANGED registry
<1>1. TaskStep(p) /\ UNCHANGED registry
  BY DEF RunnerStep
<1>2. \A q \in Proxies \ {p} : ProxyUntouched(q)
  BY <1>1 DEF TypeOK, ProxyUntouched, registry, TaskStep, HandleResult, LoopEnds, CycleBegins,
     StartRefused, StartBuildsTunnel, StartInsertsTunnel, HandleClosed, HandleCanceled,
     HandleOther, HandleConflictRenameOff, HandleConflictRetrySame,
     HandleConflictStartRename, HandleConflictRenamed, WaitCancelled,
     ConflictWaitElapses, BackoffElapses, AttemptEnds, naming, tunnels
<1>3. RefusalsAt(p)'
  <2> USE DEF TypeOK, RegistryInv, RefusalsAt, Pending, Trying, Wanted
  <2>1. CASE LoopEnds(p) \/ StartRefused(p) \/ WaitCancelled(p) \/ ConflictWaitElapses(p)
             \/ BackoffElapses(p) \/ StartInsertsTunnel(p)
    BY <1>1, <2>1 DEF LoopEnds, StartRefused, WaitCancelled, ConflictWaitElapses,
       BackoffElapses, StartInsertsTunnel, registry, naming, tunnels
  <2>2. CASE CycleBegins(p)
    BY <1>1, <2>2 DEF CycleBegins, registry, tunnels
  <2>3. CASE StartBuildsTunnel(p)
    BY <1>1, <2>3 DEF StartBuildsTunnel, registry, naming
  <2>4. CASE HandleClosed(p) \/ HandleCanceled(p) \/ HandleOther(p)
    BY <1>1, <2>4 DEF HandleClosed, HandleCanceled, HandleOther, AttemptEnds, registry, naming
  <2>5. CASE HandleConflictRenameOff(p) \/ HandleConflictRetrySame(p)
    BY <1>1, <2>5 DEF HandleConflictRenameOff, HandleConflictRetrySame, AttemptEnds, registry
  <2>6. CASE HandleConflictStartRename(p)
    BY <1>1, <2>6 DEF HandleConflictStartRename, AttemptEnds, registry
  <2>7. CASE HandleConflictRenamed(p)
    BY <1>1, <2>7 DEF HandleConflictRenamed, AttemptEnds, registry
  <2> QED
    BY <1>1, <2>1, <2>2, <2>3, <2>4, <2>5, <2>6, <2>7 DEF TaskStep, HandleResult
<1> QED
  BY <1>1, <1>2, <1>3, RefusalsOfOthers DEF RegistryInv

(* Which stage comes before which (TunnelStates).                          *)
LEMMA StageBefore ==
  ASSUME NEW s \in Status, NEW c \in BOOLEAN, NEW t \in NextStatus(s, c)
  PROVE  /\ s \notin Final
         /\ t = "setup" => s = "idle"
         /\ t = "open" => s = "setup"
BY DEF NextStatus, Status, Final

LEMMA TunnelKeepsRefusals ==
  ASSUME TypeOK, RegistryInv, NEW p \in Proxies, TunnelMoves(p)
  PROVE  RegistryTypes' /\ \A q \in Proxies : RefusalsAt(q)'
<1>1. PICK s \in NextStatus(tunnel[p], cancelled[p]) : tunnel' = [tunnel EXCEPT ![p] = s]
  BY TunnelMovesAreSteps DEF TunnelStep
<1>2. pc[p] = "tunnel" /\ UNCHANGED <<pc, naming>>
  BY TunnelMovesAreSteps DEF TunnelStep
<1>3. Wanted(p) \in Names /\ tunnel'[p] = s
  BY <1>1, NamesAreNames DEF TypeOK
<1> USE DEF TypeOK, RegistryInv, RegistryTypeOK, RegistryTypes, RefusalsAt, Pending, Trying,
            Wanted, ProxyUntouched, naming, registry
<1>4. CASE Connects(p)
  <2>1. tunnel[p] = "idle"
    BY <1>1, <1>3, <1>4, StageBefore DEF Connects, TunnelReaches
  <2> QED
    BY <1>1, <1>2, <1>4, <2>1, RefusalsOfOthers DEF Connects, TunnelReaches
<1>5. CASE SetupFails(p)
  BY <1>1, <1>2, <1>5, RefusalsOfOthers DEF SetupFails, TunnelReaches
<1>6. CASE Registers(p)
  <2>1. Wanted(p) # NoName
    BY <1>3, RetryAssumption DEF RetryAssumption, Names, NoName
  <2>2. RegistryTypes' /\ \A q \in Proxies \ {p} : ProxyUntouched(q)
    BY <1>1, <1>2, <1>3, <1>6 DEF Registers, TunnelReaches
  <2>3. RefusalsAt(p)'
    BY <1>1, <1>2, <1>3, <1>6, <2>1 DEF Registers, TunnelReaches
  <2> QED
    BY <2>2, <2>3, RefusalsOfOthers
<1>7. CASE Refuses(p)
  <2>1. tunnel[p] = "setup"
    BY <1>1, <1>3, <1>7, StageBefore DEF Refuses, TunnelReaches
  <2> QED
    BY <1>1, <1>2, <1>3, <1>7, <2>1, RefusalsOfOthers DEF Refuses, TunnelReaches
<1>8. CASE RefusalArrives(p)
  BY <1>1, <1>2, <1>8, RefusalsOfOthers DEF RefusalArrives, TunnelReaches
<1>9. CASE FrpsCloses(p)
  BY <1>1, <1>2, <1>9, RefusalsOfOthers DEF FrpsCloses, TunnelReaches
<1>10. CASE LinkLost(p)
  BY <1>1, <1>2, <1>10, RefusalsOfOthers DEF LinkLost, TunnelReaches
<1> QED
  BY <1>4, <1>5, <1>6, <1>7, <1>8, <1>9, <1>10 DEF TunnelMoves

(* What frps has refused a proxy, wherever its task stands, whoever else   *)
(* competes and whichever links are lost (RegistryInv).                    *)
THEOREM RefusalsInvariant == RegistrySpec => []RegistryInv
<1>1. RegistryInit => RegistryInv
  BY RegistryAssumption DEF RegistryInit, Init, RegistryInv, RegistryTypeOK, RefusalsAt,
     Pending, NoName, RegistryAssumption
<1>2. TypeOK /\ RegistryInv /\ [RegistryNext]_allVars => RegistryInv'
  <2> SUFFICES ASSUME TypeOK, RegistryInv, [RegistryNext]_allVars PROVE RegistryInv'
    OBVIOUS
  <2>1. ASSUME NEW p \in Proxies, RunnerStep(p)
        PROVE  RegistryTypes' /\ \A q \in Proxies : RefusalsAt(q)'
    BY <2>1, RunnerKeepsRefusals DEF registry, RegistryTypes, RegistryInv, RegistryTypeOK
  <2>2. ASSUME NEW p \in Proxies, TunnelMoves(p)
        PROVE  RegistryTypes' /\ \A q \in Proxies : RefusalsAt(q)'
    BY <2>2, TunnelKeepsRefusals
  <2>3. ASSUME NEW n \in Names, OthersMove(n)
        PROVE  RegistryTypes' /\ \A q \in Proxies : RefusalsAt(q)'
    <3>1. \A q \in Proxies : ProxyUntouched(q)
      BY <2>3 DEF OthersMove, GhostExpires, ForeignLeaves, ForeignTakes, ProxyUntouched,
         vars, naming, tunnels
    <3>2. RegistryTypes'
      BY <2>3 DEF OthersMove, GhostExpires, ForeignLeaves, ForeignTakes, RegistryTypes,
         RegistryInv, RegistryTypeOK
    <3> QED
      BY <3>1, <3>2, RefusalsFrame DEF RegistryInv
  <2>4. ASSUME UNCHANGED allVars
        PROVE  RegistryTypes' /\ \A q \in Proxies : RefusalsAt(q)'
    BY <2>4, RefusalsFrame DEF allVars, vars, registry, naming, tunnels, ProxyUntouched,
       RegistryTypes, RegistryInv, RegistryTypeOK
  <2>5. RegistryTypes' /\ \A q \in Proxies : RefusalsAt(q)'
    BY <2>1, <2>2, <2>3, <2>4, RegistrySteps
  <2> QED
    BY <2>5, RegistryTypeParts DEF RegistryTypes, RefusalsAt, RegistryInv, RegistryTypeOK
<1> QED
  BY <1>1, <1>2, RegistryRunsTheRunner, TypeCorrect, PTL DEF RegistrySpec

(* A name is registered for no one but a running tunnel that asked for it, *)
(* whatever was lost in between.                                           *)
THEOREM RegistryTypeCorrect == RegistrySpec => []RegistryTypeOK
BY RefusalsInvariant, PTL DEF RegistryInv

(* Since its last registration a proxy that registers another name than    *)
(* that one and the configured one was refused both (run_proxy).           *)
THEOREM AddressIsStable == RegistrySpec => AddressChangesOnlyOnConflict
<1>1. TypeOK /\ RegistryInv /\ [RegistryNext]_allVars =>
        [\A p \in Proxies :
           last'[p] \notin {last[p], 0} => {0, last[p]} \ {NoName} \subseteq refused[p]]_allVars
  <2> SUFFICES ASSUME TypeOK, RegistryInv, [RegistryNext]_allVars, NEW p \in Proxies,
                      last'[p] \notin {last[p], 0}
               PROVE  {0, last[p]} \ {NoName} \subseteq refused[p]
    OBVIOUS
  <2>1. Registers(p)
    <3>1. ASSUME NEW q \in Proxies, Registers(q), q # p PROVE FALSE
      BY <3>1 DEF Registers, RegistryInv, RegistryTypeOK
    <3>2. ASSUME NEW q \in Proxies, RunnerStep(q) \/ TunnelMoves(q), ~Registers(q)
          PROVE  last' = last
      BY <3>2 DEF RunnerStep, TunnelMoves, Connects, SetupFails, Refuses, RefusalArrives,
         FrpsCloses, LinkLost, registry
    <3>3. ASSUME NEW n \in Names, OthersMove(n) PROVE last' = last
      BY <3>3 DEF OthersMove, GhostExpires, ForeignLeaves, ForeignTakes
    <3> QED
      BY <3>1, <3>2, <3>3, RegistrySteps DEF allVars, registry
  <2>2. /\ last'[p] = Wanted(p)
        /\ phase[p] = "rename" /\ last'[p] = exNumber[p]
    BY <2>1 DEF Registers, RegistryInv, RegistryTypeOK, Wanted, TypeOK
  <2>3. pc[p] = "tunnel" /\ tunnel[p] = "setup"
    BY <2>1 DEF Registers, TunnelReaches, TunnelStep, NextStatus, TypeOK, Status, Final
  <2>4. Pending(p)
    BY <2>3 DEF Pending, Trying, RegistryInv, RefusalsAt
  <2> QED
    BY <2>2, <2>4 DEF RegistryInv, RefusalsAt
<1> QED
  BY <1>1, RefusalsInvariant, RegistryRunsTheRunner, TypeCorrect, PTL
     DEF RegistrySpec, AddressChangesOnlyOnConflict
=============================================================================
