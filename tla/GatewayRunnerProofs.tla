------------------------ MODULE GatewayRunnerProofs -------------------------
(***************************************************************************)
(* Proofs about GatewayRunner, for any finite set of proxies and any retry *)
(* counts and delays that satisfy RetryAssumption.                         *)
(***************************************************************************)
EXTENDS GatewayRunner, TLAPS

-----------------------------------------------------------------------------
(* Types *)

(* What the conflict handlers compute is a name, and the backoff stays     *)
(* within its bounds.                                                      *)
LEMMA NamesAreNames ==
  ASSUME TypeOK
  PROVE  /\ 0 \in Names /\ 1 \in Names
         /\ \A p \in Proxies : Wanted(p) \in Names /\ NextEx(exNumber[p]) \in Names
BY RetryAssumption DEF RetryAssumption, TypeOK, Names, Wanted, NextEx

LEMMA DelaysAreDelays ==
  /\ ReconnectBaseDelay \in ReconnectBaseDelay .. ReconnectMaxDelay
  /\ \A d \in ReconnectBaseDelay .. ReconnectMaxDelay :
       Doubled(d) \in ReconnectBaseDelay .. ReconnectMaxDelay
BY RetryAssumption DEF RetryAssumption, Doubled

(* The end of an attempt keeps the types of what it changes.               *)
LEMMA AttemptEndsTypes ==
  ASSUME TypeOK, NEW p \in Proxies, NEW r, AttemptEnds(p, r)
  PROVE  /\ active' \subseteq Proxies
         /\ tunnel' \in [Proxies -> Status]
         /\ cancelled' \in [Proxies -> BOOLEAN]
BY DEF TypeOK, AttemptEnds, Status, Final

LEMMA SweepTypes ==
  ASSUME TypeOK, SweepActive
  PROVE  cancelled' \in [Proxies -> BOOLEAN] /\ raced' \subseteq Proxies
BY DEF TypeOK, SweepActive

(* Every variable keeps its type; in particular the ex number stays in the *)
(* sequence and the backoff between its base and its cap (run_proxy).      *)
THEOREM TypeCorrect == Spec => []TypeOK
<1>1. Init => TypeOK
  <2> SUFFICES ASSUME Init PROVE TypeOK
    OBVIOUS
  <2>1. 0 \in Names
    BY RetryAssumption DEF RetryAssumption, Names
  <2> QED
    BY <2>1, DelaysAreDelays DEF Init, TypeOK, TaskPc, Status
<1>2. TypeOK /\ [Next]_vars => TypeOK'
  <2> SUFFICES ASSUME TypeOK, [Next]_vars PROVE TypeOK'
    OBVIOUS
  <2> USE DEF TypeOK, TaskPc
  <2>1. ASSUME NEW p \in Proxies, LoopEnds(p) PROVE TypeOK'
    BY <2>1 DEF LoopEnds, control, naming, pacing, tunnels
  <2>2. ASSUME NEW p \in Proxies, CycleBegins(p) PROVE TypeOK'
    BY <2>2 DEF CycleBegins, control, pacing, tunnels
  <2>3. ASSUME NEW p \in Proxies, StartRefused(p) PROVE TypeOK'
    BY <2>3 DEF StartRefused, control, naming, pacing, tunnels
  <2>4. ASSUME NEW p \in Proxies, StartBuildsTunnel(p) PROVE TypeOK'
    BY <2>4 DEF StartBuildsTunnel, control, naming, pacing, Status
  <2>5. ASSUME NEW p \in Proxies, StartInsertsTunnel(p) PROVE TypeOK'
    BY <2>5 DEF StartInsertsTunnel, control, naming, pacing
  <2>6. ASSUME NEW p \in Proxies, TunnelStep(p) PROVE TypeOK'
    BY <2>6 DEF TunnelStep, NextStatus, Status, Final, control, naming, pacing
  <2>7. ASSUME NEW p \in Proxies, HandleClosed(p) PROVE TypeOK'
    BY <2>7, AttemptEndsTypes, DelaysAreDelays DEF HandleClosed, control
  <2>8. ASSUME NEW p \in Proxies, HandleCanceled(p) PROVE TypeOK'
    BY <2>8, AttemptEndsTypes DEF HandleCanceled, control, naming, pacing
  <2>9. ASSUME NEW p \in Proxies, HandleOther(p) PROVE TypeOK'
    BY <2>9, AttemptEndsTypes DEF HandleOther, control, naming
  <2>10. ASSUME NEW p \in Proxies, HandleConflictRenameOff(p) PROVE TypeOK'
    BY <2>10, AttemptEndsTypes, NamesAreNames DEF HandleConflictRenameOff, control
  <2>11. ASSUME NEW p \in Proxies, HandleConflictRetrySame(p) PROVE TypeOK'
    BY <2>11, AttemptEndsTypes, NamesAreNames DEF HandleConflictRetrySame, control, pacing
  <2>12. ASSUME NEW p \in Proxies, HandleConflictStartRename(p) PROVE TypeOK'
    <3> USE <2>12 DEF HandleConflictStartRename
    <3>1. tried' \in [Proxies -> SUBSET Names] /\ exNumber' \in [Proxies -> Names]
      BY NamesAreNames
    <3>2. /\ phase' \in [Proxies -> {"same", "rename"}]
          /\ attempt' \in [Proxies -> Nat]
          /\ pc' \in [Proxies -> TaskPc]
          /\ failed' \in [Proxies -> BOOLEAN]
      <4>1. CASE MaxRenameRetries > 0
        BY <4>1
      <4>2. CASE ~(MaxRenameRetries > 0)
        BY <4>2
      <4> QED
        BY <4>1, <4>2
    <3> QED
      BY <3>1, <3>2, AttemptEndsTypes DEF control
  <2>13. ASSUME NEW p \in Proxies, HandleConflictRenamed(p) PROVE TypeOK'
    <3> USE <2>13 DEF HandleConflictRenamed
    <3>1. /\ tried' \in [Proxies -> SUBSET Names]
          /\ exNumber' \in [Proxies -> Names]
          /\ kept' \in [Proxies -> Names]
      BY NamesAreNames
    <3>2. /\ attempt' \in [Proxies -> Nat]
          /\ pc' \in [Proxies -> TaskPc]
          /\ failed' \in [Proxies -> BOOLEAN]
      <4>1. CASE attempt[p] + 1 < MaxRenameRetries
        BY <4>1
      <4>2. CASE ~(attempt[p] + 1 < MaxRenameRetries)
        BY <4>2
      <4> QED
        BY <4>1, <4>2
    <3> QED
      BY <3>1, <3>2, AttemptEndsTypes DEF control
  <2>14. ASSUME NEW p \in Proxies, WaitCancelled(p) PROVE TypeOK'
    BY <2>14 DEF WaitCancelled, control, naming, pacing, tunnels
  <2>15. ASSUME NEW p \in Proxies, ConflictWaitElapses(p) PROVE TypeOK'
    BY <2>15 DEF ConflictWaitElapses, control, naming, pacing, tunnels
  <2>16. ASSUME NEW p \in Proxies, BackoffElapses(p) PROVE TypeOK'
    BY <2>16, DelaysAreDelays DEF BackoffElapses, control, naming, tunnels
  <2>17. ASSUME NEW p \in Proxies, Panic(p) PROVE TypeOK'
    BY <2>17 DEF Panic, control, naming, pacing, tunnels
  <2>18. ASSUME NEW p \in Proxies, JoinTask(p) PROVE TypeOK'
    BY <2>18 DEF JoinTask, naming, pacing, tunnels
  <2>19. ASSUME NEW p \in Proxies, JoinPanicked(p) PROVE TypeOK'
    BY <2>19 DEF JoinPanicked, naming, pacing, tunnels
  <2>20. CASE JoinSweep
    BY <2>20, SweepTypes DEF JoinSweep, naming, pacing
  <2>21. CASE JoinReturns
    BY <2>21 DEF JoinReturns, naming, pacing, tunnels
  <2>22. CASE MainSignal
    BY <2>22 DEF MainSignal, naming, pacing, tunnels
  <2>23. CASE MainSweep
    BY <2>23, SweepTypes DEF MainSweep, naming, pacing
  <2>24. CASE MainExit
    BY <2>24 DEF MainExit, naming, pacing, tunnels
  <2>25. CASE UNCHANGED vars
    BY <2>25 DEF vars, control, naming, pacing, tunnels
  <2> QED
    BY <2>1, <2>2, <2>3, <2>4, <2>5, <2>6, <2>7, <2>8, <2>9, <2>10, <2>11, <2>12,
       <2>13, <2>14, <2>15, <2>16, <2>17, <2>18, <2>19, <2>20, <2>21, <2>22, <2>23,
       <2>24, <2>25
       DEF Next, TaskStep, HandleResult, Joins, Exited
<1> QED
  BY <1>1, <1>2, PTL DEF Spec
-----------------------------------------------------------------------------
(* Shutdown *)

(* The strengthening that makes the shutdown properties inductive: who may *)
(* still be on the way into the map, that nothing is cancelled before the  *)
(* flag is set, and what the joining task has seen of the panics.          *)
ShutdownInv ==
  /\ ActiveIsWhatRuns
  /\ TasksEndOnlyOnClose
  /\ SweepMissesOnlyRaced
  /\ CloseDone => \A p \in Proxies : pc[p] = "insert" => p \in raced
  /\ mainPc # "waiting" \/ joinPc = "sweeping" => closed
  /\ \A p \in Proxies : cancelled[p] \/ tunnel[p] = "Canceled" => closed
  /\ reaped \subseteq Ended
  /\ joinPc # "sweeping" => \A p \in reaped : pc[p] = "panicked" => cancelled[p]
  /\ joinPc = "returned" => reaped = Proxies

(* What the tasks, their panics and the sweeps of close() keep in every    *)
(* interleaving (ShutdownInv).                                             *)
THEOREM ShutdownInvariant == Spec => []ShutdownInv
<1>1. Init => ShutdownInv
  BY DEF Init, ShutdownInv, ActiveIsWhatRuns, TasksEndOnlyOnClose, SweepMissesOnlyRaced,
         CloseDone, Ended
<1>2. TypeOK /\ ShutdownInv /\ [Next]_vars => ShutdownInv'
  <2> SUFFICES ASSUME TypeOK, ShutdownInv, [Next]_vars PROVE ShutdownInv'
    OBVIOUS
  <2> USE DEF TypeOK, ShutdownInv, ActiveIsWhatRuns, TasksEndOnlyOnClose,
              SweepMissesOnlyRaced, CloseDone, Ended
  <2>1. ASSUME NEW p \in Proxies, LoopEnds(p) PROVE ShutdownInv'
    BY <2>1 DEF LoopEnds, control, tunnels
  <2>2. ASSUME NEW p \in Proxies, CycleBegins(p) PROVE ShutdownInv'
    BY <2>2 DEF CycleBegins, control, tunnels
  <2>3. ASSUME NEW p \in Proxies, StartRefused(p) PROVE ShutdownInv'
    BY <2>3 DEF StartRefused, control, tunnels
  <2>4. ASSUME NEW p \in Proxies, StartBuildsTunnel(p) PROVE ShutdownInv'
    BY <2>4 DEF StartBuildsTunnel, control, tunnels
  <2>5. ASSUME NEW p \in Proxies, StartInsertsTunnel(p) PROVE ShutdownInv'
    BY <2>5 DEF StartInsertsTunnel, control, tunnels
  <2>6. ASSUME NEW p \in Proxies, TunnelStep(p) PROVE ShutdownInv'
    <3>1. PICK s \in NextStatus(tunnel[p], cancelled[p]) :
            tunnel' = [tunnel EXCEPT ![p] = s]
      BY <2>6 DEF TunnelStep
    <3>2. s = "Canceled" => cancelled[p]
      BY DEF NextStatus, Status, Final
    <3>3. \A q \in Proxies : cancelled[q] \/ tunnel'[q] = "Canceled" => closed
      BY <3>1, <3>2
    <3> QED
      BY <2>6, <3>3 DEF TunnelStep, control
  <2>7. ASSUME NEW p \in Proxies, HandleClosed(p) PROVE ShutdownInv'
    BY <2>7 DEF HandleClosed, AttemptEnds, control, tunnels
  <2>8. ASSUME NEW p \in Proxies, HandleCanceled(p) PROVE ShutdownInv'
    BY <2>8 DEF HandleCanceled, AttemptEnds, control, tunnels
  <2>9. ASSUME NEW p \in Proxies, HandleOther(p) PROVE ShutdownInv'
    BY <2>9 DEF HandleOther, AttemptEnds, control, tunnels
  <2>10. ASSUME NEW p \in Proxies, HandleConflictRenameOff(p) PROVE ShutdownInv'
    BY <2>10 DEF HandleConflictRenameOff, AttemptEnds, control, tunnels
  <2>11. ASSUME NEW p \in Proxies, HandleConflictRetrySame(p) PROVE ShutdownInv'
    BY <2>11 DEF HandleConflictRetrySame, AttemptEnds, control, tunnels
  <2>12. ASSUME NEW p \in Proxies, HandleConflictStartRename(p) PROVE ShutdownInv'
    BY <2>12 DEF HandleConflictStartRename, AttemptEnds, control, tunnels
  <2>13. ASSUME NEW p \in Proxies, HandleConflictRenamed(p) PROVE ShutdownInv'
    BY <2>13 DEF HandleConflictRenamed, AttemptEnds, control, tunnels
  <2>14. ASSUME NEW p \in Proxies, WaitCancelled(p) PROVE ShutdownInv'
    BY <2>14 DEF WaitCancelled, control, tunnels
  <2>15. ASSUME NEW p \in Proxies, ConflictWaitElapses(p) PROVE ShutdownInv'
    BY <2>15 DEF ConflictWaitElapses, control, tunnels
  <2>16. ASSUME NEW p \in Proxies, BackoffElapses(p) PROVE ShutdownInv'
    BY <2>16 DEF BackoffElapses, control, tunnels
  <2>17. ASSUME NEW p \in Proxies, Panic(p) PROVE ShutdownInv'
    BY <2>17 DEF Panic, control, tunnels
  <2>18. ASSUME NEW p \in Proxies, JoinTask(p) PROVE ShutdownInv'
    BY <2>18 DEF JoinTask, tunnels
  <2>19. ASSUME NEW p \in Proxies, JoinPanicked(p) PROVE ShutdownInv'
    BY <2>19 DEF JoinPanicked, tunnels
  <2>20. CASE JoinSweep
    BY <2>20 DEF JoinSweep, SweepActive
  <2>21. CASE JoinReturns
    BY <2>21 DEF JoinReturns, tunnels
  <2>22. CASE MainSignal
    BY <2>22 DEF MainSignal, tunnels
  <2>23. CASE MainSweep
    BY <2>23 DEF MainSweep, SweepActive
  <2>24. CASE MainExit
    BY <2>24 DEF MainExit, tunnels
  <2>25. CASE UNCHANGED vars
    BY <2>25 DEF vars, control, tunnels
  <2> QED
    BY <2>1, <2>2, <2>3, <2>4, <2>5, <2>6, <2>7, <2>8, <2>9, <2>10, <2>11, <2>12, <2>13, <2>14, <2>15, <2>16, <2>17, <2>18, <2>19, <2>20, <2>21, <2>22, <2>23, <2>24, <2>25 DEF Next, TaskStep, HandleResult, Joins, Exited
<1> QED
  BY <1>1, <1>2, TypeCorrect, PTL DEF Spec
(* close() finds every tunnel that runs, and every tunnel a panic left.    *)
THEOREM ActiveTracksTunnels == Spec => []ActiveIsWhatRuns
BY ShutdownInvariant, PTL DEF ShutdownInv

(* A proxy's task ends only after close() stored the flag.                 *)
THEOREM TasksEndOnClose == Spec => []TasksEndOnlyOnClose
BY ShutdownInvariant, PTL DEF ShutdownInv

(* A finished close() cancelled every tunnel in the map, but for those     *)
(* whose task was between the check of start() and `active.insert`.        *)
THEOREM SweepIsCompleteButForTheRace == Spec => []SweepMissesOnlyRaced
BY ShutdownInvariant, PTL DEF ShutdownInv

(* run() returns with no connected tunnel left, panics or not.             *)
THEOREM ReturnIsClean == Spec => []ReturnLeavesNoTunnel
<1>1. ShutdownInv => ReturnLeavesNoTunnel
  BY DEF ShutdownInv, ReturnLeavesNoTunnel, ActiveIsWhatRuns, Ended
<1> QED
  BY <1>1, ShutdownInvariant, PTL

-----------------------------------------------------------------------------
(* The rename sequence *)

(* How many steps of the sequence lead from name n to p's next candidate;  *)
(* the next candidate itself is a whole turn away.                         *)
StepsSince(p, n) ==
  IF n < exNumber[p] THEN exNumber[p] - n ELSE exNumber[p] - n + MaxExSequence

(* In the rename phase the refused names are the configured one and the    *)
(* last attempt[p] ones of the sequence.                                   *)
NamingInvAt(p) ==
  /\ phase[p] = "rename" => exNumber[p] # 0
  /\ kept[p] # 0 => exNumber[p] = kept[p]
  /\ ~RenameEnabled => phase[p] = "same" /\ exNumber[p] = 0 /\ tried[p] \subseteq {0}
  /\ Trying(p) /\ phase[p] = "same" => tried[p] \subseteq {0}
  /\ Trying(p) /\ phase[p] = "rename" =>
       /\ attempt[p] < MaxRenameRetries
       /\ 0 \in tried[p]
       /\ \A n \in 1 .. MaxExSequence : n \in tried[p] <=> StepsSince(p, n) <= attempt[p]

NamingInv == \A p \in Proxies : NamingInvAt(p)

(* Nothing of the names of q changes.                                      *)
NamesUntouched(q) ==
  /\ phase'[q] = phase[q]
  /\ attempt'[q] = attempt[q]
  /\ exNumber'[q] = exNumber[q]
  /\ tried'[q] = tried[q]
  /\ kept'[q] = kept[q]

LEMMA NamingFrame ==
  ASSUME NEW q \in Proxies, NamingInvAt(q), NamesUntouched(q), Trying(q)' => Trying(q)
  PROVE  NamingInvAt(q)'
BY DEF NamingInvAt, NamesUntouched, StepsSince

(* A step of p leaves the names of the other proxies alone.                *)
LEMMA NamingOfOthers ==
  ASSUME NEW p \in Proxies, NamingInv, NamingInvAt(p)',
         \A q \in Proxies \ {p} : NamesUntouched(q) /\ pc'[q] = pc[q]
  PROVE  NamingInv'
BY NamingFrame DEF NamingInv, Trying

(* One step of the sequence: the name refused last is one step away, and   *)
(* each other name is one step further away than it was.                   *)
LEMMA SequenceSteps ==
  ASSUME NEW e \in 1 .. MaxExSequence, NEW n \in 1 .. MaxExSequence, NEW a \in Nat,
         MaxExSequence \in Nat
  PROVE  LET before == IF n < e THEN e - n ELSE e - n + MaxExSequence
             after  == IF n < NextEx(e) THEN NextEx(e) - n
                                        ELSE NextEx(e) - n + MaxExSequence
         IN  /\ NextEx(e) \in 1 .. MaxExSequence
             /\ n = e => after = 1
             /\ n # e => after = before + 1
             /\ n = e <=> before = MaxExSequence
             /\ before \in 1 .. MaxExSequence
BY DEF NextEx
LEMMA NamingUntouched ==
  ASSUME NamingInv, \A q \in Proxies : NamesUntouched(q) /\ (Trying(q)' => Trying(q))
  PROVE  NamingInv'
BY NamingFrame DEF NamingInv

(* The names refused in a rename phase are those its task has left behind  *)
(* (NamingInv).                                                            *)
THEOREM NamingInvariant == Spec => []NamingInv
<1>1. Init => NamingInv
  BY DEF Init, NamingInv, NamingInvAt, Trying
<1>2. TypeOK /\ NamingInv /\ [Next]_vars => NamingInv'
  <2> SUFFICES ASSUME TypeOK, NamingInv, [Next]_vars PROVE NamingInv'
    OBVIOUS
  <2> USE DEF TypeOK
  <2>1. ASSUME NEW p \in Proxies, LoopEnds(p) PROVE NamingInv'
    BY <2>1, NamingUntouched DEF LoopEnds, NamesUntouched, Trying, naming
  <2>2. ASSUME NEW p \in Proxies, StartRefused(p) PROVE NamingInv'
    BY <2>2, NamingUntouched DEF StartRefused, NamesUntouched, Trying, naming
  <2>3. ASSUME NEW p \in Proxies, StartBuildsTunnel(p) PROVE NamingInv'
    BY <2>3, NamingUntouched DEF StartBuildsTunnel, NamesUntouched, Trying, naming
  <2>4. ASSUME NEW p \in Proxies, StartInsertsTunnel(p) PROVE NamingInv'
    BY <2>4, NamingUntouched DEF StartInsertsTunnel, NamesUntouched, Trying, naming
  <2>5. ASSUME NEW p \in Proxies, TunnelStep(p) PROVE NamingInv'
    BY <2>5, NamingUntouched DEF TunnelStep, NamesUntouched, Trying, naming
  <2>6. ASSUME NEW p \in Proxies, HandleCanceled(p) PROVE NamingInv'
    BY <2>6, NamingUntouched DEF HandleCanceled, NamesUntouched, Trying, naming, AttemptEnds
  <2>7. ASSUME NEW p \in Proxies, HandleOther(p) PROVE NamingInv'
    BY <2>7, NamingUntouched DEF HandleOther, NamesUntouched, Trying, naming, AttemptEnds
  <2>8. ASSUME NEW p \in Proxies, WaitCancelled(p) PROVE NamingInv'
    BY <2>8, NamingUntouched DEF WaitCancelled, NamesUntouched, Trying, naming
  <2>9. ASSUME NEW p \in Proxies, ConflictWaitElapses(p) PROVE NamingInv'
    BY <2>9, NamingUntouched DEF ConflictWaitElapses, NamesUntouched, Trying, naming
  <2>10. ASSUME NEW p \in Proxies, BackoffElapses(p) PROVE NamingInv'
    BY <2>10, NamingUntouched DEF BackoffElapses, NamesUntouched, Trying, naming
  <2>11. ASSUME NEW p \in Proxies, Panic(p) PROVE NamingInv'
    BY <2>11, NamingUntouched DEF Panic, NamesUntouched, Trying, naming
  <2>12. ASSUME NEW p \in Proxies, JoinTask(p) PROVE NamingInv'
    BY <2>12, NamingUntouched DEF JoinTask, NamesUntouched, Trying, naming
  <2>13. ASSUME NEW p \in Proxies, JoinPanicked(p) PROVE NamingInv'
    BY <2>13, NamingUntouched DEF JoinPanicked, NamesUntouched, Trying, naming
  <2>14. CASE JoinSweep
    BY <2>14, NamingUntouched DEF JoinSweep, NamesUntouched, Trying, naming
  <2>15. CASE JoinReturns
    BY <2>15, NamingUntouched DEF JoinReturns, NamesUntouched, Trying, naming
  <2>16. CASE MainSignal
    BY <2>16, NamingUntouched DEF MainSignal, NamesUntouched, Trying, naming
  <2>17. CASE MainSweep
    BY <2>17, NamingUntouched DEF MainSweep, NamesUntouched, Trying, naming
  <2>18. CASE MainExit
    BY <2>18, NamingUntouched DEF MainExit, NamesUntouched, Trying, naming
  <2>19. CASE UNCHANGED vars
    BY <2>19, NamingUntouched DEF vars, NamesUntouched, Trying, naming
  <2>20. ASSUME NEW p \in Proxies, CycleBegins(p) PROVE NamingInv'
    <3>1. \A q \in Proxies \ {p} : NamesUntouched(q) /\ pc'[q] = pc[q]
      BY <2>20 DEF CycleBegins, NamesUntouched
    <3>2. NamingInvAt(p)'
      BY <2>20 DEF CycleBegins, NamingInv, NamingInvAt, Trying
    <3> QED
      BY <3>1, <3>2, NamingOfOthers
  <2>21. ASSUME NEW p \in Proxies, HandleClosed(p) PROVE NamingInv'
    <3>1. \A q \in Proxies \ {p} : NamesUntouched(q) /\ pc'[q] = pc[q]
      BY <2>21 DEF HandleClosed, NamesUntouched
    <3>2. NamingInvAt(p)'
      BY <2>21 DEF HandleClosed, NamingInv, NamingInvAt, Trying
    <3> QED
      BY <3>1, <3>2, NamingOfOthers
  <2>22. ASSUME NEW p \in Proxies, HandleConflictRenameOff(p) PROVE NamingInv'
    <3>1. \A q \in Proxies \ {p} : NamesUntouched(q) /\ pc'[q] = pc[q]
      BY <2>22 DEF HandleConflictRenameOff, NamesUntouched
    <3>2. NamingInvAt(p)'
      BY <2>22 DEF HandleConflictRenameOff, NamingInv, NamingInvAt, Trying, Wanted
    <3> QED
      BY <3>1, <3>2, NamingOfOthers
  <2>23. ASSUME NEW p \in Proxies, HandleConflictRetrySame(p) PROVE NamingInv'
    <3>1. \A q \in Proxies \ {p} : NamesUntouched(q) /\ pc'[q] = pc[q]
      BY <2>23 DEF HandleConflictRetrySame, NamesUntouched
    <3>2. NamingInvAt(p)'
      BY <2>23 DEF HandleConflictRetrySame, AttemptEnds, NamingInv, NamingInvAt, Trying, Wanted
    <3> QED
      BY <3>1, <3>2, NamingOfOthers
  <2>24. ASSUME NEW p \in Proxies, HandleConflictStartRename(p) PROVE NamingInv'
    <3>1. \A q \in Proxies \ {p} : NamesUntouched(q) /\ pc'[q] = pc[q]
      BY <2>24 DEF HandleConflictStartRename, NamesUntouched
    <3>2. NamingInvAt(p)'
      <4> USE <2>24 DEF HandleConflictStartRename, AttemptEnds
      <4>1. /\ tried'[p] = {0}
            /\ exNumber'[p] \in 1 .. MaxExSequence
            /\ kept'[p] # 0 => exNumber'[p] = kept'[p]
        BY RetryAssumption DEF RetryAssumption, NamingInv, NamingInvAt, Trying, Wanted, Names
      <4>2. CASE MaxRenameRetries > 0
        <5>1. attempt'[p] = 0 /\ phase'[p] = "rename"
          BY <4>2
        <5>2. \A n \in 1 .. MaxExSequence :
                n \notin tried'[p] /\ ~(StepsSince(p, n)' <= attempt'[p])
          <6> SUFFICES ASSUME NEW n \in 1 .. MaxExSequence
                       PROVE  n \notin tried'[p] /\ ~(StepsSince(p, n)' <= attempt'[p])
            OBVIOUS
          <6>1. StepsSince(p, n)' \in 1 .. MaxExSequence
            BY <4>1, RetryAssumption DEF RetryAssumption, StepsSince
          <6> QED
            BY <4>1, <5>1, <6>1
        <5> QED
          BY <4>1, <4>2, <5>1, <5>2 DEF NamingInvAt
      <4>3. CASE ~(MaxRenameRetries > 0)
        BY <4>1, <4>3 DEF NamingInvAt, Trying
      <4> QED
        BY <4>2, <4>3
    <3> QED
      BY <3>1, <3>2, NamingOfOthers
  <2>25. ASSUME NEW p \in Proxies, HandleConflictRenamed(p) PROVE NamingInv'
    <3>1. \A q \in Proxies \ {p} : NamesUntouched(q) /\ pc'[q] = pc[q]
      BY <2>25 DEF HandleConflictRenamed, NamesUntouched
    <3>2. NamingInvAt(p)'
      <4> USE <2>25 DEF HandleConflictRenamed, AttemptEnds
      <4>1. /\ phase[p] = "rename" /\ Trying(p)
            /\ exNumber[p] \in 1 .. MaxExSequence
            /\ RenameEnabled /\ kept'[p] = 0
        BY SwitchAssumption DEF SwitchAssumption, NamingInv, NamingInvAt, Trying, Names
      <4>2. tried'[p] = tried[p] \cup {exNumber[p]} /\ exNumber'[p] = NextEx(exNumber[p])
        BY <4>1 DEF Wanted
      <4>3. exNumber'[p] \in 1 .. MaxExSequence /\ MaxExSequence \in Nat
        BY <4>1, <4>2, RetryAssumption DEF RetryAssumption, NextEx
      <4>4. CASE attempt[p] + 1 < MaxRenameRetries
        <5>1. attempt'[p] = attempt[p] + 1 /\ phase'[p] = "rename"
          BY <4>4
        <5>2. \A n \in 1 .. MaxExSequence : n \in tried'[p] <=> StepsSince(p, n)' <= attempt'[p]
          <6> SUFFICES ASSUME NEW n \in 1 .. MaxExSequence
                       PROVE  n \in tried'[p] <=> StepsSince(p, n)' <= attempt'[p]
            OBVIOUS
          <6>1. n \in tried[p] <=> StepsSince(p, n) <= attempt[p]
            BY <4>1 DEF NamingInv, NamingInvAt
          <6>2. /\ n = exNumber[p] => StepsSince(p, n)' = 1
                /\ n # exNumber[p] => StepsSince(p, n)' = StepsSince(p, n) + 1
                /\ StepsSince(p, n) \in 1 .. MaxExSequence
            BY <4>1, <4>2, <4>3, SequenceSteps DEF StepsSince
          <6> QED
            BY <6>1, <6>2, <5>1, <4>2
        <5>3. 0 \in tried'[p]
          BY <4>1, <4>2 DEF NamingInv, NamingInvAt
        <5> QED
          BY <4>1, <4>3, <4>4, <5>1, <5>2, <5>3 DEF NamingInvAt
      <4>5. CASE ~(attempt[p] + 1 < MaxRenameRetries)
        BY <4>1, <4>3, <4>5 DEF NamingInvAt, Trying
      <4> QED
        BY <4>4, <4>5
    <3> QED
      BY <3>1, <3>2, NamingOfOthers
  <2> QED
    BY <2>1, <2>2, <2>3, <2>4, <2>5, <2>6, <2>7, <2>8, <2>9, <2>10, <2>11, <2>12, <2>13, <2>14, <2>15, <2>16, <2>17, <2>18, <2>19, <2>20, <2>21, <2>22, <2>23, <2>24, <2>25
       DEF Next, TaskStep, HandleResult, Joins, Exited
<1> QED
  BY <1>1, <1>2, TypeCorrect, PTL DEF Spec
(* A renamed proxy was refused its configured name in this very cycle.     *)
THEOREM RenameNeedsConflict == Spec => []RenamesOnlyAfterConflict
<1>1. NamingInv => RenamesOnlyAfterConflict
  BY DEF NamingInv, NamingInvAt, RenamesOnlyAfterConflict
<1> QED
  BY <1>1, NamingInvariant, PTL

(* No candidate is tried twice in a cycle.                                 *)
THEOREM NoCandidateTwice == Spec => []CandidatesAreFresh
<1>1. TypeOK /\ NamingInv => CandidatesAreFresh
  <2> SUFFICES ASSUME TypeOK, NamingInv, MaxRenameRetries <= MaxExSequence,
                      NEW p \in Proxies, phase[p] = "rename", Trying(p)
               PROVE  exNumber[p] \notin tried[p]
    BY DEF CandidatesAreFresh
  <2>1. exNumber[p] \in 1 .. MaxExSequence /\ attempt[p] \in Nat
    BY RetryAssumption DEF RetryAssumption, TypeOK, Names, NamingInv, NamingInvAt
  <2>2. attempt[p] < MaxRenameRetries
    BY DEF NamingInv, NamingInvAt
  <2>3. ~(StepsSince(p, exNumber[p]) <= attempt[p])
    BY <2>1, <2>2, RetryAssumption DEF RetryAssumption, StepsSince
  <2> QED
    BY <2>1, <2>3 DEF NamingInv, NamingInvAt
<1> QED
  BY <1>1, TypeCorrect, NamingInvariant, PTL

(* An ex_N_ name that worked stays the proxy's until frps refuses it.      *)
THEOREM StickyName == Spec => []WorkingNameIsKept
<1>1. NamingInv => WorkingNameIsKept
  BY DEF NamingInv, NamingInvAt, WorkingNameIsKept
<1> QED
  BY <1>1, NamingInvariant, PTL

(* With renaming off the configured name is the only one ever used.        *)
THEOREM RenameOffKeepsName == Spec => []NeverRenamesWhenOff
<1>1. NamingInv => NeverRenamesWhenOff
  BY DEF NamingInv, NamingInvAt, NeverRenamesWhenOff
<1> QED
  BY <1>1, NamingInvariant, PTL

-----------------------------------------------------------------------------
(* Steps: giving up, and the backoff *)

(* Of all steps, only a conflict handler takes a refused tunnel to the     *)
(* backoff.                                                                *)
LEMMA ConflictSteps ==
  ASSUME TypeOK, [Next]_vars, NEW p \in Proxies,
         pc[p] = "tunnel", tunnel[p] = "ProxyConflict", pc'[p] = "backoffWait"
  PROVE  \/ HandleConflictRenameOff(p)
         \/ HandleConflictStartRename(p)
         \/ HandleConflictRenamed(p)
<1> USE DEF TypeOK
<1>1. CASE pc' = pc
  BY <1>1
<1>2. ASSUME NEW q \in Proxies, TaskStep(q), q # p
      PROVE  pc'[p] = pc[p]
  BY <1>2 DEF TaskStep, HandleResult, LoopEnds, CycleBegins, StartRefused,
       StartBuildsTunnel, StartInsertsTunnel, HandleClosed, HandleCanceled, HandleOther,
       HandleConflictRenameOff, HandleConflictRetrySame, HandleConflictStartRename,
       HandleConflictRenamed, WaitCancelled, ConflictWaitElapses, BackoffElapses
<1>3. CASE TaskStep(p)
  BY <1>3 DEF TaskStep, HandleResult, LoopEnds, CycleBegins, StartRefused,
       StartBuildsTunnel, StartInsertsTunnel, HandleClosed, HandleCanceled, HandleOther,
       HandleConflictRetrySame, WaitCancelled, ConflictWaitElapses, BackoffElapses,
       AttemptEnds
<1>4. ASSUME NEW q \in Proxies, Panic(q) PROVE FALSE
  BY <1>4 DEF Panic
<1>5. ASSUME NEW q \in Proxies, TunnelStep(q) \/ JoinTask(q) \/ JoinPanicked(q)
      PROVE  pc' = pc
  BY <1>5 DEF TunnelStep, JoinTask, JoinPanicked
<1>6. CASE JoinSweep \/ JoinReturns \/ MainSignal \/ MainSweep \/ MainExit \/ UNCHANGED vars
  BY <1>6 DEF JoinSweep, JoinReturns, MainSignal, MainSweep, MainExit, vars
<1> QED
  BY <1>1, <1>2, <1>3, <1>4, <1>5, <1>6 DEF Next, Joins, Exited

(* A cycle reports the conflict only when every name was refused in it.    *)
THEOREM GivesUpLast == Spec => GivesUpOnlyAfterEveryName
<1>1. TypeOK /\ NamingInv /\ [Next]_vars =>
        [RenameEnabled /\ MaxRenameRetries >= MaxExSequence =>
           \A p \in Proxies :
             tunnel[p] = "ProxyConflict" /\ pc[p] = "tunnel" /\ pc'[p] = "backoffWait"
               => tried'[p] = Names]_vars
  <2> SUFFICES ASSUME TypeOK, NamingInv, [Next]_vars,
                      RenameEnabled, MaxRenameRetries >= MaxExSequence, NEW p \in Proxies,
                      tunnel[p] = "ProxyConflict", pc[p] = "tunnel",
                      pc'[p] = "backoffWait"
               PROVE  tried'[p] = Names
    OBVIOUS
  <2>1. ~HandleConflictRenameOff(p) /\ ~HandleConflictStartRename(p)
    BY RetryAssumption
       DEF RetryAssumption, HandleConflictRenameOff, HandleConflictStartRename, TypeOK
  <2>2. HandleConflictRenamed(p)
    BY <2>1, ConflictSteps
  <2>3. /\ phase[p] = "rename" /\ Trying(p)
        /\ exNumber[p] \in 1 .. MaxExSequence
        /\ tried'[p] = tried[p] \cup {exNumber[p]}
        /\ attempt[p] + 1 >= MaxRenameRetries
    BY <2>2, RetryAssumption DEF RetryAssumption, HandleConflictRenamed, AttemptEnds,
       TypeOK, NamingInv, NamingInvAt, Trying, Wanted, Names
  <2>4. ASSUME NEW n \in 1 .. MaxExSequence, n # exNumber[p] PROVE n \in tried[p]
    <3>1. StepsSince(p, n) <= attempt[p]
      BY <2>3, <2>4, RetryAssumption DEF RetryAssumption, StepsSince, TypeOK
    <3> QED
      BY <3>1, <2>3 DEF NamingInv, NamingInvAt
  <2>5. 0 \in tried[p] /\ tried[p] \subseteq Names
    BY <2>3 DEF NamingInv, NamingInvAt, TypeOK
  <2>6. Names = {0} \cup (1 .. MaxExSequence)
    BY RetryAssumption DEF RetryAssumption, Names
  <2> QED
    BY <2>3, <2>4, <2>5, <2>6
<1> QED
  BY <1>1, TypeCorrect, NamingInvariant, PTL DEF Spec, GivesUpOnlyAfterEveryName

(* Of all steps, only these two change the backoff of a proxy.             *)
LEMMA BackoffSteps ==
  ASSUME TypeOK, [Next]_vars, NEW p \in Proxies, backoff'[p] # backoff[p]
  PROVE  HandleClosed(p) \/ BackoffElapses(p)
<1> USE DEF TypeOK
<1>1. ASSUME NEW q \in Proxies, HandleClosed(q) \/ BackoffElapses(q)
      PROVE  q = p
  BY <1>1 DEF HandleClosed, BackoffElapses
<1>2. ASSUME NEW q \in Proxies, TaskStep(q), ~HandleClosed(q), ~BackoffElapses(q)
      PROVE  backoff' = backoff
  BY <1>2 DEF TaskStep, HandleResult, LoopEnds, CycleBegins, StartRefused,
       StartBuildsTunnel, StartInsertsTunnel, HandleCanceled, HandleOther,
       HandleConflictRenameOff, HandleConflictRetrySame, HandleConflictStartRename,
       HandleConflictRenamed, WaitCancelled, ConflictWaitElapses, pacing
<1>3. ASSUME NEW q \in Proxies,
             TunnelStep(q) \/ Panic(q) \/ JoinTask(q) \/ JoinPanicked(q)
      PROVE  backoff' = backoff
  BY <1>3 DEF TunnelStep, Panic, JoinTask, JoinPanicked, pacing
<1>4. CASE JoinSweep \/ JoinReturns \/ MainSignal \/ MainSweep \/ MainExit \/ UNCHANGED vars
  BY <1>4 DEF JoinSweep, JoinReturns, MainSignal, MainSweep, MainExit, vars, pacing
<1> QED
  BY <1>1, <1>2, <1>3, <1>4 DEF Next, Joins, Exited

(* Failing attempts never shorten the delay before the next one.           *)
THEOREM BackoffDiscipline == Spec => BackoffShrinksOnlyAfterClosed
<1>1. TypeOK /\ [Next]_vars =>
        [\A p \in Proxies :
           backoff'[p] < backoff[p] => pc[p] = "tunnel" /\ tunnel[p] = "Closed"]_vars
  <2> SUFFICES ASSUME TypeOK, [Next]_vars, NEW p \in Proxies, backoff'[p] < backoff[p]
               PROVE  pc[p] = "tunnel" /\ tunnel[p] = "Closed"
    OBVIOUS
  <2>1. backoff[p] \in ReconnectBaseDelay .. ReconnectMaxDelay
    BY DEF TypeOK
  <2>2. CASE HandleClosed(p)
    BY <2>2 DEF HandleClosed, AttemptEnds
  <2>3. CASE BackoffElapses(p)
    BY <2>1, <2>3, RetryAssumption DEF RetryAssumption, BackoffElapses, Doubled, TypeOK
  <2>4. backoff'[p] # backoff[p]
    BY <2>1, RetryAssumption DEF RetryAssumption
  <2> QED
    BY <2>2, <2>3, <2>4, BackoffSteps
<1> QED
  BY <1>1, TypeCorrect, PTL DEF Spec, BackoffShrinksOnlyAfterClosed

-----------------------------------------------------------------------------
(* The tunnels of the proxies *)

(* A task that does not drive a tunnel has a fresh one, or none.           *)
FreshInv ==
  \A p \in Proxies :
    pc[p] \notin {"tunnel", "panicked"} => tunnel[p] = "idle" /\ ~cancelled[p]

(* What one step may do to the tunnel of p.                                *)
TunnelStepOf(p) == [TunnelOf(p)!Next \/ StartsAfresh(p)]_(TunnelOf(p)!vars)

(* A step that leaves the tunnels alone, or ends an attempt of p.          *)
LEMMA TunnelsUntouched ==
  ASSUME UNCHANGED <<tunnel, cancelled>>
  PROVE  \A q \in Proxies : TunnelStepOf(q)
BY DEF TunnelStepOf, TunnelOf!vars

LEMMA AttemptEndsAfresh ==
  ASSUME TypeOK, NEW p \in Proxies, NEW r \in Final, AttemptEnds(p, r)
  PROVE  \A q \in Proxies : TunnelStepOf(q)
<1> SUFFICES ASSUME NEW q \in Proxies PROVE TunnelStepOf(q)
  OBVIOUS
<1>1. CASE q = p
  BY <1>1 DEF AttemptEnds, TypeOK, TunnelStepOf, StartsAfresh
<1>2. CASE q # p
  BY <1>2 DEF AttemptEnds, TypeOK, TunnelStepOf, TunnelOf!vars
<1> QED
  BY <1>1, <1>2

(* A sweep cancels tunnels that run, and those a panic left in the map.    *)
LEMMA SweepCancels ==
  ASSUME TypeOK, SweepActive, UNCHANGED tunnel
  PROVE  \A q \in Proxies : TunnelStepOf(q)
<1> SUFFICES ASSUME NEW q \in Proxies PROVE TunnelStepOf(q)
  OBVIOUS
<1>1. CASE q \in active
  BY <1>1 DEF SweepActive, TunnelStepOf, TunnelOf!Next, TunnelOf!Cancel
<1>2. CASE q \notin active
  BY <1>2 DEF SweepActive, TypeOK, TunnelStepOf, TunnelOf!vars
<1> QED
  BY <1>1, <1>2

(* The steps that neither begin, drive, end nor cancel an attempt.         *)
LEMMA StepsBesideTunnels ==
  ASSUME [Next]_vars
  PROVE  \/ UNCHANGED <<tunnel, cancelled>>
         \/ \E p \in Proxies : \/ StartBuildsTunnel(p) \/ TunnelStep(p)
                               \/ \E r \in Final : AttemptEnds(p, r)
         \/ SweepActive /\ UNCHANGED tunnel
<1>1. ASSUME NEW p \in Proxies, HandleResult(p)
      PROVE  \E r \in Final : AttemptEnds(p, r)
  BY <1>1 DEF HandleResult, HandleClosed, HandleCanceled, HandleOther,
     HandleConflictRenameOff, HandleConflictRetrySame, HandleConflictStartRename,
     HandleConflictRenamed, Final
<1>2. ASSUME NEW p \in Proxies, TaskStep(p), ~HandleResult(p), ~StartBuildsTunnel(p)
      PROVE  UNCHANGED <<tunnel, cancelled>>
  BY <1>2 DEF TaskStep, LoopEnds, CycleBegins, StartRefused, StartInsertsTunnel,
     WaitCancelled, ConflictWaitElapses, BackoffElapses, tunnels
<1>3. ASSUME NEW p \in Proxies, Panic(p) \/ JoinTask(p) \/ JoinPanicked(p)
      PROVE  UNCHANGED <<tunnel, cancelled>>
  BY <1>3 DEF Panic, JoinTask, JoinPanicked, tunnels
<1>4. CASE JoinReturns \/ MainSignal \/ MainExit \/ UNCHANGED vars
  BY <1>4 DEF JoinReturns, MainSignal, MainExit, vars, tunnels
<1>5. CASE JoinSweep \/ MainSweep
  BY <1>5 DEF JoinSweep, MainSweep
<1> QED
  BY <1>1, <1>2, <1>3, <1>4, <1>5 DEF Next, Joins, Exited

(* A task that is not at its tunnel has none, so that start() begins with  *)
(* a new one (FreshInv).                                                   *)
THEOREM FreshInvariant == Spec => []FreshInv
<1>1. Init => FreshInv
  BY DEF Init, FreshInv
<1>2. TypeOK /\ ShutdownInv /\ FreshInv /\ [Next]_vars => FreshInv'
  <2> SUFFICES ASSUME TypeOK, ShutdownInv, FreshInv, [Next]_vars PROVE FreshInv'
    OBVIOUS
  <2> USE DEF TypeOK, FreshInv
  <2>1. ASSUME NEW p \in Proxies, StartBuildsTunnel(p) PROVE FreshInv'
    BY <2>1 DEF StartBuildsTunnel
  <2>2. ASSUME NEW p \in Proxies, TunnelStep(p) PROVE FreshInv'
    BY <2>2 DEF TunnelStep
  <2>3. ASSUME NEW p \in Proxies, HandleResult(p) PROVE FreshInv'
    BY <2>3 DEF HandleResult, HandleClosed, HandleCanceled, HandleOther,
       HandleConflictRenameOff, HandleConflictRetrySame, HandleConflictStartRename,
       HandleConflictRenamed, AttemptEnds
  <2>4. ASSUME NEW p \in Proxies, TaskStep(p), ~HandleResult(p), ~StartBuildsTunnel(p)
        PROVE  FreshInv'
    BY <2>4 DEF TaskStep, LoopEnds, CycleBegins, StartRefused, StartInsertsTunnel,
       WaitCancelled, ConflictWaitElapses, BackoffElapses, tunnels
  <2>5. ASSUME NEW p \in Proxies, Panic(p) PROVE FreshInv'
    BY <2>5 DEF Panic, tunnels
  <2>6. ASSUME NEW p \in Proxies, JoinTask(p) \/ JoinPanicked(p) PROVE FreshInv'
    BY <2>6 DEF JoinTask, JoinPanicked, tunnels
  <2>7. CASE JoinSweep \/ MainSweep
    BY <2>7 DEF JoinSweep, MainSweep, SweepActive, ShutdownInv, ActiveIsWhatRuns
  <2>8. CASE JoinReturns \/ MainSignal \/ MainExit \/ UNCHANGED vars
    BY <2>8 DEF JoinReturns, MainSignal, MainExit, vars, tunnels
  <2> QED
    BY <2>1, <2>2, <2>3, <2>4, <2>5, <2>6, <2>7, <2>8 DEF Next, Joins, Exited
<1> QED
  BY <1>1, <1>2, TypeCorrect, ShutdownInvariant, PTL DEF Spec

(* The runner drives tunnels as Tunnel describes them, one at a time, and  *)
(* abandons none before its result.                                        *)
THEOREM AttemptsComplete == Spec => TunnelsRunToTheirEnd
<1>1. Init => \A p \in Proxies : TunnelOf(p)!Init
  BY DEF Init, TunnelOf!Init
<1>2. TypeOK /\ FreshInv /\ [Next]_vars => [\A p \in Proxies : TunnelStepOf(p)]_vars
  <2> SUFFICES ASSUME TypeOK, FreshInv, [Next]_vars
               PROVE  \A q \in Proxies : TunnelStepOf(q)
    OBVIOUS
  <2>1. ASSUME NEW p \in Proxies, StartBuildsTunnel(p)
        PROVE  UNCHANGED <<tunnel, cancelled>>
    BY <2>1 DEF StartBuildsTunnel, FreshInv, TypeOK
  <2>2. ASSUME NEW p \in Proxies, TunnelStep(p)
        PROVE  \A q \in Proxies : TunnelStepOf(q)
    <3>1. PICK s \in NextStatus(tunnel[p], cancelled[p]) :
            tunnel' = [tunnel EXCEPT ![p] = s] /\ cancelled' = cancelled
      BY <2>2 DEF TunnelStep
    <3>2. tunnel'[p] = s /\ \A q \in Proxies \ {p} : tunnel'[q] = tunnel[q]
      BY <3>1 DEF TypeOK
    <3>3. TunnelStepOf(p)
      BY <3>1, <3>2 DEF TunnelStepOf, TunnelOf!Next, TunnelOf!Step, TunnelOf!NextStatus,
         NextStatus, TunnelOf!Final, Final
    <3>4. \A q \in Proxies \ {p} : TunnelStepOf(q)
      BY <3>1, <3>2 DEF TunnelStepOf, TunnelOf!vars
    <3> QED
      BY <3>3, <3>4
  <2> QED
    BY <2>1, <2>2, StepsBesideTunnels, TunnelsUntouched, AttemptEndsAfresh, SweepCancels
<1> QED
  BY <1>1, <1>2, TypeCorrect, FreshInvariant, PTL
     DEF Spec, TunnelsRunToTheirEnd, TunnelStepOf
=============================================================================
