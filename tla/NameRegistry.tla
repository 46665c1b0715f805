---------------------------- MODULE NameRegistry ----------------------------
(***************************************************************************)
(* The retry loops of the gateway runner composed with the registry of     *)
(* frps they compete for. All proxies have one configured name: validate() *)
(* does not look for duplicates, and two devices with one file meet in the *)
(* same way. frps keeps a name while the session that registered it is up, *)
(* and for a while after its link was lost. Other clients hold names too.  *)
(*                                                                         *)
(* frps is external. Its decision falls when the exec request arrives,     *)
(* which is the step of the tunnel to "open"; the client learns of it      *)
(* later, or never. The runner's actions are GatewayRunner's, unchanged;   *)
(* no signal arrives here and no task panics.                              *)
(***************************************************************************)
EXTENDS GatewayRunner

CONSTANTS
  Foreign,     \* the names other clients may hold
  MaxTroubles  \* bound: lost links and failed set-ups

ASSUME RegistryAssumption == Foreign \subseteq Names /\ MaxTroubles \in Nat

NoName == -1

VARIABLES
  registered,  \* the name under which frps registered the session of a proxy
  ghosts,      \* names of lost sessions that frps still holds
  foreign,     \* names that other clients hold
  troubles,    \* how many troubles there were
  last,        \* history: the name of the last registration of a proxy
  refused      \* history: the names refused to a proxy since then

registry == <<registered, ghosts, foreign, last, refused>>
allVars  == <<vars, registry, troubles>>

(* "proxy [x] already exists": frps holds the name for someone.            *)
Taken == ghosts \cup foreign \cup {registered[q] : q \in Proxies}

Troubled == troubles < MaxTroubles /\ troubles' = troubles + 1

RegistryInit ==
  /\ Init
  /\ registered = [p \in Proxies |-> NoName]
  /\ ghosts = {}
  /\ foreign \in SUBSET Foreign
  /\ troubles = 0
  /\ last = [p \in Proxies |-> NoName]
  /\ refused = [p \in Proxies |-> {}]

-----------------------------------------------------------------------------
(* A tunnel, one stage at a time, and what frps makes of it *)

TunnelReaches(p, s) == TunnelStep(p) /\ tunnel'[p] = s

Connects(p) ==
  /\ TunnelReaches(p, "setup")
  /\ UNCHANGED <<registry, troubles>>

SetupFails(p) ==
  /\ tunnel[p] = "setup"
  /\ TunnelReaches(p, "Other")
  /\ Troubled
  /\ UNCHANGED registry

(* The name is free: it is registered for this session.                    *)
Registers(p) ==
  /\ TunnelReaches(p, "open")
  /\ Wanted(p) \notin Taken
  /\ registered' = [registered EXCEPT ![p] = Wanted(p)]
  /\ last' = [last EXCEPT ![p] = Wanted(p)]
  /\ refused' = [refused EXCEPT ![p] = {}]
  /\ UNCHANGED <<ghosts, foreign, troubles>>

(* It is taken, perhaps by this proxy's own last session.                  *)
Refuses(p) ==
  /\ TunnelReaches(p, "open")
  /\ Wanted(p) \in Taken
  /\ refused' = [refused EXCEPT ![p] = @ \cup {Wanted(p)}]
  /\ UNCHANGED <<registered, ghosts, foreign, last, troubles>>

(* The refusal reaches the client, and frps closes the session.            *)
RefusalArrives(p) ==
  /\ tunnel[p] = "open"
  /\ registered[p] = NoName
  /\ TunnelReaches(p, "ProxyConflict")
  /\ UNCHANGED <<registry, troubles>>

(* frps ends a registered session, and frees its name.                     *)
FrpsCloses(p) ==
  /\ tunnel[p] = "open"
  /\ registered[p] # NoName
  /\ TunnelReaches(p, "Closed")
  /\ registered' = [registered EXCEPT ![p] = NoName]
  /\ UNCHANGED <<ghosts, foreign, last, refused, troubles>>

(* The link is lost. The client reports Closed if it had read the banner   *)
(* of a registered session, and Other if it had read nothing; frps goes on *)
(* holding the name.                                                       *)
LinkLost(p) ==
  /\ tunnel[p] = "open"
  /\ \/ TunnelReaches(p, "Other")
     \/ TunnelReaches(p, "Closed") /\ registered[p] # NoName
  /\ Troubled
  /\ ghosts' = ghosts \cup ({registered[p]} \ {NoName})
  /\ registered' = [registered EXCEPT ![p] = NoName]
  /\ UNCHANGED <<foreign, last, refused>>

-----------------------------------------------------------------------------
(* frps and the other clients *)

GhostExpires(n) ==
  /\ n \in ghosts
  /\ ghosts' = ghosts \ {n}
  /\ UNCHANGED <<vars, registered, foreign, last, refused, troubles>>

ForeignLeaves(n) ==
  /\ n \in foreign
  /\ foreign' = foreign \ {n}
  /\ UNCHANGED <<vars, registered, ghosts, last, refused, troubles>>

ForeignTakes(n) ==
  /\ n \in Foreign \ Taken
  /\ foreign' = foreign \cup {n}
  /\ UNCHANGED <<vars, registered, ghosts, last, refused, troubles>>

(* The runner, which sees nothing of the registry.                         *)
RunnerStep(p) == TaskStep(p) /\ UNCHANGED <<registry, troubles>>

(* What a tunnel and frps owe each other while both are reachable.         *)
Attempt(p) == Connects(p) \/ Registers(p) \/ Refuses(p) \/ RefusalArrives(p)

RegistryNext ==
  \/ \E p \in Proxies : \/ RunnerStep(p)
                        \/ Attempt(p)
                        \/ SetupFails(p) \/ FrpsCloses(p) \/ LinkLost(p)
  \/ \E n \in Names : GhostExpires(n) \/ ForeignLeaves(n) \/ ForeignTakes(n)

(* The tasks are polled, their waits end, the attempts and the verdicts    *)
(* that nothing disturbs arrive, and frps finds out about a lost link.     *)
(* Nobody else ever has to leave, and no session has to end.               *)
RegistryFairness ==
  /\ \A p \in Proxies : WF_allVars(RunnerStep(p)) /\ WF_allVars(Attempt(p))
  /\ \A n \in Names : WF_allVars(GhostExpires(n))

RegistrySpec == RegistryInit /\ [][RegistryNext]_allVars /\ RegistryFairness

-----------------------------------------------------------------------------
(* Properties *)

(* Types of the registry's variables, and the agreement of both sides: a   *)
(* name is registered for no one but a running tunnel that asked for it.   *)
RegistryTypeOK ==
  /\ registered \in [Proxies -> Names \cup {NoName}]
  /\ ghosts \subseteq Names
  /\ foreign \subseteq Foreign
  /\ last \in [Proxies -> Names \cup {NoName}]
  /\ refused \in [Proxies -> SUBSET Names]
  /\ \A p \in Proxies :
       registered[p] # NoName => tunnel[p] = "open" /\ registered[p] = Wanted(p)

(* Whatever was lost, refused or taken, no proxy stays without a name for  *)
(* good: with as many names as there are claims, each comes back.          *)
EveryProxyComesBack == \A p \in Proxies : []<>(registered[p] # NoName)

(* "every cycle probes the original name first, so the original identity   *)
(* is restored as soon as the conflict clears" (README): once no one else  *)
(* holds the configured name, a proxy whose sessions keep ending gets it   *)
(* back. (A renamed session that stays up is not interrupted for it.)      *)
ConfiguredNameReturns ==
  \A p \in Proxies :
    (/\ <>[](0 \notin ghosts \cup foreign \cup {registered[q] : q \in Proxies \ {p}})
     /\ []<>(registered[p] = NoName))
      => []<>(registered[p] = 0)

(* The public address of a proxy changes for one reason only, apart from   *)
(* the return to the configured name: since it was last registered, frps   *)
(* refused it both that name and the configured one ("the public address   *)
(* stays stable", run_proxy). No lost link alone moves a proxy.            *)
AddressChangesOnlyOnConflict ==
  [][\A p \in Proxies :
       last'[p] \notin {last[p], 0} => {0, last[p]} \ {NoName} \subseteq refused[p]]_allVars
=============================================================================
