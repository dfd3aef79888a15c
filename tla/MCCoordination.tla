--------------------------- MODULE MCCoordination ---------------------------
(***************************************************************************)
(* Instances for TLC of the components that must go on for ever: leader    *)
(* election, the election and the replication of global control, the edge  *)
(* runtime, the regions, the gateway and the agents of the clusters.  They *)
(* share no state in the code; one run checks them all, each from its own  *)
(* initial state: a behaviour is one of the component that runs.           *)
(***************************************************************************)
EXTENDS Leadership, GlobalElection, StateReplication, EdgeRuntime, Regions, Gateway,
        ClusterAgent

VARIABLE part  \* the component that runs

Component == {"leader", "election", "replication", "edge", "regions", "gateway", "agents"}

\* The result that the edge stores under each key: the third replaces the first.
MCKeyOf == <<1, 2, 1>>
MCRegionOrder == <<1, 2>>
MCFailoverTo == <<2, 1>>

Init ==
    /\ part \in Component
    /\ LdInit /\ (part = "leader" \/ mode = "single")
    /\ SrInit /\ (part = "replication" \/ onSync)
    /\ EdInit /\ (part = "edge" \/ callback)
    /\ GeInit /\ RgInit /\ GwInit /\ CgInit

Next ==
    /\ UNCHANGED part
    /\ \/ /\ part = "leader" /\ LdNext
          /\ UNCHANGED <<geVars, srVars, edVars, rgVars, gwVars, caVars>>
       \/ /\ part = "election" /\ GeNext
          /\ UNCHANGED <<ldVars, srVars, edVars, rgVars, gwVars, caVars>>
       \/ /\ part = "replication" /\ SrNext
          /\ UNCHANGED <<ldVars, geVars, edVars, rgVars, gwVars, caVars>>
       \/ /\ part = "edge" /\ EdNext
          /\ UNCHANGED <<ldVars, geVars, srVars, rgVars, gwVars, caVars>>
       \/ /\ part = "regions" /\ RgNext
          /\ UNCHANGED <<ldVars, geVars, srVars, edVars, gwVars, caVars>>
       \/ /\ part = "gateway" /\ GwNext
          /\ UNCHANGED <<ldVars, geVars, srVars, edVars, rgVars, caVars>>
       \/ /\ part = "agents" /\ CgNext
          /\ UNCHANGED <<ldVars, geVars, srVars, edVars, rgVars, gwVars>>

vars == <<part, ldVars, geVars, srVars, edVars, rgVars, gwVars, caVars>>

\* The fairness of each component, while it runs.
Fairness ==
    /\ \A p \in Plane : /\ WF_ldVars(part = "leader" /\ Build(p))
                        /\ WF_ldVars(part = "leader" /\ LdThread(p))
    /\ WF_ldVars(part = "leader" /\ ServerNotices)
    /\ WF_ldVars(part = "leader" /\ RaftElects)
    /\ \A n \in GNode : /\ WF_geVars(part = "election" /\ StartNode(n))
                        /\ WF_geVars(part = "election" /\ Promote(n))
                        /\ WF_geVars(part = "election" /\ Renew(n))
    /\ WF_geVars(part = "election" /\ TimePasses)
    /\ WF_srVars(part = "replication" /\ Replicator)
    /\ WF_srVars(part = "replication" /\ EnqueueChange)
    /\ WF_edVars(part = "edge" /\ StartSync) /\ WF_edVars(part = "edge" /\ SyncEnds)
    /\ WF_edVars(part = "edge" /\ SetConnected(TRUE))
    /\ WF_edVars(part = "edge" /\ ReadOutbox)
    /\ WF_edVars(part = "edge" /\ HandOver) /\ WF_edVars(part = "edge" /\ MarkSynced)
    /\ \A w \in Writer : WF_rgVars(part = "regions" /\ WriteRow(w))
    /\ WF_rgVars(part = "regions" /\ ListRegions("health"))
    /\ WF_rgVars(part = "regions" /\ HealthChecks)
    /\ \A c \in Caller : /\ WF_gwVars(part = "gateway" /\ IncrConcurrency(c))
                         /\ WF_gwVars(part = "gateway" /\ Answer(c))
                         /\ WF_gwVars(part = "gateway" /\ Consume(c))
                         /\ WF_gwVars(part = "gateway" /\ DecrReads(c))
                         /\ WF_gwVars(part = "gateway" /\ DecrConcurrency(c))
    /\ WF_gwVars(part = "gateway" /\ inflight >= FlightLimit /\ KeyExpires)
    /\ \A m \in Member_ : /\ WF_caVars(part = "agents" /\ Registers(m))
                          /\ WF_caVars(part = "agents" /\ Beats(m))
                          /\ WF_caVars(part = "agents" /\ SweepWrites(m))
    /\ WF_caVars(part = "agents" /\ BackAgain)

Spec == Init /\ [][Next]_vars /\ Fairness

-----------------------------------------------------------------------------
(* Properties: those of the components, where several are one question. *)

\* Every component's state stays in its type.
CoordinationTypeOK ==
    CASE part = "leader"      -> LeadershipTypeOK
      [] part = "election"    -> GlobalElectionTypeOK
      [] part = "replication" -> StateReplicationTypeOK
      [] part = "edge"        -> EdgeRuntimeTypeOK
      [] part = "regions"     -> RegionsTypeOK
      [] part = "gateway"     -> GatewayTypeOK
      [] part = "agents"      -> ClusterAgentTypeOK

\* A plane that says it leads over an open session holds the advisory lock (coordinator.py),
\* and a follower of global control trusts a leader no longer than the lease that this
\* leader has (global_control/consensus.py).
LeadersAreBacked == LeaderHoldsLock /\ LeaseWithinLeaders

\* Regions apply the same changes in the end (replication.py), and the results that the edge
\* stored are handed over in the end (edge_runtime.py).
EverythingArrives == RegionsConverge /\ OutboxDrains

\* Global control has a leader again and again (global_control/consensus.py), and a cluster whose
\* control plane lives is online again (cluster_agent.py), see the two modules.
LeaderAndClustersReturn ==
    /\ part = "election" => LeaderAgain
    /\ part = "agents" => ClusterComesBack
=============================================================================
