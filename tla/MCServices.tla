----------------------------- MODULE MCServices -----------------------------
(***************************************************************************)
(* Instances for TLC of the components whose correctness is a matter of    *)
(* safety.  They share no state in the code; one run checks them all, each *)
(* from its own initial state: a behaviour is one of the component that    *)
(* runs.                                                                   *)
(***************************************************************************)
EXTENDS MeshJobs, Leases, DecisionEngine, ConsensusMesh, Policies, PeerReplication, Caches,
        EdgeScheduler, RuntimeQueue, ShardedRuns, Repairs, Recovery, Migrations,
        AdaptiveScaling, ContinentFailover, Zones, ModelReplicas, FabricGraph, Placement,
        Overlay, ComputeFabric, Topology

VARIABLE part  \* the component that runs

Component == {
    "mesh", "leases", "engine", "rounds", "policies", "peers", "caches", "edge jobs",
    "runtime", "shards", "repairs", "recovery", "migrations", "scaling", "continents",
    "zones", "replicas", "graph", "placement", "overlay", "fabric", "topology"}

Init ==
    /\ part \in Component
    /\ MjInit /\ (part = "mesh" \/ trusted = [s \in Site |-> Site])
    /\ PoInit /\ (part = "policies" \/ registered = Policy)
    /\ PrInit /\ (part = "peers" \/ (peerList = <<>> /\ sendFn))
    /\ LsInit /\ DeInit /\ CmInit /\ CaInit /\ EsInit /\ RqInit /\ ShInit /\ ReInit
    /\ RcInit /\ MiInit /\ AsInit /\ CfInit /\ ZnInit /\ MrInit /\ FgInit /\ PlInit
    /\ OvInit /\ CpInit /\ ToInit

\* The other components are as they are.
Rest(c) ==
    /\ IF c = "mesh" THEN TRUE ELSE UNCHANGED mjVars
    /\ IF c = "leases" THEN TRUE ELSE UNCHANGED lsVars
    /\ IF c = "engine" THEN TRUE ELSE UNCHANGED deVars
    /\ IF c = "rounds" THEN TRUE ELSE UNCHANGED cmVars
    /\ IF c = "policies" THEN TRUE ELSE UNCHANGED poVars
    /\ IF c = "peers" THEN TRUE ELSE UNCHANGED prVars
    /\ IF c = "caches" THEN TRUE ELSE UNCHANGED caVars
    /\ IF c = "edge jobs" THEN TRUE ELSE UNCHANGED esVars
    /\ IF c = "runtime" THEN TRUE ELSE UNCHANGED rqVars
    /\ IF c = "shards" THEN TRUE ELSE UNCHANGED shVars
    /\ IF c = "repairs" THEN TRUE ELSE UNCHANGED reVars
    /\ IF c = "recovery" THEN TRUE ELSE UNCHANGED rcVars
    /\ IF c = "migrations" THEN TRUE ELSE UNCHANGED miVars
    /\ IF c = "scaling" THEN TRUE ELSE UNCHANGED asVars
    /\ IF c = "continents" THEN TRUE ELSE UNCHANGED cfVars
    /\ IF c = "zones" THEN TRUE ELSE UNCHANGED znVars
    /\ IF c = "replicas" THEN TRUE ELSE UNCHANGED mrVars
    /\ IF c = "graph" THEN TRUE ELSE UNCHANGED fgVars
    /\ IF c = "placement" THEN TRUE ELSE UNCHANGED plVars
    /\ IF c = "overlay" THEN TRUE ELSE UNCHANGED ovVars
    /\ IF c = "fabric" THEN TRUE ELSE UNCHANGED cpVars
    /\ IF c = "topology" THEN TRUE ELSE UNCHANGED cables
    /\ UNCHANGED part

Step(c) == part = c /\ Rest(c)

Next ==
    \/ Step("mesh") /\ MjNext
    \/ Step("leases") /\ LsNext
    \/ Step("engine") /\ DeNext
    \/ Step("rounds") /\ CmNext
    \/ Step("policies") /\ PoNext
    \/ Step("peers") /\ PrNext
    \/ Step("caches") /\ CaNext
    \/ Step("edge jobs") /\ EsNext
    \/ Step("runtime") /\ RqNext
    \/ Step("shards") /\ ShNext
    \/ Step("repairs") /\ ReNext
    \/ Step("recovery") /\ RcNext
    \/ Step("migrations") /\ MiNext
    \/ Step("scaling") /\ AsNext
    \/ Step("continents") /\ CfNext
    \/ Step("zones") /\ ZnNext
    \/ Step("replicas") /\ MrNext
    \/ Step("graph") /\ FgNext
    \/ Step("placement") /\ PlNext
    \/ Step("overlay") /\ OvNext
    \/ Step("fabric") /\ CpNext
    \/ Step("topology") /\ ToNext

vars == <<part, mjVars, lsVars, deVars, cmVars, poVars, prVars, caVars, esVars, rqVars, shVars,
          reVars, rcVars, miVars, asVars, cfVars, znVars, mrVars, fgVars, plVars, ovVars,
          cpVars, cables>>

Spec == Init /\ [][Next]_vars

-----------------------------------------------------------------------------
(* Instances *)

MCHome == [h \in Holder |-> CHOOSE p \in Process : TRUE]
MCIdOf == [o \in Proposal |-> CHOOSE i \in Pid : TRUE]
MCKeyType == [k \in Key |-> "kv"]
MCPriority == [w \in Workload |-> w]
MCRank == [j \in RtJob |-> j]
MCUrgency == [i \in RepairId |-> i]
MCLandOf == [p \in Province |-> IF p = "w1" THEN "W" ELSE "E"]
MCTelemetry == {[p \in Province |-> IF p = "w1" THEN {"hot"} ELSE {"offline"}],
                [p \in Province |-> IF p = "w1" THEN {"offline"} ELSE {"slow"}]}
MCRegionsOf == [z \in ZoneId |-> IF z = 1 THEN ZoneRegion ELSE {3}]
MCWire == {<<1, 2>>, <<2, 3>>, <<1, 3>>, <<3, 2>>}
MCLinkKind == {[latency |-> 1, up |-> TRUE], [latency |-> 3, up |-> TRUE],
               [latency |-> 1, up |-> FALSE]}
MCCable == MCWire \cup {<<3, 4>>}
MCCableKind == {[latency |-> k.latency, healthy |-> k.up] : k \in MCLinkKind}
Row_(s, sat, cap, free, vram, lat) ==
    [status |-> s, saturation |-> sat, capacity |-> cap, gpus |-> 4, freeGpus |-> free,
     vram |-> vram, typed |-> vram > 0, latency |-> lat, edge |-> lat < 100]
MCOffer == {Row_("active", 20, 100, 2, 40, 50), Row_("active", 80, 150, 0, 0, 600),
            Row_("active", 80, 50, 2, 40, 50), Row_("degraded", 20, 100, 4, 80, 50),
            Row_("draining", 0, 100, 4, 80, 0), Row_("offline", 100, 0, 0, 0, 200)}
Ask_(gpu, type, vram, limit, prefers, local) ==
    [gpu |-> gpu, type |-> type, vram |-> vram, limit |-> limit, prefers |-> prefers,
     local |-> local]
MCAsk == {Ask_(gpu, FALSE, 0, 0, p, l) : gpu \in BOOLEAN, p \in {{}, {1}, {2}}, l \in {{}, {2, 3}}}
         \cup {Ask_(TRUE, t, 40, limit, {}, {}) : t \in BOOLEAN, limit \in {0, 100}}
MCDistance == [d \in Depot |-> 10 - d]
MCGiven == {[state |-> "pending", frequency |-> 0], [state |-> "completed", frequency |-> 1]}
MCKeyOf == [e \in Reading |-> 1]

-----------------------------------------------------------------------------
(* Properties: those of the components, where several are one question. *)

\* Every component's state stays in its type.
ServicesTypeOK ==
    CASE part = "mesh"       -> MeshJobsTypeOK
      [] part = "leases"     -> LeasesTypeOK
      [] part = "engine"     -> DecisionEngineTypeOK
      [] part = "rounds"     -> ConsensusMeshTypeOK
      [] part = "policies"   -> PoliciesTypeOK
      [] part = "peers"      -> PeerReplicationTypeOK
      [] part = "caches"     -> CachesTypeOK
      [] part = "edge jobs"  -> EdgeSchedulerTypeOK
      [] part = "runtime"    -> RuntimeQueueTypeOK
      [] part = "shards"     -> ShardedRunsTypeOK
      [] part = "repairs"    -> RepairsTypeOK
      [] part = "recovery"   -> RecoveryTypeOK
      [] part = "migrations" -> MigrationsTypeOK
      [] part = "scaling"    -> AdaptiveScalingTypeOK
      [] part = "continents" -> ContinentTypeOK
      [] part = "zones"      -> ZonesTypeOK
      [] part = "replicas"   -> ModelReplicasTypeOK
      [] part = "graph"      -> FabricGraphTypeOK
      [] part = "placement"  -> PlacementTypeOK
      [] part = "overlay"    -> OverlayTypeOK
      [] part = "fabric"     -> ComputeFabricTypeOK
      [] part = "topology"   -> TopologyTypeOK

\* What a cluster of the mesh says of a job, in its queue and in its log, is so
\* (control_plane/mesh_routes.py).
MeshJobsAreKept == MigratedIsReceived /\ CreatedIsHeld

\* The decision engine and the consensus mesh implement the abstract vote.
VotesAgree == EngineAgrees /\ RoundsAgree

\* A proposal has the status, and a member of the mesh the lead, that votes and elections
\* gave it.
DecisionsAreEarned == StatusIsEarned /\ OneMeshLeader

\* Counters agree with what they count: the load of edge nodes, the tables of the runtime,
\* the shards of an execution, the evaluations of policies and the workloads a drain moves.
WorkIsAccountedFor ==
    /\ part = "edge jobs" => EdgeLoadCovers
    /\ part = "runtime" => RuntimeHoldsItsJobs
    /\ part = "shards" => NoneLeftOpen
    /\ part = "policies" => EvaluationsAddUp
    /\ part = "fabric" => DrainLeavesLatecomers

\* Requests of repair, recorded failures and outages of a continent are handled, each once,
\* though their ids are not unique and several callers go through them.
FailuresAreHandled ==
    /\ part = "repairs" => RepairedOnce
    /\ part = "recovery" => NoFailureForgotten
    /\ part = "continents" => OutagesAreCarriedOut

\* Limits that are checked in one step and used in another are kept up to what the callers
\* in between can add: migrations under way, scalings in a cooldown, pooled connections.
LimitsHold ==
    /\ part = "migrations" => MigrationsAreLimited
    /\ part = "scaling" => FlappingIsBounded
    /\ part = "overlay" => PoolEvictsIdlest

\* How far data that comes late may reach: a report of telemetry makes a zone a failover
\* target again only past a majority of offline regions or when it was active all along
\* (infrastructure_zones.py), and a stale copy of a replica never brings a removed row back
\* (model_replication.py).
LateDataStaysInBounds == TargetsByOperatorsWord /\ ReplicasByAddOnly

\* The two path searches, over an adjacency that stays in step with the links.
PathsAreShortest ==
    /\ part = "graph" => LinksAreAdjacent /\ ShortestPathIsShortest
    /\ part = "topology" => RouteIsCheapest

\* The routers and the scheduler's filter.
RoutersFindTheBest == part = "placement" => RoutesAreServed /\ FilterKeepsTheBest
=============================================================================
