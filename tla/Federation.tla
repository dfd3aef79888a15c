----------------------------- MODULE Federation -----------------------------
(***************************************************************************)
(* The federation controller (federation/controller.py, heartbeat.py,      *)
(* failover.py, registry.py, router.py) and the clusters it hands global   *)
(* jobs to (control_plane/federation_api.py, federation_callbacks.py).     *)
(*                                                                         *)
(* Concurrency.  The request handlers and the watch loop are coroutines of *)
(* one event loop: they interleave at their awaits only.  The sweep and    *)
(* the reroute run in worker threads (asyncio.to_thread) and interleave    *)
(* with everything at each call of the registry, which is one SQLite       *)
(* statement under the registry's lock.  Every record is read whole and    *)
(* written back whole, so a late write restores what was read.             *)
(*                                                                         *)
(* Network.  A POST may be lost, may be processed after its sender timed   *)
(* out, and its answer may be lost.  A cluster may look stale to a sweep   *)
(* at any time, its heartbeats being late or lost.  Scores only order the  *)
(* clusters: a route picks any cluster that is not offline.                *)
(*                                                                         *)
(* Clusters.  What a cluster does with a job is ControlPlane; here it runs *)
(* the job and reports every result it records, failures it will retry and *)
(* late results of other attempts included.                                *)
(***************************************************************************)
EXTENDS Naturals, FiniteSets, TLC

CONSTANTS
    Job,          \* ids of global jobs, each submitted once
    Cluster,
    MaxSweeps,    \* bound: sweeps that find a stale cluster
    MaxRestarts,  \* bound: restarts of the federation controller
    NoCluster

ASSUME ClusterAssumption == IsFiniteSet(Cluster) /\ IsFiniteSet(Job) /\ NoCluster \notin Cluster
ASSUME BoundAssumption == MaxSweeps \in Nat /\ MaxRestarts \in Nat

VARIABLES
    health,    \* registry: ClusterRecord.health_state, "none" if not registered
    status,    \* registry: GlobalJobRecord.status, "none" if not submitted
    assigned,  \* registry: GlobalJobRecord.assigned_cluster_id
    reroutes,  \* registry: the metric failover_reroutes_total
    submit,    \* where the submit_global_job handler of a job is
    target,    \* its decision.target_cluster_id
    done,      \* what global_job_complete read and will save: {} or one copy
    watch,     \* where the watch loop and its worker thread are
    stale,     \* clusters this sweep has still to mark offline
    dead,      \* clusters it marked, still to be rerouted
    cur,       \* dead_cluster_id of the reroute
    others,    \* candidates for its jobs, as read
    snap,      \* its active jobs, as read and not yet rerouted
    pushes,    \* (job, cluster) pairs of the reroute not yet pushed
    inbound,   \* POST /federation/inbound_job requests on their way
    local,     \* what a cluster knows of a job
    reports,   \* POST /global_job_complete requests on their way
    sweeps, restarts

registryVars == <<health, status, assigned, reroutes>>
handlerVars  == <<submit, target, done>>
watchVars    == <<watch, stale, dead, cur, others, snap, pushes, sweeps>>
clusterVars  == <<local, reports>>
vars == <<registryVars, handlerVars, watchVars, inbound, clusterVars, restarts>>

Active == {"queued", "routed", "migrated"}
Settled == {"completed", "failed"}
Report == [job : Job, ok : BOOLEAN]

TypeOK ==
    /\ health \in [Cluster -> {"none", "up", "offline"}]
    /\ status \in [Job -> {"none"} \cup Active \cup Settled]
    /\ assigned \in [Job -> Cluster \cup {NoCluster}]
    /\ reroutes \in Nat
    /\ submit \in [Job -> {"new", "decided", "pushing", "done"}]
    /\ target \in [Job -> Cluster \cup {NoCluster}]
    /\ \A g \in Job : submit[g] \in {"decided", "pushing"} => target[g] \in Cluster
    /\ done \subseteq Report \X (Cluster \cup {NoCluster})
    /\ watch \in {"idle", "marking", "next", "listed", "saving", "counting", "pushing", "pushed"}
    /\ stale \subseteq Cluster /\ dead \subseteq Cluster /\ others \subseteq Cluster
    /\ cur \in Cluster \cup {NoCluster}
    /\ snap \subseteq Job
    /\ pushes \subseteq Job \X Cluster /\ inbound \subseteq Job \X Cluster
    /\ local \in [Cluster -> [Job -> {"none", "active", "done"}]]
    /\ reports \subseteq Report
    /\ sweeps \in 0 .. MaxSweeps /\ restarts \in 0 .. MaxRestarts

Init ==
    /\ health = [c \in Cluster |-> "none"]
    /\ status = [g \in Job |-> "none"]
    /\ assigned = [g \in Job |-> NoCluster]
    /\ reroutes = 0
    /\ submit = [g \in Job |-> "new"]
    /\ target = [g \in Job |-> NoCluster]
    /\ done = {}
    /\ watch = "idle" /\ stale = {} /\ dead = {} /\ cur = NoCluster
    /\ others = {} /\ snap = {} /\ pushes = {} /\ inbound = {}
    /\ local = [c \in Cluster |-> [g \in Job |-> "none"]]
    /\ reports = {}
    /\ sweeps = 0 /\ restarts = 0

\* No handler is between two calls of the registry: another coroutine may run.
LoopFree == done = {} /\ \A g \in Job : submit[g] # "decided"

\* save_global_job of a record with this status and assigned_cluster_id.
Save(g, st, c) ==
    /\ status' = [status EXCEPT ![g] = st]
    /\ assigned' = [assigned EXCEPT ![g] = c]

\* The clusters that may be ranked: those not offline.
Online == {c \in Cluster : health[c] = "up"}

-----------------------------------------------------------------------------
(* Clusters appear and report load *)

Register(c) ==
    /\ LoopFree
    /\ health' = [health EXCEPT ![c] = "up"]
    /\ UNCHANGED <<status, assigned, reroutes, handlerVars, watchVars, inbound, clusterVars, restarts>>

\* apply_heartbeat, in a worker thread: an offline cluster is up again.
Heartbeat(c) ==
    /\ health[c] # "none"
    /\ health' = [health EXCEPT ![c] = "up"]
    /\ UNCHANGED <<status, assigned, reroutes, handlerVars, watchVars, inbound, clusterVars, restarts>>

-----------------------------------------------------------------------------
(* submit_global_job *)

\* The record is saved as queued; without a cluster it stays so for good.
SubmitDecide(g) ==
    /\ LoopFree
    /\ submit[g] = "new"
    /\ Save(g, "queued", NoCluster)
    /\ \/ /\ Online = {}
          /\ submit' = [submit EXCEPT ![g] = "done"]
          /\ UNCHANGED target
       \/ \E c \in Online :
             /\ target' = [target EXCEPT ![g] = c]
             /\ submit' = [submit EXCEPT ![g] = "decided"]
    /\ UNCHANGED <<health, reroutes, done, watchVars, inbound, clusterVars, restarts>>

\* The routed record is saved and push_inbound sends the request.
SubmitRoute(g) ==
    /\ submit[g] = "decided"
    /\ Save(g, "routed", target[g])
    /\ submit' = [submit EXCEPT ![g] = "pushing"]
    /\ inbound' = inbound \cup {<<g, target[g]>>}
    /\ UNCHANGED <<health, reroutes, target, done, watchVars, clusterVars, restarts>>

\* Mutant of SubmitReturns: the handler of a failed push starts over.
ReturnsNowhere(g) ==
    /\ submit' = [submit EXCEPT ![g] = "decided"]
    /\ target' = [target EXCEPT ![g] = NoCluster]
    /\ UNCHANGED <<health, reroutes, done, watchVars, inbound, clusterVars, restarts>>

SubmitReturns(g) ==
    /\ submit' = [submit EXCEPT ![g] = "done"]
    /\ target' = [target EXCEPT ![g] = NoCluster]
    /\ UNCHANGED <<health, reroutes, done, watchVars, inbound, clusterVars, restarts>>

\* Mutant of SubmitDone: raise_for_status is left out, any answer is a success.
DoneUnchecked(g) ==
    /\ LoopFree
    /\ submit[g] = "pushing"
    /\ SubmitReturns(g)
    /\ UNCHANGED <<status, assigned>>

\* The cluster has answered "accepted" or "duplicate".
SubmitDone(g) ==
    /\ LoopFree
    /\ submit[g] = "pushing"
    /\ local[target[g]][g] # "none"
    /\ SubmitReturns(g)
    /\ UNCHANGED <<status, assigned>>

\* The push failed or was not answered within 5 s: the handler saves its own
\* copy of the record as queued, over whatever was saved meanwhile.
SubmitFail(g) ==
    /\ LoopFree
    /\ submit[g] = "pushing"
    /\ SubmitReturns(g)
    /\ Save(g, "queued", NoCluster)

-----------------------------------------------------------------------------
(* global_job_complete *)

\* get_global_job: the record is read ...
CompleteGet(r) ==
    /\ LoopFree
    /\ r \in reports
    /\ reports' = reports \ {r}
    /\ done' = {<<r, assigned[r.job]>>}
    /\ UNCHANGED <<registryVars, submit, target, watchVars, inbound, local, restarts>>

\* ... and saved with the reported outcome, whatever its status is.
CompleteSave ==
    /\ \E d \in done : Save(d[1].job, IF d[1].ok THEN "completed" ELSE "failed", d[2])
    /\ done' = {}
    /\ UNCHANGED <<health, reroutes, submit, target, watchVars, inbound, clusterVars, restarts>>

-----------------------------------------------------------------------------
(* federation_watch_loop: sweep_stale_clusters, then for each cluster marked  *)
(* offline reroute_jobs_from_dead_cluster and the pushes it returns           *)

\* list_clusters, with the heartbeat ages seen in it.
SweepList ==
    /\ watch = "idle" /\ LoopFree
    /\ sweeps < MaxSweeps
    /\ sweeps' = sweeps + 1
    /\ \E old \in SUBSET Online : old # {} /\ stale' = old
    /\ watch' = "marking"
    /\ UNCHANGED <<registryVars, handlerVars, dead, cur, others, snap, pushes, inbound, clusterVars, restarts>>

\* upsert_cluster of the copy that was read, over a heartbeat since then.
SweepMark(c) ==
    /\ watch = "marking"
    /\ c \in stale
    /\ health' = [health EXCEPT ![c] = "offline"]
    /\ stale' = stale \ {c}
    /\ dead' = dead \cup {c}
    /\ watch' = IF stale' = {} THEN "next" ELSE "marking"
    /\ UNCHANGED <<status, assigned, reroutes, handlerVars, cur, others, snap, pushes, sweeps,
                   inbound, clusterVars, restarts>>

\* list_clusters of the next reroute, or back to sleep.
RerouteClusters ==
    /\ watch = "next" /\ LoopFree
    /\ \/ /\ dead = {}
          /\ watch' = "idle" /\ cur' = NoCluster /\ others' = {}
          /\ UNCHANGED dead
       \/ \E c \in dead :
             /\ cur' = c
             /\ dead' = dead \ {c}
             /\ others' = Online \ {c}
             /\ watch' = "listed"
    /\ UNCHANGED <<registryVars, handlerVars, stale, snap, pushes, sweeps, inbound, clusterVars, restarts>>

\* Mutant of Listed: the status filter misses "migrated".
ListedTwoStates == {g \in Job : assigned[g] = cur /\ status[g] \in {"queued", "routed"}}

Listed == {g \in Job : assigned[g] = cur /\ status[g] \in Active}

\* list_global_jobs.
RerouteJobs ==
    /\ watch = "listed"
    /\ snap' = Listed
    /\ watch' = "saving"
    /\ UNCHANGED <<registryVars, handlerVars, stale, dead, cur, others, pushes, sweeps,
                   inbound, clusterVars, restarts>>

\* One turn of the loop: the copy is saved with its new cluster, or as queued.
RerouteJob(g) ==
    /\ watch = "saving"
    /\ g \in snap
    /\ snap' = snap \ {g}
    /\ \/ /\ others = {}
          /\ Save(g, "queued", NoCluster)
          /\ UNCHANGED <<watch, pushes>>
       \/ \E c \in others :
             /\ Save(g, "migrated", c)
             /\ pushes' = pushes \cup {<<g, c>>}
             /\ watch' = "counting"
    /\ UNCHANGED <<health, reroutes, handlerVars, stale, dead, cur, others, sweeps,
                   inbound, clusterVars, restarts>>

\* Mutant of RerouteCount: counted at the start of the next turn, so the last
\* job is left out.
CountNextTurn ==
    /\ watch = "counting"
    /\ reroutes' = IF snap = {} THEN reroutes ELSE reroutes + 1
    /\ watch' = "saving"
    /\ UNCHANGED <<health, status, assigned, handlerVars, stale, dead, cur, others, snap, pushes,
                   sweeps, inbound, clusterVars, restarts>>

\* increment_metric, before the next turn.
RerouteCount ==
    /\ watch = "counting"
    /\ reroutes' = reroutes + 1
    /\ watch' = "saving"
    /\ UNCHANGED <<health, status, assigned, handlerVars, stale, dead, cur, others, snap, pushes,
                   sweeps, inbound, clusterVars, restarts>>

\* The worker returns the pushes to the loop.
RerouteEnd ==
    /\ watch = "saving" /\ snap = {}
    /\ watch' = "pushing"
    /\ UNCHANGED <<registryVars, handlerVars, stale, dead, cur, others, snap, pushes, sweeps,
                   inbound, clusterVars, restarts>>

FailoverPush ==
    /\ watch = "pushing" /\ LoopFree
    /\ \/ /\ pushes = {}
          /\ watch' = "next"
          /\ UNCHANGED <<pushes, inbound>>
       \/ \E p \in pushes :
             /\ pushes' = pushes \ {p}
             /\ inbound' = inbound \cup {p}
             /\ watch' = "pushed"
    /\ UNCHANGED <<registryVars, handlerVars, stale, dead, cur, others, snap, sweeps, clusterVars, restarts>>

\* Answered, failed or timed out: a failure is logged and nothing is saved.
FailoverReply ==
    /\ watch = "pushed"
    /\ watch' = "pushing"
    /\ UNCHANGED <<registryVars, handlerVars, stale, dead, cur, others, snap, pushes, sweeps,
                   inbound, clusterVars, restarts>>

-----------------------------------------------------------------------------
(* Clusters: inbound_job and maybe_report_global_completion *)

\* A job the cluster has already is a duplicate and changes nothing.
Inbound(g, c) ==
    /\ <<g, c>> \in inbound
    /\ inbound' = inbound \ {<<g, c>>}
    /\ local' = IF local[c][g] = "none" THEN [local EXCEPT ![c][g] = "active"] ELSE local
    /\ UNCHANGED <<registryVars, handlerVars, watchVars, reports, restarts>>

LoseInbound(g, c) ==
    /\ <<g, c>> \in inbound
    /\ inbound' = inbound \ {<<g, c>>}
    /\ UNCHANGED <<registryVars, handlerVars, watchVars, clusterVars, restarts>>

\* job_result reports the outcome of one execution, before it retries a failed
\* one; the last one ends the job on this cluster.
Result(g, c, ok) ==
    /\ local[c][g] = "active"
    /\ reports' = reports \cup {[job |-> g, ok |-> ok]}
    /\ \E last \in BOOLEAN : local' = IF last THEN [local EXCEPT ![c][g] = "done"] ELSE local
    /\ UNCHANGED <<registryVars, handlerVars, watchVars, inbound, restarts>>

\* The report is posted once; an exception is logged.
LoseReport(r) ==
    /\ r \in reports
    /\ reports' = reports \ {r}
    /\ UNCHANGED <<registryVars, handlerVars, watchVars, inbound, local, restarts>>

-----------------------------------------------------------------------------
\* The controller restarts: handlers and the watch loop are lost, the registry
\* and the requests on their way are not.
Restart ==
    /\ restarts < MaxRestarts
    /\ restarts' = restarts + 1
    /\ submit' = [g \in Job |-> IF submit[g] = "new" THEN "new" ELSE "done"]
    /\ target' = [g \in Job |-> NoCluster]
    /\ done' = {}
    /\ watch' = "idle" /\ stale' = {} /\ dead' = {} /\ cur' = NoCluster
    /\ others' = {} /\ snap' = {} /\ pushes' = {}
    /\ UNCHANGED <<registryVars, sweeps, inbound, clusterVars>>

Submit == \E g \in Job : SubmitDecide(g) \/ SubmitRoute(g) \/ SubmitDone(g) \/ SubmitFail(g)

Watch ==
    \/ SweepList \/ RerouteClusters \/ RerouteJobs \/ RerouteCount \/ RerouteEnd
    \/ FailoverPush \/ FailoverReply
    \/ \E c \in Cluster : SweepMark(c)
    \/ \E g \in Job : RerouteJob(g)

ClusterStep ==
    \/ \E c \in Cluster : Register(c) \/ Heartbeat(c)
    \/ \E g \in Job, c \in Cluster :
          Inbound(g, c) \/ LoseInbound(g, c) \/ \E ok \in BOOLEAN : Result(g, c, ok)
    \/ \E r \in Report : LoseReport(r)

Next ==
    \/ Submit \/ Watch \/ ClusterStep \/ Restart
    \/ CompleteSave \/ \E r \in Report : CompleteGet(r)

Spec == Init /\ [][Next]_vars

-----------------------------------------------------------------------------
(* Properties *)

\* The clusters that know a job, or that a request with it is on the way to.
Held == {h \in Job \X Cluster : local[h[2]][h[1]] # "none" \/ h \in inbound}

Submitted == {g \in Job : submit[g] \in {"pushing", "done"}}

\* While the controller runs, a job shown as routed whose submit has been
\* answered is known to the cluster it is assigned to, although sweeps,
\* reroutes and late results rewrite the same record (submit_global_job saves
\* "routed" before the push and takes it back when the push fails).
RoutedIsDelivered ==
    restarts = 0 =>
        \A g \in Job : status[g] = "routed" /\ submit[g] = "done"
                         => assigned[g] # NoCluster /\ local[assigned[g]][g] # "none"

\* A job is known to, or on its way to, more clusters than one only by reroutes
\* that failover_reroutes_total counts (failover.py:46-49), whatever requests
\* are lost or late and wherever the controller stops.
HoldersArePaidFor == Cardinality(Held) <= reroutes + Cardinality(Submitted)

\* When the watch loop has finished with a sweep, no job a failover assigned is
\* left with a cluster that is offline: what a second failover takes over
\* includes what the first one moved there (failover.py:27-31).
FailoverIsComplete ==
    restarts = 0 /\ watch = "idle" =>
        \A g \in Job : status[g] = "migrated" => health[assigned[g]] # "offline"

\* README.md:255: failover "reroutes assigned jobs to the next-best clusters and
\* triggers push (same path as routing)".  On the routing path a job whose push
\* failed is queued again; so a migrated job that is not being pushed should
\* be known to its cluster.
MigratedIsDelivered ==
    restarts = 0 =>
        \A g \in Job : status[g] = "migrated" =>
            \/ watch \in {"saving", "counting", "pushing", "pushed"}
            \/ <<g, assigned[g]>> \in inbound
            \/ local[assigned[g]][g] # "none"

-----------------------------------------------------------------------------
\* Jobs are alike, and so are clusters: for TLC.
Symmetry == Permutations(Job) \cup Permutations(Cluster)
=============================================================================
