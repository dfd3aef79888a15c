------------------------------ MODULE MeshJobs ------------------------------
(***************************************************************************)
(* Jobs that the clusters of a mesh forward to each other, with the        *)
(* replicated queue and the event log of each cluster                      *)
(* (control_plane/mesh_routes.py, distributed_queue/, mesh/mesh_router.py). *)
(*                                                                         *)
(* forward_job awaits the answer of receive_routed_job at the peer it      *)
(* chose, at most eight seconds.  The receiving handler has no await       *)
(* between its duplicate check and its answer, so two receptions of one    *)
(* cluster do not interleave, but its process may stop between the writes  *)
(* to three databases: replicated queue, control plane, event log.         *)
(*                                                                         *)
(* Who is a peer, its load, its GPUs and so the order of best_forward are  *)
(* any: a forward goes to any other cluster or finds none.  Signatures are *)
(* valid.  A client that copies events between clusters with the routes    *)
(* /mesh/events and /mesh/events/merge is external: no code in the         *)
(* repository calls them.                                                  *)
(***************************************************************************)
EXTENDS Naturals, FiniteSets, Sequences, Lists, SequencesExt

CONSTANTS
    Site,          \* the clusters of the mesh
    MeshJob,       \* jobs, by their id
    NoRow,         \* no row in the replicated queue
    MaxForwards,   \* bound: forwards under way at a time
    MaxMeshFaults  \* bound: stops and timeouts

Row == [state : {"queued", "migrated"}, owner : Site]
Forward == {f \in [from : Site, to : Site, job : MeshJob] : f.from # f.to}

ASSUME SiteAssumption == IsFiniteSet(Site)
ASSUME RowAssumption == NoRow \notin Row /\ MaxForwards \in Nat /\ MaxMeshFaults \in Nat

VARIABLES
    trusted,     \* ARSONIST_MESH_TRUSTED_PEERS of each cluster, empty list included
    held,        \* the jobs of each control plane: unknown, queued there, or run
    rep,         \* rep_jobs of each cluster
    log,         \* mesh_events of each cluster: JOB_CREATED events, by seq
    serving,     \* how far the receiver is with each forward
    meshWaiting, \* the forwards whose sender still awaits the answer
    meshFaults

mjVars == <<trusted, held, rep, log, serving, meshWaiting, meshFaults>>

MeshEvent == [source : Site, job : MeshJob]   \* its event_id is its identity

MeshJobsTypeOK ==
    /\ trusted \in [Site -> SUBSET Site]
    /\ held \in [Site -> [MeshJob -> {"no", "queued", "ran"}]]
    /\ rep \in [Site -> [MeshJob -> Row \cup {NoRow}]]
    /\ \A s \in Site : log[s] \in Seq(MeshEvent)
    /\ serving \in [Forward -> {"none", "sent", "upserted", "enqueued", "ok", "refused"}]
    /\ meshWaiting \in SUBSET Forward
    /\ meshFaults \in 0 .. MaxMeshFaults

MjInit ==
    /\ trusted \in [Site -> SUBSET Site]
    /\ held = [s \in Site |-> [j \in MeshJob |-> "no"]]
    /\ rep = [s \in Site |-> [j \in MeshJob |-> NoRow]]
    /\ log = [s \in Site |-> <<>>]
    /\ serving = [f \in Forward |-> "none"]
    /\ meshWaiting = {}
    /\ meshFaults = 0

MeshFault == meshFaults < MaxMeshFaults /\ meshFaults' = meshFaults + 1

\* ReplicatedQueue.upsert: the last write wins.
Upsert(s, j, st, owner) == rep' = [rep EXCEPT ![s][j] = [state |-> st, owner |-> owner]]

-----------------------------------------------------------------------------
(* forward_job *)

\* A client submits a job to one cluster.
SubmitHere(s, j) ==
    /\ \A t \in Site : held[t][j] = "no"
    /\ held' = [held EXCEPT ![s][j] = "queued"]
    /\ UNCHANGED <<trusted, rep, log, serving, meshWaiting, meshFaults>>

\* The control plane runs a job of its queue, forwarded or not.
RunHere(s, j) ==
    /\ held[s][j] = "queued"
    /\ held' = [held EXCEPT ![s][j] = "ran"]
    /\ UNCHANGED <<trusted, rep, log, serving, meshWaiting, meshFaults>>

\* The job is known, best_forward names a peer, and the request is posted; the
\* job's status is not looked at.
ForwardJob(f) ==
    /\ held[f.from][f.job] # "no"
    /\ f \notin meshWaiting /\ serving[f] = "none"
    /\ Cardinality({g \in Forward : serving[g] # "none"}) < MaxForwards
    /\ serving' = [serving EXCEPT ![f] = "sent"]
    /\ meshWaiting' = meshWaiting \cup {f}
    /\ UNCHANGED <<trusted, held, rep, log, meshFaults>>

\* Mutant of ForwardDone: any answer counts as a success.
ForwardAnswered(f) ==
    /\ f \in meshWaiting /\ serving[f] \in {"ok", "refused"}
    /\ meshWaiting' = meshWaiting \ {f}
    /\ serving' = [serving EXCEPT ![f] = "none"]
    /\ Upsert(f.from, f.job, "migrated", f.to)
    /\ UNCHANGED <<trusted, held, log, meshFaults>>

\* "accepted" and "duplicate" both count as forwarded.
ForwardDone(f) ==
    /\ f \in meshWaiting /\ serving[f] = "ok"
    /\ meshWaiting' = meshWaiting \ {f}
    /\ serving' = [serving EXCEPT ![f] = "none"]
    /\ Upsert(f.from, f.job, "migrated", f.to)
    /\ UNCHANGED <<trusted, held, log, meshFaults>>

\* An error status, or an answer nobody awaits any more.
ForwardFails(f) ==
    /\ serving[f] \in {"ok", "refused"} /\ (f \in meshWaiting => serving[f] = "refused")
    /\ serving' = [serving EXCEPT ![f] = "none"]
    /\ meshWaiting' = meshWaiting \ {f}
    /\ UNCHANGED <<trusted, held, rep, log, meshFaults>>

\* The timeout of the client; the request may still be served.
ForwardTimesOut(f) ==
    /\ f \in meshWaiting /\ MeshFault
    /\ meshWaiting' = meshWaiting \ {f}
    /\ UNCHANGED <<trusted, held, rep, log, serving>>

-----------------------------------------------------------------------------
(* receive_routed_job *)

\* No reception of s is under way in its event loop.
LoopFree(s) == \A g \in Forward : g.to = s => serving[g] \notin {"upserted", "enqueued"}

Refuse(f) ==
    /\ serving[f] = "sent" /\ LoopFree(f.to)
    /\ f.from \notin trusted[f.to]
    /\ serving' = [serving EXCEPT ![f] = "refused"]
    /\ UNCHANGED <<trusted, held, rep, log, meshWaiting, meshFaults>>

\* The duplicate check, then the upsert of a job that is new here.
ReceiveMigration(f) ==
    /\ serving[f] = "sent" /\ LoopFree(f.to)
    /\ f.from \in trusted[f.to]
    /\ IF held[f.to][f.job] # "no"
       THEN serving' = [serving EXCEPT ![f] = "ok"] /\ UNCHANGED rep
       ELSE /\ serving' = [serving EXCEPT ![f] = "upserted"]
            /\ Upsert(f.to, f.job, "queued", f.to)
    /\ UNCHANGED <<trusted, held, log, meshWaiting, meshFaults>>

\* enqueue_job, which saves the job.
ReceiveEnqueue(f) ==
    /\ serving[f] = "upserted"
    /\ held' = [held EXCEPT ![f.to][f.job] = "queued"]
    /\ serving' = [serving EXCEPT ![f] = "enqueued"]
    /\ UNCHANGED <<trusted, rep, log, meshWaiting, meshFaults>>

\* EventLog.append, schedule_once and the answer.
ReceiveLog(f) ==
    /\ serving[f] = "enqueued"
    /\ log' = [log EXCEPT ![f.to] = Append(@, [source |-> f.to, job |-> f.job])]
    /\ serving' = [serving EXCEPT ![f] = "ok"]
    /\ UNCHANGED <<trusted, held, rep, meshWaiting, meshFaults>>

\* The process of s stops and restarts: what it was serving or awaiting is over,
\* its databases stay.
SiteRestarts(s) ==
    /\ MeshFault
    /\ \E f \in Forward : s \in {f.from, f.to} /\ (f \in meshWaiting \/ serving[f] # "none")
    /\ serving' = [f \in Forward |->
                      IF f.to = s /\ serving[f] # "none" THEN "refused" ELSE serving[f]]
    /\ meshWaiting' = {f \in meshWaiting : f.from # s}
    /\ UNCHANGED <<trusted, held, rep, log>>

-----------------------------------------------------------------------------
(* EventLog *)

\* replay: the events after seq since, at most limit of them.
Replay(s, since, limit) ==
    SubSeq(log[s], since + 1, IF since + limit < Len(log[s]) THEN since + limit ELSE Len(log[s]))

\* merge_events inserts the events whose event_id the log does not have.
MergeEvents(l, events) == Extended(l, events)

\* The external client copies some events; it may do so again, or in any order.
CopyEvents(s, t) ==
    /\ s # t /\ log[s] # <<>>
    /\ \E since \in 0 .. Len(log[s]) - 1 : \E limit \in 1 .. 2 :
          log' = [log EXCEPT ![t] = MergeEvents(@, Replay(s, since, limit))]
    /\ UNCHANGED <<trusted, held, rep, serving, meshWaiting, meshFaults>>

MjNext ==
    \/ \E s \in Site, j \in MeshJob : SubmitHere(s, j) \/ RunHere(s, j)
    \/ \E f \in Forward :
          \/ ForwardJob(f) \/ ForwardDone(f) \/ ForwardFails(f) \/ ForwardTimesOut(f)
          \/ Refuse(f) \/ ReceiveMigration(f) \/ ReceiveEnqueue(f) \/ ReceiveLog(f)
    \/ \E s \in Site : SiteRestarts(s)
    \/ \E s, t \in Site : CopyEvents(s, t)

MjSpec == MjInit /\ [][MjNext]_mjVars

-----------------------------------------------------------------------------
(* Properties *)

\* A job that a cluster records as migrated is stored where it went, whatever
\* answers are late or lost and whoever restarts: the forward says so only after
\* the receiver has saved it.
MigratedIsReceived ==
    \A s \in Site, j \in MeshJob :
        rep[s][j] # NoRow /\ rep[s][j].state = "migrated" => held[rep[s][j].owner][j] # "no"

\* Every log has an event once, and a JOB_CREATED event of a cluster, wherever it
\* has been copied to, is about a job that this cluster has stored.
CreatedIsHeld ==
    \A s \in Site :
        /\ IsInjective(log[s])
        /\ \A i \in DOMAIN log[s] : held[log[s][i].source][log[s][i].job] # "no"
=============================================================================
