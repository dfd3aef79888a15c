# A TLA+ model of Arsonist OS

This directory is a verification development of the Arsonist orchestrator: TLA+
modules translated from its Python source, TLC configurations that check them on
small instances, and theorems that TLAPS proves for every value of the constants.
`PROJECT.json` lists the components, the runs, the source lines behind every
definition (`map`), the hazards of the code and the mutants that show each property
can fail.

    tlc -workers 2 -config RetryPolicy.cfg MCControlPlane.tla     # one run
    tlapm ControlPlaneProofs.tla                                  # the proofs

## The system and its parts

| part | source | state | operations |
| --- | --- | --- | --- |
| control plane | `control_plane/app.py`, `storage/job_queue.py`, `scheduler/weighted.py` | none of its own | `submit_job`, `job_result`, `reschedule`, `register`, `heartbeat`, `schedule_once`, scheduler loop |
| cluster memory | `control_plane/memory.py` | `nodes`, `jobs`, `queue`, and their rows in SQLite | `enqueue_job`, `pop_next_job`, `ensure_job_queued`, `add_node`, `remove_node`, reload |
| health monitor | `control_plane/health.py` | none | removes nodes not seen for 15 s, re-queues their jobs |
| node agent | `node/agent.py` | `STATE["running_jobs"]` | register, heartbeat, `run_job`, `_execute`, `_finish_job` |
| federation controller | `federation/*.py`, `global_scheduler/*.py` | cluster and global-job records in SQLite, counters | `register_cluster`, `heartbeat`, `submit_global_job`, `global_job_complete`, watch loop with sweep and failover |
| federated cluster | `control_plane/federation_api.py`, `federation_callbacks.py`, `cluster_client/` | the job table of its control plane | `inbound_job`, completion report, registration and heartbeat |
| leadership | `control_plane/coordinator.py`, `consensus/*.py` | advisory lock, lease rows, a cached leader flag | acquire, renew, release, `is_leader` |
| mesh | `mesh/*.py`, `distributed_queue/*.py`, `control_plane/mesh_*.py` | peer records, event log, replicated job states | gossip, merge, expiry, forward and receive a job |
| cluster agent | `cluster_client/*.py` | whether it has registered | register, heartbeat |
| global control | `global_control/*.py`, `replication/*.py` | leader leases, versioned state, pending changes, checkpoints, caches, replica table | heartbeat, promote, put, sync, flush, invalidate |
| decisions | `coordination/*.py` | proposals, votes, members and their leader, policies | propose, vote, execute, elect, evaluate |
| runtime | `runtime/*.py`, `orchestrator/*.py` | job table, queue and running set, sessions, shards | submit, dispatch, cancel, complete, plan |
| edge | `edge/*.py` | stored results, outbox, node loads, cache | store, request, sync, schedule |
| repair and regions | `repair/*.py`, `regions/*.py`, `routing/*.py` | requests, failures, region rows | detect, repair, retry, escalate, drain, route |
| adaptation | `adaptation/*.py` | migrations, cooldowns | plan, execute, cancel, scale |
| planetary layer and fabric | `planetary/*.py`, `fabric/*.py`, `fabric_core/*.py`, `networking/*.py` | events, zones, graphs, workloads, connections | fail over, link, route, place, drain, connect |
| gateway and quotas | `gateway/*.py`, `billing/*.py`, `identity/api_tokens.py` | counters in Redis, tokens, usage | authenticate, check, charge, invoice |
| the rest | inference, heuristics, telemetry, dashboards, simulation | scores, records, counters | see PROJECT.json for the reason each is left out |

How they interact.  Agents and the control plane talk over HTTP in both directions:
the control plane POSTs `/run_job`, agents POST registrations, heartbeats and results.
The request handlers, the scheduler loop and the health loop of one control plane
share `ClusterMemory` without a lock over a job, the queue or a pass.  The federation
controller POSTs jobs to clusters (`/federation/inbound_job`), which enqueue them as
their own; a cluster reports every result it records (`/global_job_complete`).  Mesh
peers gossip their registries to each other and forward jobs.  The managers below that (decisions,
runtime, repair, adaptation, planetary layer, fabric, replication, edge) are objects with a
lock and tables of their own, called by request handlers and timer threads; they share no
state with each other, and mostly hand telemetry and ids around.

What is hard here:

* overlapping passes of `schedule_once`: any handler that ends with a pass, and the
  loop, may work on the same job;
* results of an attempt that the scheduler has already given up;
* a `/run_job` or a push that times out although the receiver has taken the job;
* Python objects of nodes that were removed while a pass still holds them;
* records read whole, and written back whole later, over what was written meanwhile;
* stops of a process between two rows of one logical change;
* work done between two sections of one lock: a limit, a cooldown, a copied list or a
  copied row is used after somebody else has changed what it was read from;
* ids made of a name and a second, so that two records share one, and the table of
  records under way holds only the newer;
* counters and totals kept next to the tables they summarise.

Each is an entry of `hazards` in PROJECT.json, at its line, with the properties that
would catch it.

## Modules

| modules | models | checked by | proved in |
| --- | --- | --- | --- |
| `ControlPlane` | jobs, nodes, scheduling threads, health loop and agents of one cluster | `MCControlPlane` | `ControlPlaneProofs` |
| `Federation` | the federation controller and its clusters | itself | `FederationProofs` |
| `Gossip` | the mesh's peer registries | `MCGossip` | `GossipProofs` |
| `Leadership`, `GlobalElection`, `StateReplication`, `EdgeRuntime`, `Regions`, `Gateway`, `ClusterAgent` | components that must go on for ever | `MCCoordination` | `CoordinationProofs` |
| `Leases`, `MeshJobs`, `DecisionEngine`, `ConsensusMesh`, `Policies`, `PeerReplication`, `Caches`, `EdgeScheduler`, `RuntimeQueue`, `ShardedRuns`, `Repairs`, `Recovery`, `Migrations`, `AdaptiveScaling`, `ContinentFailover`, `Zones`, `ModelReplicas`, `FabricGraph`, `Topology`, `Placement`, `Overlay`, `ComputeFabric` | components whose correctness is safety | `MCServices` | `ComponentProofs`, `AgreementProofs`, `ServicesProofs` |
| `Agreement` | the abstract vote that `DecisionEngine` and `ConsensusMesh` implement | `MCServices` | `AgreementProofs` |
| `Lists` | three idioms of Python's lists: a comprehension with a condition, appending what is new, the stable sort | wherever they are used | `DataLemmas` |

`DataLemmas` holds the lemmas that several proofs need: induction, sums, selected and sorted
sequences, cardinalities, loops and paths.  `ComponentProofs` has the inductive invariants of the thirteen components of
`MCServices` whose properties speak of sequences, sums and numbers of callers; `ServicesProofs` those of the
others, and the theorems.  `Lists` exists because the provers know nothing of `SelectSeq` and
`SortSeq`: its operators are recursive functions, and what they return is proved.

## ControlPlane

### State and actions

| TLA+ | code |
| --- | --- |
| `status`, `attempts`, `assigned` | the fields of `memory.jobs[j]` and its row |
| `queue` | `memory.queue` and its row |
| `reg`, `born` | which `NodeState` object `memory.nodes` holds for a node; an object is `<<node, generation>>` |
| `healthy`, `running` | `NodeState.healthy`, `NodeState.running_jobs` (a bag, as a list may repeat a job) |
| `pc`, `held`, `todo`, `call`, `got` | where a thread is, its popped job, the candidates left, the node whose answer it awaits, its `assigned` list |
| `hpc`, `hobj`, `hjobs`, `hjob` | the same for the health loop |
| `accepted`, `executing`, `posted` | executions of an agent: thread started, listed in `STATE`, result posted but still listed |

| action | code |
| --- | --- |
| `BeginPass`, `Select`, `MarkRunning`, `DispatchSend`, `DispatchReply`, `EndDispatch`, `PassRequeue`, `PassEnsure`, `PassAppend` | one pass of `schedule_once`, with `select_nodes`, `mark_running`, `dispatch_job`, `requeue_or_fail`, and the test and the append of `ensure_job_queued` |
| `SubmitJob` | `submit_job` |
| `JobResult`, `BookResult`, `RetryResult`, `RetryRequeue`, `RetryEnsure`, `RetryAppend` | `job_result` in the order of its statements |
| `RegisterNode`, `Heartbeat`, `LateHeartbeat` | `register`, `heartbeat`; the last is a handler that stores a node object the health loop has just removed |
| `HealthDetect` ... `HealthDone` | `check_nodes_once`, `_requeue_jobs` |
| `AgentStart`, `AgentForget`, `LoseResult`, `AgentCrash` | the agent |
| `Restart` | the control plane stops and reloads SQLite |

A thread can lose the processor at every SQLite commit, at every HTTP call, between
a test in one function and the function it guards, and between the test and the append of
`ensure_job_queued`, which no lock covers (`NotListed`, and `PassAppend`, `RetryAppend`,
`HealthAppend`): two threads that put the same job back may list it twice.  `enqueue_job`
has the same two statements and is one step, because the id is fresh there and nobody else
holds it.  `Handler` is FastAPI's thread pool,
`Loop` the scheduler thread.

### What is abstracted, and why it does not matter here

* Loads, scores and heartbeat times decide only which eligible node is chosen and in
  what order, and when a node counts as dead: the model chooses freely, so it has every
  behaviour of the code and some that particular numbers exclude.
* The field assignments and the save of one helper are one step.  In particular
  `attempts += 1` is not split, and rows of one job are not committed out of order.
* A job id is submitted once.  One control plane leads; `Leadership` is about who does.
  SQLite only; its exceptions are not modelled.
* `LateHeartbeat` happens while the health loop is still busy with that node (the bound is
  stated at the action).
* The read-only routes, provisioning, secrets and the key-value registry are left out.

### Runs

| run | instance | shows |
| --- | --- | --- |
| `retry_policy` | one job, one node, a handler and the loop, two retries, every fault, two node deaths | `TypeOK`, `AttemptsBounded`, `QueuedIsTracked`, `FailedIsExhausted`, `QueueIsBounded` |
| `gang_dispatch` | a job that needs both of two nodes, or one on a node that is registered afresh; two retries, refusals, timeouts, a node death, one restart | `RunningIsAssigned`, `RunningIsMoving`, `ExecutionsArePaidFor` |
| `settles` | one job, one node, two retries, timed-out dispatches, a node death, under fairness | `EventuallySettled` |
| `retry_limit` | timeouts only | violated: a job is tried a fourth time |
| `restart_safe_queue` | one restart, no other fault | violated: a job popped before the stop is lost |
| `failed_nodes` | agent crashes and node deaths | violated: a job stays running on a dead node |

Bounds.  `MaxRetries` is 3 in the code; 2 is enough to have an attempt after a retry, late
results of the first attempt, overlapping passes and an overrun of the limit, and every
passing run has 2; the violation runs use 3.  Two scheduling threads give every pair
of overlapping passes; `OverrunIsBounded` below covers more.  One job is enough for every
property that speaks of one job, as jobs meet only in the queue and in the threads.
`MaxGen = 2` gives a pass an object that is no longer the registry's; `gang_dispatch` holds
two instances, of which the first submission chooses one (the constraint `GangOrSingle`),
because both in one would be too large.  `MaxDeaths` bounds how often the health loop finds
a node dead: two in `retry_policy`, so that a second round meets what the first put back,
one in `settles`, where the
removed node comes back through the heartbeat handler that had its object (`LateHeartbeat`);
with a second generation too the run would be too large.  `MaxRestarts` is 1 where a
restart matters: a second one finds what the first left.

`CHECK_DEADLOCK FALSE`: the system may come to rest when every job is settled, the
agents are done and no fault is left.

Fairness (`FairSpec`).  The threads of the process keep running (weak fairness of a pass
once begun, of the tail of `job_result`, of the health loop once it found a node).  The
scheduler loop calls `schedule_once` on each tick, so `BeginPass(Loop)` is fair.  An
agent's `_registration_loop` retries until it succeeds, its `_execute` threads run, and
`_finish_job` posts the result; it sends heartbeats for ever, as its loop does.  Nothing
is owed by clients, the detection of a dead node, or the faults.  `EventuallySettled` asks
that each node is registered from some point on: the heartbeats of a node that was found
dead are answered with 404, and it does not register again by itself, because
`_registration_loop` ends with its first success; a job that needs it would wait for ever.

### Theorems (`ControlPlaneProofs`)

For any sets of jobs, nodes and threads, any `Need`, `Capable`, retry limit, faults and bounds,
from the named assumptions on the constants:

* `TypeCorrect`: `TypeOK`.  Its content is that counters are only decremented when positive.
* `NoQueuedJobForgotten`: `QueuedIsTracked`, inductive with the types.
* `OverrunIsBounded`: `AttemptsBounded`.  Not inductive alone: `AttemptsInv` adds that the
  attempts of a job, plus the threads that have passed the retry check and not yet
  counted, stay within the limit plus the number of threads.
* `NoEarlyFailure`: `FailedIsExhausted`, inductive with the types.
* `NoRunningJobStuck`: `RunningIsMoving`.  Needs `FreshPass`: a pass that has selected its
  nodes and not yet dispatched has an empty `got`.
* `NoPartialGang`: `RunningIsAssigned`, inductive with the types.
* `QueueStaysBounded`: `QueueIsBounded`.  A job may be listed twice, and how often it is listed
  is bounded only together with the threads that have found it missing and not yet appended it:
  who finds it missing finds no copy, so the sum is then at most the number of threads, and an
  append moves one from its second part to its first.  `KnownJobs` adds that every job a thread
  or the health loop holds, and may append, is in `memory.jobs`.
* `ExecutionsStayPaidFor`: `ExecutionsArePaidFor`, a sum over the nodes.  `PaidInv` adds to the sum what
  passes still have to send: the candidates of a job in the hands of dispatching threads, a
  sum over the threads.  An attempt pays for both when it is counted, since a pass that will
  count it holds exactly as many candidates as the job needs.

Model-checked only: `EventuallySettled` (liveness).

## Federation

`Federation` is the controller with the clusters it hands jobs to.  What a cluster does with
a job is `ControlPlane`; here it takes a job once (`Inbound`; a duplicate is answered and
ignored), reports any number of results in any order (`Result`: every failure that will be
retried is reported too) and is done with it at some point.

| TLA+ | code |
| --- | --- |
| `health` | `ClusterRecord.health_state`: absent, offline or anything else |
| `status`, `assigned` | `GlobalJobRecord` (the status `running` exists in the type and is never written) |
| `reroutes` | the metric `failover_reroutes_total` |
| `submit`, `target` | `submit_global_job`: between the decision and the second save, during the push, done |
| `done` | the copy `global_job_complete` has read and not yet saved |
| `watch`, `stale`, `dead`, `cur`, `others`, `snap`, `pushes` | `federation_watch_loop` and the locals of the sweep and the reroute |
| `inbound`, `reports` | HTTP requests on their way |
| `local` | what a cluster knows of a job |

The handlers and the watch loop share one event loop: between two awaits a handler runs
alone among them (`LoopFree`).  The sweep, the reroute and `apply_heartbeat` run in worker
threads and interleave with everything at each call of the registry.  A push can be lost,
time out and arrive all the same; reports can be lost or late; a heartbeat can be late at
any time, so a sweep may find any cluster stale (`MaxSweeps` bounds how often).  URLs
are distinct, signatures valid, a job id is submitted once, and scores only order
clusters.  `delete_cluster` and `revive_cluster_if_heartbeat` are never called.

| run | instance | shows |
| --- | --- | --- |
| `failover` | one job, two clusters, two sweeps, one restart | `TypeOK`, `RoutedIsDelivered`, `HoldersArePaidFor`, `FailoverIsComplete` |
| `failover_path` | one job, two clusters, one sweep | violated: a migrated job no cluster knows and nobody pushes |

Two sweeps let a job be moved to a second cluster and back, and a sweep find what an
earlier failover moved; two clusters can be offline together, so a reroute may find none.
Jobs share only the loop and the counter, and the theorems are for any number of them.

Theorems (`FederationProofs`), for any sets of jobs and clusters and any bounds:

* `TypeCorrect`: `TypeOK`.
* `RoutedJobsAreDelivered`: `RoutedIsDelivered`, strengthened by `RoutedInv`: while the submit
  handler is pushing, the assigned cluster is the one it pushes to.
* `FailoverTakesAll`: `FailoverIsComplete`, strengthened by `FailoverInv`: candidates of a
  reroute stay online while it lasts, and a migrated job on an offline cluster is still
  to be taken over by this sweep.
* `NoUncountedCopies`: `HoldersArePaidFor`, strengthened by `PaidInv`: pushes not yet sent are
  in the account, except the one whose reroute is saved and not yet counted.  The restart
  drops that push, which is why the account holds across restarts.

What a restart of the controller leaves behind, beyond these: a job saved as routed whose
push was never sent, and the jobs of a cluster marked offline before its reroute (later
sweeps skip offline clusters).  `RoutedIsDelivered` and `FailoverIsComplete` are stated for
runs without a restart for that reason.  A global job saved as queued is not routed again by
any code.

## Gossip

`Gossip` is a mesh of clusters with their peer registries and gossip loops.

| TLA+ | code |
| --- | --- |
| `peers[c][d]` | the row of cluster d in the registry of c, with the ages of `version` and `last_seen` |
| `round`, `snap`, `push` | the coroutine `GossipService.run`: in `_tick_once`, its snapshot, where each `_push_to_peer` is |
| `read` | the record `update_latency_hint` has fetched and not yet written back |
| `sent` | POSTs `/mesh/gossip` on their way |
| `up`, `downFor`, `stops` | which clusters run, and for how long the others have been down |
| `net`, `side` | the network, whole or split in two |

| action | code |
| --- | --- |
| `Expire`, `Pick` | `_tick_once`: `expire_stale` and the snapshot; then the choice of peers or seeds |
| `Push`, `PushFails`, `HintRead`, `HintWrite` | `_push_to_peer` up to its POST, its failure, and the two lock sections of `update_latency_hint` |
| `Receive` | `handle_incoming` with `merge_state`, and the answer |
| `Start`, `Stop` | `maybe_start_mesh`; the process ends |
| `Split`, `Heal`, `Time` | the network and the clock (external) |

The mesh thread runs the loop, the server's thread merges what arrives, and they meet only
at the registry's lock.  `version` is the second at which a snapshot was built and
`last_seen` the time of a contact, so both grow forever; the model keeps their ages, which
are bounded because every registry is swept once per unit of time.  Clocks agree.  A
registry is modelled without its own cluster's row, which no push or route uses.  Loads,
health, latencies and hop counts are left out.  Two freedoms only add behaviours: pushes
to seeds run together, and an answer to a push of an earlier life of the same cluster
may count.

| run | instance | shows |
| --- | --- | --- |
| `gossip` | three clusters that know each other as seeds, fan-out 1, one stop, one partition | `GossipTypeOK`, `HonestRecords`, `DeadIsSwept` |
| `partition` | three clusters with one seed, no stops, one partition | violated: after the partition the sides never meet again |

Three clusters let a third relay what it knows of a stopped one to a second.  A TTL of one
unit and one message at a time still let a record expire between any two steps of a
round.  `Timeout = 0` in the runs: a round ends within its unit of time, and messages die
with it; late messages and hints are covered by the theorems, which hold for any `Timeout`,
with losses.

Theorems (`GossipProofs`), for any clusters, seeds, fan-out, TTL, timeout, and faults:

* `GossipTypeCorrect`: `GossipTypeOK`.  Needs `OneHint`: the mesh thread is in one latency hint
  at a time, so the record read is still there when it is written.
* `DeadStayDead`: `HonestRecords`.  Strengthened by `HonestParts`: a push was answered no
  earlier than its round began (`AnswerFresh`), a snapshot was taken by a cluster that
  ran (`SenderFresh`), and a round lasts no longer than its pushes (`RoundTimed`).  Without
  them a late hint could write "seen now" for a cluster that stopped long ago.
* `DeadAreForgotten`: the action property `DeadIsSwept`, from the same invariant.

Only safety: whether live clusters come to know each other depends on random choices.

## Coordination: leaders, replication, edge, regions, gateway, agents

Seven components that run for ever.  They share no state in the code, and each stays a module
of its own; `MCCoordination` checks all of them in one run.  Its variable `part` says which
component a behaviour is one of, and the state of the others stays initial: the states of the
run are those of the seven, one after the other, never their product.

| module | code | a step is |
| --- | --- | --- |
| `Leadership` | `coordinator.py`, `consensus/raft_adapter.py` | a query for the advisory lock, the copy of its answer to the flag, the release; the server's and pysyncobj's steps are external |
| `GlobalElection` | `global_control/consensus.py` | a tick of a node, a heartbeat received; both under the node's lock.  Leases count down |
| `StateReplication` | `global_state.py`, `global_control/replication.py` | `put`, `enqueue_change`, taking the pending changes, `on_sync` that raises before or after it has worked, and the other region's get and put of each change |
| `EdgeRuntime` | `edge/edge_runtime.py` | each store of a result in memory, database and outbox; each step of the sync thread |
| `Regions` | `regions/*.py`, `routing/smart_failover.py` | the read and the whole-row write of heartbeats, status changes and the two monitors |
| `Gateway` | `gateway/*.py`, `billing/*.py`, `identity/api_tokens.py` | each call of Redis or the database of a request |
| `ClusterAgent` | `cluster_client/cluster_agent.py`, `federation/heartbeat.py` | a registration, a heartbeat, the sweep's list and each of its writes |

What the run `coordination` shows:

* `LeadersAreBacked`: a plane that says it leads over an open session holds the lock; a follower
  trusts a leader no longer than the leader's own lease lasts.
* `OneLeaderInTheEnd`, `LeaderAndClustersReturn`: once faults end one plane leads for good; global
  control has a leader again and again; a cluster whose control plane lives is online
  again, whatever sweep overwrote its heartbeat.
* `NoChangeIsLost`, `EverythingArrives`: what is written in one region reaches the other in order,
  and what the edge put in its outbox reaches upstream, where the objects have an `on_sync`.
* `SyncedWasHanded`: with an `on_sync`, no outbox row is marked synced before it was handed over.
* `RemovedStaysRemoved`, `SilentIsLeft`: late writes bring no removed region back, and a region
  that has fallen silent stops serving for good.
* `InflightIsExact`, `LimitClears`: the count of requests in flight is exact while Redis answers,
  and a wrong count left by a failed call does not lock an organisation out.

`on_sync` is optional, and `onSync` and `callback` are either from the start.  Without one
`StateReplicator._sync_tick` takes the pending changes and drops them (`SyncTake`), and
`EdgeRuntime._flush_outbox` marks rows as synced that it handed to nobody (`HandOver`,
`MarkSynced`): that is what `global_control_plane.py` gets, which builds its replicator without a
callback, and no other code of the repository passes one to a replicator.  The three
properties say nothing of such objects, since there what they promise is not the case; their
types and their loops are checked all the same.

Bounds.  Two planes, nodes, regions, callers and clusters, as each hazard is between two.
Faults are capped (`MaxLdFaults`, `MaxNodeStops`, `MaxSrFaults`, `MaxEdgeFaults`, `MaxGwFaults`,
`MaxOutages`): two, so that a second one meets the repair of the first; one for the gateway, as
a second failed call adds to what the first left.  Three writes: one on its way, one pending
behind it, one being enqueued.  Three edge results over two keys: the third replaces the
first.  Limits are 1, so that two callers exceed them.

Fairness.  Each is of a loop or of a call that has begun: the leadership thread polls, the node
thread ticks, the replicator's and the sync thread run, a request goes on to its `finally`,
the health monitor lists and checks, the agent's loop beats.  An operator starts stopped
planes and nodes, reconnects the edge and brings the federation back (`Build`, `StartNode`,
`SetConnected(TRUE)`, `StartSync`, `BackAgain`): without that nothing recovers.  The server
notices a broken session, the raft library elects, time passes.  Redis expires the key of
requests in flight only if nobody counts it up for 300 s; fairness of `KeyExpires` is asked
for just while the limit is reached, when nobody is let in to do so.  Nothing is owed by
messages (`ReceiveHeartbeat`), writers that have not begun, votes or operators' drains.

## Services: safety of the other managers

Twenty-two components, checked in one run `services` through `MCServices` in the same way.

| module | code | what it is about |
| --- | --- | --- |
| `MeshJobs` | `control_plane/mesh_routes.py`, `distributed_queue/*.py`, `mesh/mesh_router.py` | a forward awaits the receiver, which may stop between three databases |
| `Leases` | `consensus/distributed_lock.py`, `election.py`, `global_control/consensus.py` | the clock is read before the lock, the row after it |
| `DecisionEngine`, `ConsensusMesh` | `coordination/*.py` | votes in any order, also after the decision; two proposals with one id; terms, leaders, members that register again in any state, failures of all members |
| `Policies` | `coordination/adaptive_policies.py` | threads evaluate a copied list while policies come and go |
| `PeerReplication` | `replication/state_replication.py` | the flush walks the very list of peers that others change without a lock; `send_fn` may be missing |
| `Caches` | `cache_replication.py`, `edge_cache.py` | eviction of the entry that is being replaced; totals |
| `EdgeScheduler`, `RuntimeQueue`, `ShardedRuns` | `edge_scheduler.py`, `runtime/*.py` | ids submitted twice, in tables, queues and counters; nodes that register again with another capacity |
| `Repairs`, `Recovery`, `ContinentFailover` | `repair/*.py`, `continental_failover.py` | several callers take pending records whose ids may coincide |
| `Migrations`, `AdaptiveScaling`, `Overlay` | `dynamic_routing.py`, `adaptive_scaling.py`, `overlay_network.py` | limits tested in one section and used in another; a status written, and a clock read, between sections |
| `Zones`, `ModelReplicas` | `infrastructure_zones.py`, `model_replication.py` | late telemetry and late copies; replica records as callers give them |
| `ComputeFabric` | `fabric/compute_fabric.py` | a drain's list against moves meanwhile |
| `FabricGraph`, `Topology` | `infrastructure_graph.py`, `topology_manager.py` | two Dijkstra searches, checked against the definition of a shortest path over all paths |
| `Placement` | `routing/*.py`, `placement_engine.py`, `geo_routing.py`, `planetary_scheduler.py` | four routers, the geographic one included, with their filters and exclusions, and the scheduler's filter, checked against what a best region is |

Its properties name the component they speak of (`part = ... =>`) where several answer one
question: `MeshJobsAreKept`, `LeaseExclusive`, `DecisionsAreEarned`, `CheckpointIsNewest`, `CacheAccounts`,
`WorkIsAccountedFor`, `FailuresAreHandled`, `LimitsHold`, `LateDataStaysInBounds`, `PathsAreShortest`,
`RoutersFindTheBest`, and the refinement `VotesAgree`.  Each is commented at its definition.

Some are weaker than a reader of the code may expect, because the code is:

* `LimitsHold` bounds migrations by the limit except for those that share an id, and counts a
  completed one late: `execute_migration` writes the status without the lock and pops and
  counts under it (`WriteCompleted`, `Migrated`), so `metrics()` may see the one without the
  other.  A resource may be scaled in one cooldown once by each caller for each entry of the
  telemetry that names it: `evaluate` calls every region without an id "unknown", so one
  evaluation may put two actions on one key (`KeyOf`).
* `WorkIsAccountedFor` bounds the load of an edge node by the largest capacity it has had
  since it last left: `register_node` takes a smaller capacity and keeps the load.
* `DecisionsAreEarned` allows, beside the elected leader, members that were registered in
  state leader: `register_node` keeps the state of the object it is given (`claims`).
* `CheckpointIsNewest` is about replicators with a `send_fn`; without one `_send_to_peer` returns
  True and the checkpoint moves though nothing was sent (`SendBatch`).  As `add_peer` has no
  lock (`FindNoPeer`, `AddPeer`), a peer may be listed twice and get each batch twice.
* `LateDataStaysInBounds` allows a telemetry report to make a zone that an operator drained or
  isolated a target again by marking it degraded, past a majority of offline regions; and
  the frequency of a replica is bounded by the accesses and the frequency of the records
  callers added, which may be in any state (`Given`; `tests/multi_region_sim.py` adds
  completed ones).
* `RoutersFindTheBest` has each router answer None when the request's filter or its exclusions
  leave no serving region (`Candidates`, `PlaceCandidates`, `LatencyRoute`, `RegionRoute`,
  `NearestRoute`).  The distance of `geo_routing.py` is a constant of each region.
* `LeaseExclusive` is for the callers of one process, since two processes can both find the row
  expired and write it.

**Refinement.**  `Agreement` says what a vote promises: a question is opened once with the
support it needs, is accepted at the moment it has it, is refused or closed only while it has
not, and an outcome is never taken back.  `DecisionEngine` maps status and votes of a proposal
to it (`EngineAgrees`, with `INSTANCE Agreement WITH`), `ConsensusMesh` the ballot of a round
(`RoundsAgree`); both are checked as properties of the run and proved.

Bounds.  Two callers of everything that overlaps; two or three records, of which two share an
id where the code lets them; limits of 1 (2 where an eviction must choose, where two migrations
must run at once, and for the triggers of a policy, so that two evaluators can both trigger it); `MaxSubmits`,
`MaxPuts`, `MaxMigrations` and the like leave room for a record to be replaced and the newer one to
be worked on.  The graphs have three and four nodes with four and five wires and links that
are good, slow or down, so that the shortest path may have one, two or three links, and links
in one direction or both.  `Offer` in `Placement` holds a row for each branch of the scores:
active, degraded, draining, offline, saturated, far, without GPU, small and large of capacity and
VRAM; `Ask` one request for each filter; two accesses of a replica, so that they overlap.

`CHECK_DEADLOCK FALSE` in both runs: bounded components come to rest.

## Theorems about the components

All are for any values of the constants, under the assumptions named in the modules.  Those
of `ServicesProofs` and `AgreementProofs` are about `Spec` of `MCServices`, `CoordinationTypeCorrect` and
`LeadersStayBacked` about that of `MCCoordination`; the others about the specification of their
module, of which a behaviour of the composed run is one.

### Services

`ServicesInv` is the conjunction of the inductive invariants of the twenty-two components; it holds
whatever `part` is, since the state of a component that does not run stays initial, and
`ServicesStep` splits a step of `MCServices` into a step or a stutter of each.

* `ServicesTypeCorrect`: `ServicesTypeOK`.
* `MeshKeepsItsJobs`: `MeshJobsAreKept`.  `MjInv` adds that one reception at a time is under way at a cluster
  past its duplicate check, that an answer "taken" on its way is right, that the log lacks the
  event a reception will end with, and that a logged job is stored.
* `CachesAccount`: `CacheAccounts`.  The total is the sum over the list, and every operation is a
  selection, an append or a move to the end; `InBounds` says of one list what the property says.
* `WorkStaysAccountedFor`: `WorkIsAccountedFor`, from five invariants.  `EsInv`: what nodes are charged for
  and what is queued was submitted, and the load is within the largest capacity.  `RqInv` is the property with the types.  `ShInv`: reports are
  at least the finished shards, and of an open run fewer than its shards.  `PoInv`: a thread
  that judges nothing carries no result.  `CpInv`: neither the counter of finished workloads
  nor a copy that a client has read passes what was submitted and is not active, being
  submitted or still to be counted.
* `LimitsStayHeld`: `LimitsHold`.  `MiInv`: plans of different callers are apart and uncompleted, the
  table names migrations under way, and the counter is the number of the completed ones that
  nobody is executing any more.  `AsInv`: the actions that callers hold for a resource and
  the scalings of its cooldown are together no more than the pairs of a caller and an entry
  that names it, and no caller holds two for one entry.  `OvInv`: the pool is
  ordered by idleness and holds every live connection.
* `FailuresStayHandled`: `FailuresAreHandled`.  `ReInv`: a request found twice waits in one batch only, once,
  and no two callers have it in hand.  `RcInv`: a caller that saw the limit reached goes on to
  escalate, and while it has not, it makes room for one more retry of the entry.  `CfInv`: an
  outage set back to isolating is in somebody's hands, and one never taken up is listed or has
  a twin; failovers are at least the outages recovered and let go.
* `RoutersAlwaysFindTheBest`: `RoutersFindTheBest`.  Scores are sums of terms each of which grows with what is
  better, and the cascade of filters computes the greatest merit because each test, where it
  can be met at all, outweighs the later ones.
* `PathsStayShortest`: `PathsAreShortest`.  Its first part is inductive: adjacency is symmetric, which is why
  `remove_node` finds all links of a node through its neighbours.  The searches run within
  one step, so their invariant is one of the loop: `SearchInv` of `DataLemmas` says that visited nodes are
  no further than the others, that their links have been followed, and that each reached node has a
  path of that length along `prev`, with only visited nodes before it.  `SearchVisits` keeps it for any
  nearest node; `NoPathIsShorter` draws the optimum from it at whichever of the loop's conditions
  ends it; `BackFollows` is that the way back along `prev` is that path.  The heap of the
  topology adds `HeapInv` (each reached region that is not visited has an entry with its distance,
  all others are stale and no nearer) and the measure `TurnsLeft`, entries and edges that are left, by
  which the bound on the turns suffices.
* `CheckpointsAreNewest`: `CheckpointIsNewest`, for replicators with a `send_fn`.  `QueueInOrder` keeps the queue, the
  batch and what a peer has in one rising order; `BatchIsNext` is that the batch is new to a
  peer or is what it received last, which is what a peer that is listed twice, or removed and
  added under the flush, can come to.
* `LateDataIsBounded`: the action properties of `LateDataStaysInBounds`, with the offline majority stated
  over the report (`Down`, `Up`); `MrInv` bounds the frequency in every row and copy on its
  way by what the region's records were added with and its accesses.
* `LeasesAreExclusive`: `LeaseExclusive`, with `LeaseTypeCorrect`.  Exclusion alone is not
  inductive: `LeaseInv` adds that one caller is between its SELECT and its write (the RLock),
  that it found the row free, expired or its own, that one about to delete the row has given
  up its lease, and that the owner of a live lease finds the row under its name.
* `VotersImplementAgreement` (`AgreementProofs`): the refinement `VotesAgree`, for any proposals, ids,
  quorum, members and rounds.  The initial states map to `AgInit`, and each action to a step or
  a stutter, from `DeInv` (what the votes of an object say about its status, and which
  objects the table holds) and `CmInv` (a pending round has neither quorum).
* `DecisionsStayEarned` (`AgreementProofs`): `DecisionsAreEarned`, from the same invariants; `MembersInv` is
  that the leader is a member and none else is in state leader, but for those that registered so.

### Coordination

* `CoordinationTypeCorrect`: `CoordinationTypeOK`, from `CoordinationInv`.  Its content is the gateway's meter: what a
  minute was charged, plus the requests that have passed the check and are still to be charged,
  stays within the quota plus the callers.
* `MarkedRowsWereHanded`: `SyncedWasHanded`, for runtimes with an `on_sync`; `SyncInv` adds that a batch counts as
  handed over only while its flush lasts.
* `LateWritesRestoreNothing`: the action property `RemovedStaysRemoved`.
* `InflightCountsRequests`: `InflightIsExact`, with the types; the cardinality grows and shrinks by
  one with each request that enters and leaves.
* `NoWriteIsLost`: `NoChangeIsLost`, for replicators with an `on_sync`.  `SimpleInv` numbers the changes on their way one after the
  other from a version up to which the other region has all, and adds that while a batch is
  applied its changes before the next one are applied too.  After a failed call the region
  sees some changes twice, and their versions tell.
* `LeadersStayBacked`: `LeadersAreBacked`.  `LockInv` adds where the thread of a plane is:
  an answer that grants the lock came over a session not closed since, and a plane about to
  ask without a session has lowered its flag.  `BeatsWithin` adds that a heartbeat on its way
  carries no longer lease than its sender has, for as long as that leads.

### How data is reasoned about

The library's induction theorems take an operator as a parameter, which the installed
provers cannot instantiate.  `DataLemmas` states induction over the subsets of a finite set, over
numbers and over sequences with the *set* of good cases in place of the predicate
(`SubsetInduction`, `ElementInduction`, `NumberInduction`, `SequenceInduction`): membership of a set is first-order.
From it follow that a `SumFunctionOnSet` takes an element out, changes at one index and grows with its
terms; that a `Selection` embeds in its list, keeps its order and has what was selected; that
`Extended` keeps the list and has everything once; that `StablySorted` is a permutation in order; that a
loop with a measure has a run and ends (`LoopEnds`), and what a search for a shortest path knows
in each round.

### Assumptions

Besides the finiteness of sets of callers and the ranges of bounds: a sentinel is none of
the values it stands apart from (`NoLink`, `NoObject`, `Idle` and the other names of nothing, which stand for
`None` and an id nobody uses); the latency of a link is no negative number; `Offer` has
an active row, which is what a region registers with.

Proving changed three things that bounded runs had not shown to be wrong.  The bound on retries
in `NoFailureForgotten` was one too low for `max_retries = 0`: `retry` counts before it compares, so the
first retry counts even then.  `RetryLimit` is 2 in the run.  `Policies` and `FabricGraph` needed their sentinels
kept apart from the ids.

### Model-checked only

Liveness (`EventuallySettled`, `OneLeaderInTheEnd`, `LeaderAndClustersReturn`, `EverythingArrives`, `SilentIsLeft`, `LimitClears`):
the provers have no rules for fairness and `ENABLED`.

## Findings

Four statements of the repository's README and one of a docstring do not hold of the
code; each is the property of a violation run, and PROJECT.json quotes the line: the limit of three attempts
(`retry_limit`), the restart-safe queue (`restart_safe_queue`), the re-queueing of jobs of
failed nodes (`failed_nodes`), the failover push "same path as routing" (`failover_path`), and the
merging of peers after a partition (`partition`).

## Not modelled

* Code that nothing calls: `try_claim` and `reconcile_orphan` of the replicated queue, `plan_pull` of the
  anti-entropy, `mesh_failover.py`, `delayed_jobs.py`, `offline_sync.py`, `delete_cluster` and
  `revive_cluster_if_heartbeat`.  The healing actions that `auto_healing.py` queues are executed by no code either.
* What the code does once and never looks at again, so that there is nothing to check: an agent
  whose node was removed keeps sending heartbeats that are answered 404; a completion report
  that is lost is not repeated; a global job saved as queued is not routed again; `forward_job`
  leaves the job in the sender's queue, and both clusters run it.
* Two threads that save one job at the same moment (`attempts += 1` and the save are one step),
  and a client that submits the id of a known job again to the control plane.
* The PostgreSQL path of the cluster memory; SQLite's own errors.
* Scores over floats (`intelligence/`, `prediction/`, `learning/`, `optimization/`, `efficiency/`), which only rank, and
  the autoscaler, which keeps nothing between calls.
* Inference, models, GPUs and containers: calls to engines and tools outside the repository.
* Telemetry, dashboards, notifications, simulation and the repository's tests: they read.

## What could come next

An abstract job service that `ControlPlane` without restarts implements; `ControlPlane` under a
leader flag that `Leadership` may hold stale; the safety parts of the liveness properties (the ranking
that each step of a retry, a sync or an election lowers) as invariants of their own.
