---------------------------- MODULE ControlPlane ----------------------------
(***************************************************************************)
(* One control plane of the cluster (control_plane/app.py, memory.py,      *)
(* nodes.py, health.py and storage/job_queue.py) with the node agents it   *)
(* dispatches to (node/agent.py).                                          *)
(*                                                                         *)
(* Threads.  The handlers of app.py are plain functions, which FastAPI     *)
(* runs on a thread pool (Handler); the scheduler loop (Loop) and the      *)
(* health loop are threads of their own.  No lock covers a job, the queue  *)
(* or a pass of the scheduler.  A thread can be suspended at every SQLite  *)
(* commit, every HTTP call, and between a test in one function and the     *)
(* function it guards: these are the boundaries of the actions.  The field *)
(* assignments of one helper (mark_running, mark_finished,                 *)
(* requeue_or_fail) and the save that ends them are one action.            *)
(*                                                                         *)
(* Objects.  memory.nodes maps a node id to a NodeState object, and a pass *)
(* keeps the objects it selected.  After the health loop removes a node    *)
(* and the node registers again, the pass holds another object than the    *)
(* registry: an object is therefore a pair <<node, generation>>.           *)
(*                                                                         *)
(* Time.  now - last_seen > 15 can become true of any node at any moment,  *)
(* heartbeats being lost or late: HealthDetect may pick any node.  Scores  *)
(* and loads only order the candidates of a pass, so a pass may select     *)
(* any eligible nodes, and dispatch to them in any order.                  *)
(***************************************************************************)
EXTENDS Naturals, Sequences, FiniteSets, FiniteSetsExt

CONSTANTS
    Job,          \* ids of the jobs clients may submit, each one once
    Node,         \* ids of the node agents
    Handler,      \* request threads of the control plane
    Loop,         \* the scheduler-loop thread
    Need,         \* required_nodes of each job
    Capable,      \* the nodes that satisfy gpu_required of each job
    MaxRetries,   \* MAX_JOB_RETRIES
    MaxGen,       \* bound: how often a node may be registered afresh
    MaxRestarts,  \* bound: restarts of the control-plane process
    MaxDeaths,    \* bound: how often the health loop finds a node dead
    Faults,       \* the faults of this instance, a subset of FaultKinds
    NoJob, NoObject

FaultKinds == {"refuse", "timeout", "lostResult", "agentCrash"}

Thread == Handler \cup {Loop}
Object == Node \X (1 .. MaxGen)

ASSUME ThreadAssumption == IsFiniteSet(Handler) /\ Loop \notin Handler
ASSUME BoundAssumption == /\ MaxRetries \in Nat \ {0}
                          /\ MaxGen \in Nat /\ MaxRestarts \in Nat /\ MaxDeaths \in Nat
ASSUME JobAssumption == /\ Need \in [Job -> Nat \ {0}]
                        /\ Capable \in [Job -> SUBSET Node]
                        /\ NoJob \notin Job
ASSUME NodeAssumption == IsFiniteSet(Node) /\ NoObject \notin Object
ASSUME FaultAssumption == Faults \subseteq FaultKinds

VARIABLES
    status,    \* memory.jobs[j].status, "none" when j is not in memory.jobs
    attempts,  \* memory.jobs[j].attempts
    assigned,  \* memory.jobs[j].assigned_nodes
    queue,     \* memory.queue
    reg,       \* memory.nodes: the generation of the object of a node, 0 if absent
    born,      \* how many objects were created for a node
    healthy,   \* NodeState.healthy of each object
    running,   \* NodeState.running_jobs of each object: how often it lists a job
    pc,        \* where each thread is
    held,      \* the job each thread works on
    todo,      \* candidates the pass of a thread has still to dispatch to
    call,      \* the object a thread awaits the /run_job answer of
    got,       \* "assigned" of the pass of a thread
    hpc, hobj, hjobs, hjob,  \* the health loop: place, node, job ids left, job
    deaths,    \* how many nodes it has found dead
    accepted,  \* agents: run_job threads started, not yet in STATE["running_jobs"]
    executing, \* agents: executions in progress, listed in STATE["running_jobs"]
    posted,    \* agents: results posted, the job still in STATE["running_jobs"]
    restarts

jobVars    == <<status, attempts, assigned>>
nodeVars   == <<reg, born, healthy, running>>
passVars   == <<todo, call, got>>
threadVars == <<pc, held, passVars>>
healthVars == <<hpc, hobj, hjobs, hjob, deaths>>
agentVars  == <<accepted, executing, posted>>
vars == <<jobVars, queue, nodeVars, threadVars, healthVars, agentVars, restarts>>

Status == {"none", "queued", "running", "completed", "failed"}
PC == {"idle", "tick",                                     \* between passes
       "popped", "selected", "dispatching", "calling",     \* in schedule_once
       "requeue", "ensure", "append",                      \* its requeue_or_fail
       "finished", "booked",                               \* in job_result
       "retry", "retryEnsure", "retryAppend"}              \* its requeue_or_fail

NoJobs == [j \in Job |-> 0]

JobTypeOK ==
    /\ status \in [Job -> Status]
    /\ attempts \in [Job -> Nat]
    /\ assigned \in [Job -> SUBSET Node]
    /\ queue \in Seq(Job)

NodeTypeOK ==
    /\ reg \in [Node -> 0 .. MaxGen]
    /\ born \in [Node -> 0 .. MaxGen]
    /\ healthy \in [Object -> BOOLEAN]
    /\ running \in [Object -> [Job -> Nat]]

ThreadTypeOK ==
    /\ pc \in [Thread -> PC]
    /\ held \in [Thread -> Job \cup {NoJob}]
    /\ todo \in [Thread -> SUBSET Object]
    /\ call \in [Thread -> Object \cup {NoObject}]
    /\ got \in [Thread -> SUBSET Node]
    /\ \A t \in Thread : pc[t] \notin {"idle", "tick"} => held[t] \in Job
    /\ \A t \in Thread : pc[t] = "calling" => call[t] \in Object

HealthTypeOK ==
    /\ hpc \in {"idle", "dead", "listed", "requeue", "ensure", "append"}
    /\ hobj \in Object \cup {NoObject}
    /\ hjobs \in [Job -> Nat]
    /\ hjob \in Job \cup {NoJob}
    /\ deaths \in 0 .. MaxDeaths
    /\ hpc # "idle" => hobj \in Object
    /\ hpc \in {"ensure", "append"} => hjob \in Job

AgentTypeOK ==
    /\ accepted \in [Node -> [Job -> Nat]]
    /\ executing \in [Node -> [Job -> Nat]]
    /\ posted \in [Node -> [Job -> Nat]]

TypeOK ==
    /\ JobTypeOK /\ NodeTypeOK /\ ThreadTypeOK /\ HealthTypeOK /\ AgentTypeOK
    /\ restarts \in 0 .. MaxRestarts

Init ==
    /\ status = [j \in Job |-> "none"]
    /\ attempts = NoJobs
    /\ assigned = [j \in Job |-> {}]
    /\ queue = << >>
    /\ reg = [n \in Node |-> 0]
    /\ born = [n \in Node |-> 0]
    /\ healthy = [o \in Object |-> TRUE]
    /\ running = [o \in Object |-> NoJobs]
    /\ pc = [t \in Thread |-> "idle"]
    /\ held = [t \in Thread |-> NoJob]
    /\ todo = [t \in Thread |-> {}]
    /\ call = [t \in Thread |-> NoObject]
    /\ got = [t \in Thread |-> {}]
    /\ hpc = "idle" /\ hobj = NoObject /\ hjobs = NoJobs /\ hjob = NoJob
    /\ deaths = 0
    /\ accepted = [n \in Node |-> NoJobs]
    /\ executing = [n \in Node |-> NoJobs]
    /\ posted = [n \in Node |-> NoJobs]
    /\ restarts = 0

-----------------------------------------------------------------------------
(* Operations of ClusterMemory and job_queue the handlers are built from. *)

Queued(j) == \E i \in DOMAIN queue : queue[i] = j

\* Mutant of NotListed: the membership test is dropped.
ListedOrNot(j) == TRUE

\* ensure_job_queued is two steps: no lock covers the test of its condition, this
\* operator, and its append.  The save of the queue belongs to the append.
NotListed(j) == ~ Queued(j)

\* enqueue_job of a new id.  Nobody else holds the id yet, so that nothing can
\* come between the test and the append.
EnqueueJob(j) ==
    /\ status' = [status EXCEPT ![j] = "queued"]
    /\ queue' = IF NotListed(j) THEN Append(queue, j) ELSE queue

\* Mutant of Exhausted: > for >=.
ExhaustedTooLate(j) == attempts[j] > MaxRetries

Exhausted(j) == attempts[j] >= MaxRetries

\* requeue_or_fail up to its log_job; ensure_job_queued follows as a step of
\* its own unless the job is exhausted.
RequeueOrFail(j) ==
    status' = [status EXCEPT ![j] = IF Exhausted(j) THEN "failed" ELSE "queued"]

\* add_node(o): an object of an absent node becomes the registry's; otherwise
\* the registered object is marked healthy and o itself is not stored.
AddNode(o) ==
    IF reg[o[1]] = 0
    THEN reg' = [reg EXCEPT ![o[1]] = o[2]] /\ UNCHANGED healthy
    ELSE healthy' = [healthy EXCEPT ![<<o[1], reg[o[1]]>>] = TRUE] /\ UNCHANGED reg

Registered(n) == reg[n] # 0
Current(n) == <<n, reg[n]>>

Goto(t, l) == pc' = [pc EXCEPT ![t] = l]

\* A thread leaves schedule_once or requeue_or_fail for label l, forgetting
\* the local variables of the pass.
Leave(t, l) ==
    /\ Goto(t, l)
    /\ held' = [held EXCEPT ![t] = NoJob]
    /\ todo' = [todo EXCEPT ![t] = {}]
    /\ call' = [call EXCEPT ![t] = NoObject]
    /\ got' = [got EXCEPT ![t] = {}]

-----------------------------------------------------------------------------
(* schedule_once *)

\* pop_next_job.  The scheduler loop and /reschedule begin a pass when idle,
\* submit_job and job_result end with one.
BeginPass(t) ==
    /\ pc[t] \in {"idle", "tick"}
    /\ IF queue = << >>
       THEN pc[t] = "tick" /\ Goto(t, "idle") /\ UNCHANGED <<held, queue>>
       ELSE /\ held' = [held EXCEPT ![t] = Head(queue)]
            /\ queue' = Tail(queue)
            /\ Goto(t, "popped")
    /\ UNCHANGED <<jobVars, nodeVars, passVars, healthVars, agentVars, restarts>>

Candidates(j) ==
    {Current(n) : n \in {m \in Capable[j] : Registered(m) /\ healthy[Current(m)]}}

\* The checks of the popped job and select_nodes.
Select(t) ==
    LET j == held[t] IN
    /\ pc[t] = "popped"
    /\ \/ /\ status[j] \in {"completed", "failed"}
          /\ Leave(t, "idle")
          /\ UNCHANGED status
       \/ /\ status[j] \notin {"completed", "failed"}
          /\ Exhausted(j)
          /\ status' = [status EXCEPT ![j] = "failed"]
          /\ Leave(t, "idle")
       \/ /\ status[j] \notin {"completed", "failed"}
          /\ ~ Exhausted(j)
          /\ \/ /\ Cardinality(Candidates(j)) < Need[j]
                /\ Goto(t, "requeue")
                /\ UNCHANGED todo
             \/ \E chosen \in SUBSET Candidates(j) :
                   /\ Cardinality(chosen) = Need[j]
                   /\ todo' = [todo EXCEPT ![t] = chosen]
                   /\ Goto(t, "selected")
          /\ UNCHANGED <<status, held, call, got>>
    /\ UNCHANGED <<attempts, assigned, queue, nodeVars, healthVars, agentVars, restarts>>

MarkRunning(t) ==
    LET j == held[t] IN
    /\ pc[t] = "selected"
    /\ status' = [status EXCEPT ![j] = "running"]
    /\ attempts' = [attempts EXCEPT ![j] = @ + 1]
    /\ Goto(t, "dispatching")
    /\ UNCHANGED <<assigned, queue, nodeVars, held, passVars, healthVars, agentVars, restarts>>

\* Mutant of DispatchSend: the answer's status is not checked, so a refusal
\* counts as an acceptance.
SendUnchecked(t, o) ==
    /\ pc[t] = "dispatching"
    /\ o \in todo[t]
    /\ todo' = [todo EXCEPT ![t] = @ \ {o}]
    /\ \/ /\ accepted' = [accepted EXCEPT ![o[1]][held[t]] = @ + 1]
          /\ call' = [call EXCEPT ![t] = o]
          /\ Goto(t, "calling")
          /\ UNCHANGED got
       \/ "refuse" \in Faults /\ got' = [got EXCEPT ![t] = @ \cup {o[1]}]
                              /\ UNCHANGED <<accepted, call, pc>>
    /\ UNCHANGED <<jobVars, queue, nodeVars, held, healthVars, executing, posted, restarts>>

\* Mutant of DispatchSend: a candidate that did not answer is tried again.
SendAgain(t, o) ==
    /\ pc[t] = "dispatching"
    /\ o \in todo[t] /\ o[1] \notin got[t]
    /\ accepted' = [accepted EXCEPT ![o[1]][held[t]] = @ + 1]
    /\ call' = [call EXCEPT ![t] = o]
    /\ Goto(t, "calling")
    /\ UNCHANGED <<jobVars, queue, nodeVars, held, todo, got, healthVars,
                   executing, posted, restarts>>

\* dispatch_job up to its POST /run_job: the agent starts an execution thread,
\* or the request never reaches it and the exception ends this candidate.
DispatchSend(t, o) ==
    /\ pc[t] = "dispatching"
    /\ o \in todo[t]
    /\ todo' = [todo EXCEPT ![t] = @ \ {o}]
    /\ \/ /\ accepted' = [accepted EXCEPT ![o[1]][held[t]] = @ + 1]
          /\ call' = [call EXCEPT ![t] = o]
          /\ Goto(t, "calling")
       \/ "refuse" \in Faults /\ UNCHANGED <<accepted, call, pc>>
    /\ UNCHANGED <<jobVars, queue, nodeVars, held, got, healthVars,
                   executing, posted, restarts>>

\* The rest of dispatch_job: the answer is recorded on the selected object, or
\* the POST times out although the agent accepted the job.
DispatchReply(t) ==
    LET o == call[t] IN
    /\ pc[t] = "calling"
    /\ \/ /\ running' = [running EXCEPT ![o][held[t]] = @ + 1]
          /\ AddNode(o)
          /\ got' = [got EXCEPT ![t] = @ \cup {o[1]}]
       \/ "timeout" \in Faults /\ UNCHANGED <<running, reg, healthy, got>>
    /\ call' = [call EXCEPT ![t] = NoObject]
    /\ Goto(t, "dispatching")
    /\ UNCHANGED <<jobVars, queue, born, held, todo, healthVars, agentVars, restarts>>

\* Mutant of EndDispatch: one acceptance is enough, whatever the job needs.
EndWithAny(t) ==
    /\ pc[t] = "dispatching"
    /\ todo[t] = {}
    /\ IF got[t] # {}
       THEN assigned' = [assigned EXCEPT ![held[t]] = got[t]] /\ Leave(t, "idle")
       ELSE Goto(t, "requeue") /\ UNCHANGED <<assigned, held, passVars>>
    /\ UNCHANGED <<status, attempts, queue, nodeVars, healthVars, agentVars, restarts>>

\* After the loop over the candidates: the assignment is saved, or the pass
\* gives the job back with "partial_dispatch_failure".
EndDispatch(t) ==
    LET j == held[t] IN
    /\ pc[t] = "dispatching"
    /\ todo[t] = {}
    /\ \/ /\ Cardinality(got[t]) >= Need[j]
          /\ assigned' = [assigned EXCEPT ![j] = got[t]]
          /\ Leave(t, "idle")
       \/ /\ Cardinality(got[t]) < Need[j]
          /\ Goto(t, "requeue")
          /\ UNCHANGED <<assigned, held, passVars>>
    /\ UNCHANGED <<status, attempts, queue, nodeVars, healthVars, agentVars, restarts>>

\* Mutant of PassRequeue: the status is written, the queue is not.
RequeueStatusOnly(t) ==
    /\ pc[t] = "requeue"
    /\ RequeueOrFail(held[t])
    /\ Leave(t, "idle")
    /\ UNCHANGED <<attempts, assigned, queue, nodeVars, healthVars, agentVars, restarts>>

PassRequeue(t) ==
    LET j == held[t] IN
    /\ pc[t] = "requeue"
    /\ RequeueOrFail(j)
    /\ IF Exhausted(j)
       THEN Leave(t, "idle")
       ELSE Goto(t, "ensure") /\ UNCHANGED <<held, passVars>>
    /\ UNCHANGED <<attempts, assigned, queue, nodeVars, healthVars, agentVars, restarts>>

PassEnsure(t) ==
    /\ pc[t] = "ensure"
    /\ IF NotListed(held[t])
       THEN Goto(t, "append") /\ UNCHANGED <<held, passVars>>
       ELSE Leave(t, "idle")
    /\ UNCHANGED <<jobVars, queue, nodeVars, healthVars, agentVars, restarts>>

PassAppend(t) ==
    /\ pc[t] = "append"
    /\ queue' = Append(queue, held[t])
    /\ Leave(t, "idle")
    /\ UNCHANGED <<jobVars, nodeVars, healthVars, agentVars, restarts>>

-----------------------------------------------------------------------------
(* Request handlers *)

\* submit_job of a new id: enqueue_job, then schedule_once.
SubmitJob(t, j) ==
    /\ t # Loop
    /\ pc[t] = "idle"
    /\ status[j] = "none"
    /\ EnqueueJob(j)
    /\ Goto(t, "tick")
    /\ UNCHANGED <<attempts, assigned, nodeVars, held, passVars, healthVars, agentVars, restarts>>

\* job_result up to mark_finished: agent n posts the result of an execution,
\* whatever the job's status is by then.  The add_node of the sender, later in
\* the handler, only marks it healthy and is taken here.
JobResult(t, n, j, ok) ==
    /\ t # Loop
    /\ pc[t] = "idle"
    /\ executing[n][j] > 0
    /\ executing' = [executing EXCEPT ![n][j] = @ - 1]
    /\ posted' = [posted EXCEPT ![n][j] = @ + 1]
    /\ status' = [status EXCEPT ![j] = IF ok THEN "completed" ELSE "failed"]
    /\ healthy' = IF Registered(n) THEN [healthy EXCEPT ![Current(n)] = TRUE] ELSE healthy
    /\ held' = [held EXCEPT ![t] = j]
    /\ Goto(t, "finished")
    /\ UNCHANGED <<attempts, assigned, queue, reg, born, running, passVars,
                   healthVars, accepted, restarts>>

\* Mutant of BookResult: the job is removed from running_jobs unconditionally.
BookUnchecked(t) ==
    LET j == held[t]
        done == {Current(n) : n \in {m \in assigned[j] : Registered(m)}} IN
    /\ pc[t] = "finished"
    /\ running' = [o \in Object |-> IF o \in done THEN [running[o] EXCEPT ![j] = @ - 1]
                                    ELSE running[o]]
    /\ healthy' = [o \in Object |-> o \in done \/ healthy[o]]
    /\ Goto(t, "booked")
    /\ UNCHANGED <<jobVars, queue, reg, born, held, passVars, healthVars, agentVars, restarts>>

\* job_result, the loop over job.assigned_nodes.
BookResult(t) ==
    LET j == held[t]
        done == {Current(n) : n \in {m \in assigned[j] : Registered(m)}} IN
    /\ pc[t] = "finished"
    /\ running' = [o \in Object |-> IF o \in done /\ running[o][j] > 0
                                    THEN [running[o] EXCEPT ![j] = @ - 1]
                                    ELSE running[o]]
    /\ healthy' = [o \in Object |-> o \in done \/ healthy[o]]
    /\ Goto(t, "booked")
    /\ UNCHANGED <<jobVars, queue, reg, born, held, passVars, healthVars, agentVars, restarts>>

\* Mutant of RetryResult: a failed result is final.
NeverRetry(t) ==
    /\ pc[t] = "booked"
    /\ Leave(t, "tick")
    /\ UNCHANGED <<jobVars, queue, nodeVars, healthVars, agentVars, restarts>>

\* job_result, the test of job.status after the federation callback.
RetryResult(t) ==
    /\ pc[t] = "booked"
    /\ IF status[held[t]] = "failed"
       THEN Goto(t, "retry") /\ UNCHANGED <<held, passVars>>
       ELSE Leave(t, "tick")
    /\ UNCHANGED <<jobVars, queue, nodeVars, healthVars, agentVars, restarts>>

RetryRequeue(t) ==
    LET j == held[t] IN
    /\ pc[t] = "retry"
    /\ RequeueOrFail(j)
    /\ IF Exhausted(j)
       THEN Leave(t, "tick")
       ELSE Goto(t, "retryEnsure") /\ UNCHANGED <<held, passVars>>
    /\ UNCHANGED <<attempts, assigned, queue, nodeVars, healthVars, agentVars, restarts>>

RetryEnsure(t) ==
    /\ pc[t] = "retryEnsure"
    /\ IF NotListed(held[t])
       THEN Goto(t, "retryAppend") /\ UNCHANGED <<held, passVars>>
       ELSE Leave(t, "tick")
    /\ UNCHANGED <<jobVars, queue, nodeVars, healthVars, agentVars, restarts>>

RetryAppend(t) ==
    /\ pc[t] = "retryAppend"
    /\ queue' = Append(queue, held[t])
    /\ Leave(t, "tick")
    /\ UNCHANGED <<jobVars, nodeVars, healthVars, agentVars, restarts>>

\* heartbeat: the registered object takes over the agent's list of jobs.
Heartbeat(n) ==
    /\ Registered(n)
    /\ running' = [running EXCEPT ![Current(n)] = [j \in Job |-> executing[n][j] + posted[n][j]]]
    /\ healthy' = [healthy EXCEPT ![Current(n)] = TRUE]
    /\ UNCHANGED <<jobVars, queue, reg, born, threadVars, healthVars, agentVars, restarts>>

\* heartbeat or job_result again, suspended between fetching the object of node n
\* and its add_node while the health loop removes the node: the object is back
\* in the registry, with the handler's changes made before or after the health
\* loop's.  Bound: the handler runs on before the loop is done with the node.
LateHeartbeat(n) ==
    /\ hpc \in {"requeue", "ensure", "append"}
    /\ hobj[1] = n
    /\ ~ Registered(n)
    /\ reg' = [reg EXCEPT ![n] = hobj[2]]
    /\ \/ /\ running' = [running EXCEPT ![hobj] = [j \in Job |-> executing[n][j] + posted[n][j]]]
          /\ healthy' = [healthy EXCEPT ![hobj] = TRUE]
       \/ UNCHANGED <<running, healthy>>
    /\ UNCHANGED <<jobVars, queue, born, threadVars, healthVars, agentVars, restarts>>

\* register_node: a new object if the node is absent, else add_node's update.
RegisterNode(n) ==
    /\ IF Registered(n)
       THEN /\ healthy' = [healthy EXCEPT ![Current(n)] = TRUE]
            /\ UNCHANGED <<reg, born>>
       ELSE /\ born[n] < MaxGen
            /\ born' = [born EXCEPT ![n] = @ + 1]
            /\ reg' = [reg EXCEPT ![n] = born'[n]]
            /\ UNCHANGED healthy
    /\ UNCHANGED <<jobVars, queue, running, threadVars, healthVars, agentVars, restarts>>

-----------------------------------------------------------------------------
(* The health loop: check_nodes_once and _requeue_jobs *)

HealthDetect(n) ==
    /\ hpc = "idle"
    /\ deaths < MaxDeaths
    /\ deaths' = deaths + 1
    /\ Registered(n)
    /\ hobj' = Current(n)
    /\ healthy' = [healthy EXCEPT ![Current(n)] = FALSE]
    /\ hpc' = "dead"
    /\ UNCHANGED <<jobVars, queue, reg, born, running, threadVars, hjobs, hjob, agentVars, restarts>>

\* failed_jobs = list(node.running_jobs)
HealthList ==
    /\ hpc = "dead"
    /\ hjobs' = running[hobj]
    /\ hpc' = "listed"
    /\ UNCHANGED <<jobVars, queue, nodeVars, threadVars, hobj, hjob, agentVars, deaths, restarts>>

HealthRemove ==
    /\ hpc = "listed"
    /\ reg' = [reg EXCEPT ![hobj[1]] = 0]
    /\ hpc' = "requeue"
    /\ UNCHANGED <<jobVars, queue, born, healthy, running, threadVars, hobj, hjobs, hjob,
                   agentVars, deaths, restarts>>

HealthRequeue(j) ==
    /\ hpc = "requeue"
    /\ hjobs[j] > 0
    /\ hjobs' = [hjobs EXCEPT ![j] = @ - 1]
    /\ RequeueOrFail(j)
    /\ IF Exhausted(j) THEN UNCHANGED <<hpc, hjob>> ELSE hpc' = "ensure" /\ hjob' = j
    /\ UNCHANGED <<attempts, assigned, queue, nodeVars, threadVars, hobj, agentVars, deaths, restarts>>

HealthEnsure ==
    /\ hpc = "ensure"
    /\ IF NotListed(hjob)
       THEN hpc' = "append" /\ UNCHANGED hjob
       ELSE hpc' = "requeue" /\ hjob' = NoJob
    /\ UNCHANGED <<jobVars, queue, nodeVars, threadVars, hobj, hjobs, agentVars, deaths, restarts>>

HealthAppend ==
    /\ hpc = "append"
    /\ queue' = Append(queue, hjob)
    /\ hjob' = NoJob
    /\ hpc' = "requeue"
    /\ UNCHANGED <<jobVars, nodeVars, threadVars, hobj, hjobs, agentVars, deaths, restarts>>

HealthDone ==
    /\ hpc = "requeue"
    /\ hjobs = NoJobs
    /\ hobj' = NoObject
    /\ hpc' = "idle"
    /\ UNCHANGED <<jobVars, queue, nodeVars, threadVars, hjobs, hjob, agentVars, deaths, restarts>>

-----------------------------------------------------------------------------
(* Node agents *)

\* _execute: the thread run_job started lists the job and runs it.
AgentStart(n, j) ==
    /\ accepted[n][j] > 0
    /\ accepted' = [accepted EXCEPT ![n][j] = @ - 1]
    /\ executing' = [executing EXCEPT ![n][j] = @ + 1]
    /\ UNCHANGED <<jobVars, queue, nodeVars, threadVars, healthVars, posted, restarts>>

\* _finish_job when its POST fails: logged, and never sent again.
LoseResult(n, j) ==
    /\ "lostResult" \in Faults
    /\ executing[n][j] > 0
    /\ executing' = [executing EXCEPT ![n][j] = @ - 1]
    /\ posted' = [posted EXCEPT ![n][j] = @ + 1]
    /\ UNCHANGED <<jobVars, queue, nodeVars, threadVars, healthVars, accepted, restarts>>

\* _finish_job, its finally clause.
AgentForget(n, j) ==
    /\ posted[n][j] > 0
    /\ posted' = [posted EXCEPT ![n][j] = @ - 1]
    /\ UNCHANGED <<jobVars, queue, nodeVars, threadVars, healthVars, accepted, executing, restarts>>

\* The agent process dies and is started again with an empty STATE.
AgentCrash(n) ==
    /\ "agentCrash" \in Faults
    /\ accepted' = [accepted EXCEPT ![n] = NoJobs]
    /\ executing' = [executing EXCEPT ![n] = NoJobs]
    /\ posted' = [posted EXCEPT ![n] = NoJobs]
    /\ UNCHANGED <<jobVars, queue, nodeVars, threadVars, healthVars, restarts>>

\* The control plane dies and reloads nodes, jobs and queue from SQLite.  Every
\* change above was saved by the action that made it, save for the health
\* loop's mark on a node it has not removed yet.
Restart ==
    /\ restarts < MaxRestarts
    /\ restarts' = restarts + 1
    /\ pc' = [t \in Thread |-> "idle"]
    /\ held' = [t \in Thread |-> NoJob]
    /\ todo' = [t \in Thread |-> {}]
    /\ call' = [t \in Thread |-> NoObject]
    /\ got' = [t \in Thread |-> {}]
    /\ healthy' = IF hpc \in {"dead", "listed"} THEN [healthy EXCEPT ![hobj] = TRUE] ELSE healthy
    /\ hpc' = "idle" /\ hobj' = NoObject /\ hjobs' = NoJobs /\ hjob' = NoJob
    /\ UNCHANGED <<jobVars, queue, reg, born, running, agentVars, deaths>>

-----------------------------------------------------------------------------
PassStep(t) ==
    \/ Select(t)
    \/ MarkRunning(t)
    \/ \E o \in Object : DispatchSend(t, o)
    \/ DispatchReply(t)
    \/ EndDispatch(t)
    \/ PassRequeue(t)
    \/ PassEnsure(t)
    \/ PassAppend(t)

ResultStep(t) ==
    \/ BookResult(t)
    \/ RetryResult(t)
    \/ RetryRequeue(t)
    \/ RetryEnsure(t)
    \/ RetryAppend(t)

HealthStep ==
    \/ HealthList
    \/ HealthRemove
    \/ \E j \in Job : HealthRequeue(j)
    \/ HealthEnsure
    \/ HealthAppend
    \/ HealthDone

Next ==
    \/ \E t \in Thread : BeginPass(t) \/ PassStep(t) \/ ResultStep(t)
    \/ \E t \in Thread, j \in Job : SubmitJob(t, j)
    \/ \E t \in Thread, n \in Node, j \in Job, ok \in BOOLEAN : JobResult(t, n, j, ok)
    \/ \E n \in Node : Heartbeat(n) \/ LateHeartbeat(n) \/ RegisterNode(n)
    \/ \E n \in Node : HealthDetect(n) \/ AgentCrash(n)
    \/ HealthStep
    \/ \E n \in Node, j \in Job : AgentStart(n, j) \/ LoseResult(n, j) \/ AgentForget(n, j)
    \/ Restart

Spec == Init /\ [][Next]_vars

(* Fairness: the threads run on, the scheduler loop ticks, an agent retries    *)
(* its registration until it has succeeded once and sends heartbeats for ever, *)
(* runs what it accepted and posts the result.  Clients, the health loop's     *)
(* detection and the faults owe nothing.                                       *)
Fairness ==
    /\ \A t \in Thread : WF_vars(PassStep(t)) /\ WF_vars(ResultStep(t))
    /\ \A t \in Handler : WF_vars(pc[t] = "tick" /\ BeginPass(t))
    /\ WF_vars(BeginPass(Loop))
    /\ \A n \in Node : WF_vars(born[n] = 0 /\ RegisterNode(n)) /\ WF_vars(Heartbeat(n))
    /\ \A n \in Node, j \in Job :
          /\ WF_vars(AgentStart(n, j))
          /\ WF_vars(AgentForget(n, j))
          /\ WF_vars(\E t \in Handler, ok \in BOOLEAN : JobResult(t, n, j, ok))
    /\ WF_vars(HealthStep)

FairSpec == Spec /\ Fairness

-----------------------------------------------------------------------------
(* Properties *)

Settled(j) == status[j] \in {"completed", "failed"}
Holds(t, j, places) == held[t] = j /\ pc[t] \in places

\* Passes that have passed the retry check for j and not yet counted the attempt.
Committed(j) == {t \in Thread : Holds(t, j, {"selected"})}

\* The retry policy under concurrent passes (mark_running, schedule_once): the
\* check of attempts and the increment are not one step, so each thread that can
\* be between them may overrun MAX_JOB_RETRIES by one, and no more than that,
\* restarts of the control plane included.
AttemptsBounded == \A j \in Job : attempts[j] < MaxRetries + Cardinality(Thread)

\* No queued job is forgotten while the process lives: a job with status
\* "queued" is in the queue, or a thread has popped it, or a thread is about to
\* put it back (schedule_once, job_result, _requeue_jobs).
Tracked(j) ==
    \/ Queued(j)
    \/ \E t \in Thread : Holds(t, j, {"popped", "selected", "requeue", "ensure", "append",
                                      "retryEnsure", "retryAppend"})
    \/ hpc \in {"ensure", "append"} /\ hjob = j

QueuedIsTracked == restarts = 0 => \A j \in Job : status[j] = "queued" => Tracked(j)

\* A job is given up only when its retries are used: outside job_result, which
\* writes "failed" before it decides on a retry, status "failed" means an
\* exhausted job (requeue_or_fail, schedule_once).
FailedIsExhausted ==
    restarts = 0 =>
        \A j \in Job : status[j] = "failed" =>
            Exhausted(j) \/ \E t \in Thread : Holds(t, j, {"finished", "booked", "retry"})

\* A job no pass is working on has status "running" only with an assignment of
\* the required size, whichever of several overlapping passes wrote the status
\* and the assignment (mark_running, the end of schedule_once).
RunningIsAssigned ==
    restarts = 0 =>
        \A j \in Job : status[j] = "running" =>
            \/ Cardinality(assigned[j]) >= Need[j]
            \/ \E t \in Thread : Holds(t, j, {"dispatching", "calling", "requeue"})

\* An agent has accepted j and has not answered for it.
InExecution(j) == \E n \in Node : accepted[n][j] + executing[n][j] > 0

\* A running job is never left with nobody to move it: an agent has it, or a
\* pass has delivered it nowhere yet and will either deliver it or give it back
\* (dispatch_job, schedule_once, job_result).
Moving(j) == InExecution(j) \/ \E t \in Thread : Holds(t, j, {"dispatching", "requeue"}) /\ got[t] = {}

NoStuckJob == \A j \in Job : status[j] = "running" => Moving(j)

\* NoStuckJob where agents neither crash nor lose a result and the control
\* plane was not restarted: node deaths, refused and timed-out dispatches and
\* overlapping passes leave no running job behind.
RunningIsMoving == restarts = 0 /\ Faults \cap {"lostResult", "agentCrash"} = {} => NoStuckJob

\* Every execution in the cluster is paid for by an attempt: with its counter
\* saved before the first POST, a job has at most Need executions per attempt
\* even when passes overlap, POSTs time out or the control plane restarts
\* (mark_running before dispatch_job in schedule_once).
Executions(j) == SumFunction([n \in Node |-> accepted[n][j] + executing[n][j]])

ExecutionsArePaidFor == \A j \in Job : Executions(j) <= Need[j] * attempts[j]

\* How often the queue lists j, and who has found it missing and has still to
\* append it: request threads, the scheduler loop, the health loop.
Listed(j) == {i \in DOMAIN queue : queue[i] = j}
Appending(j) == {t \in Thread : Holds(t, j, {"append", "retryAppend"})}
HealthAppends(j) == IF hpc = "append" /\ hjob = j THEN 1 ELSE 0

\* Several threads may put the same job back at once and each find it missing
\* (ensure_job_queued, called by a failed pass, a failed result and the health
\* loop), so the queue may list it more than once: but never more often than
\* there are threads, those that have still to append it included, however often
\* it is popped and put back.  And it lists only jobs that memory.jobs holds.
QueueIsBounded ==
    /\ \A j \in Job : Cardinality(Listed(j)) + Cardinality(Appending(j)) + HealthAppends(j)
                          <= Cardinality(Thread) + 1
    /\ \A i \in DOMAIN queue : status[queue[i]] # "none"

\* Every submitted job is eventually completed or failed for good, if its nodes
\* are registered from some point on: late results, retries, duplicate executions
\* and the re-queueing of a completed job that a dead node's list still names
\* die out (schedule_once, job_result, requeue_or_fail, _requeue_jobs).
EventuallySettled ==
    (\A n \in Node : <>[] Registered(n)) =>
        \A j \in Job : status[j] = "queued" ~> [] Settled(j)

(* What the repository's README says of the control plane.                    *)

\* README.md line 198: "Retry policy with max 3 attempts".
RetryLimit == \A j \in Job : attempts[j] <= MaxRetries

\* README.md line 196: "Persistent job queue in SQLite with restart-safe reload":
\* a job reloaded with status "queued" is in the reloaded queue or in a pass.
RestartSafeQueue == \A j \in Job : status[j] = "queued" => Tracked(j)

\* README.md line 211: "running jobs on failed nodes are re-queued": a running
\* job no agent has any more is listed by a registered node, from which the
\* health loop can recover it, or on its way back into the queue.
RecoverableOrMoving ==
    \A j \in Job : status[j] = "running" =>
        \/ Moving(j)
        \/ Tracked(j)
        \/ hjobs[j] > 0
        \/ \E t \in Thread : Holds(t, j, {"dispatching", "calling", "requeue"})
        \/ \E n \in Node : Registered(n) /\ running[Current(n)][j] > 0
        \/ hobj # NoObject /\ running[hobj][j] > 0

=============================================================================
