------------------------- MODULE ControlPlaneProofs -------------------------
(***************************************************************************)
(* Theorems about ControlPlane, for every number of jobs, nodes and        *)
(* threads, every retry limit and every bound.                             *)
(***************************************************************************)
EXTENDS ControlPlane, DataLemmas, FiniteSetTheorems, SequenceTheorems, TLAPS

-----------------------------------------------------------------------------
(* Type correctness *)

\* One entry of a table of counters goes up, or down when it is positive.
LEMMA CountUp ==
    ASSUME NEW S, NEW f \in [S -> [Job -> Nat]], NEW s \in S, NEW j \in Job
    PROVE  [f EXCEPT ![s][j] = @ + 1] \in [S -> [Job -> Nat]]
  OBVIOUS

LEMMA CountDown ==
    ASSUME NEW S, NEW f \in [S -> [Job -> Nat]], NEW s \in S, NEW j \in Job, f[s][j] > 0
    PROVE  [f EXCEPT ![s][j] = @ - 1] \in [S -> [Job -> Nat]]
  OBVIOUS

\* The append of enqueue_job and ensure_job_queued keeps the queue a sequence of jobs.
LEMMA AppendType ==
    ASSUME JobTypeOK, NEW j \in Job, queue' = Append(queue, j)
    PROVE  queue' \in Seq(Job)
  BY AppendProperties DEF JobTypeOK

\* The registered object of a node is one of its objects.
LEMMA CurrentIsObject ==
    ASSUME NodeTypeOK, NEW n \in Node, Registered(n)
    PROVE  Current(n) \in Object
  <1>1. reg[n] \in 1 .. MaxGen
    BY BoundAssumption DEF Registered, NodeTypeOK
  <1> QED
    BY <1>1 DEF Current, Object

LEMMA CandidatesAreObjects ==
    ASSUME NodeTypeOK, NEW j \in Job
    PROVE  Candidates(j) \subseteq Object
  <1>1. Capable[j] \subseteq Node
    BY JobAssumption
  <1> QED
    BY <1>1, CurrentIsObject, Zenon DEF Candidates

\* A part of the type invariant whose variables do not change is kept.
LEMMA TypeFrame ==
    ASSUME TypeOK
    PROVE  /\ UNCHANGED <<jobVars, queue>> => JobTypeOK'
           /\ UNCHANGED nodeVars => NodeTypeOK'
           /\ UNCHANGED threadVars => ThreadTypeOK'
           /\ UNCHANGED healthVars => HealthTypeOK'
           /\ UNCHANGED agentVars => AgentTypeOK'
           /\ UNCHANGED restarts => restarts' \in 0 .. MaxRestarts
  <1> USE DEF TypeOK
  <1>1. UNCHANGED <<jobVars, queue>> => JobTypeOK'
    BY DEF JobTypeOK, jobVars
  <1>2. UNCHANGED nodeVars => NodeTypeOK'
    BY DEF NodeTypeOK, nodeVars
  <1>3. UNCHANGED threadVars => ThreadTypeOK'
    BY DEF ThreadTypeOK, threadVars, passVars
  <1>4. UNCHANGED healthVars => HealthTypeOK'
    BY DEF HealthTypeOK, healthVars
  <1>5. UNCHANGED agentVars => AgentTypeOK'
    BY DEF AgentTypeOK, agentVars
  <1> QED
    BY <1>1, <1>2, <1>3, <1>4, <1>5

\* A thread that leaves for a label between passes is well typed there.
LEMMA LeaveType ==
    ASSUME ThreadTypeOK, NEW t \in Thread, NEW l \in {"idle", "tick"}, Leave(t, l)
    PROVE  ThreadTypeOK'
  BY DEF ThreadTypeOK, Leave, Goto, PC

\* A thread that holds a job and awaits no answer may go to any label.
LEMMA GotoType ==
    ASSUME ThreadTypeOK, NEW t \in Thread, held[t] \in Job,
           NEW l \in PC \ {"calling"}, Goto(t, l), UNCHANGED <<held, passVars>>
    PROVE  ThreadTypeOK'
  BY DEF ThreadTypeOK, Goto, passVars

LEMMA TypeInit == Init => TypeOK
  <1> SUFFICES ASSUME Init PROVE TypeOK
    OBVIOUS
  <1>1. NoJobs \in [Job -> Nat]
    BY DEF NoJobs
  <1>2. << >> \in Seq(Job)
    OBVIOUS
  <1>3. JobTypeOK
    BY <1>1, <1>2 DEF Init, JobTypeOK, Status
  <1>4. NodeTypeOK
    BY <1>1, BoundAssumption DEF Init, NodeTypeOK
  <1>5. ThreadTypeOK
    BY DEF Init, ThreadTypeOK, PC
  <1>6. HealthTypeOK
    BY <1>1, BoundAssumption DEF Init, HealthTypeOK
  <1>7. AgentTypeOK
    BY <1>1 DEF Init, AgentTypeOK
  <1> QED
    BY <1>3, <1>4, <1>5, <1>6, <1>7, BoundAssumption DEF Init, TypeOK

LEMMA BeginPassType ==
    ASSUME TypeOK, NEW t \in Thread, BeginPass(t)
    PROVE  TypeOK'
  <1>1. JobTypeOK' /\ ThreadTypeOK'
    <2>1. CASE queue = << >>
      BY <2>1 DEF TypeOK, BeginPass, Goto, JobTypeOK, ThreadTypeOK, PC, jobVars, passVars
    <2>2. CASE queue # << >>
      <3>1. Head(queue) \in Job /\ Tail(queue) \in Seq(Job)
        BY <2>2, HeadTailProperties DEF TypeOK, JobTypeOK
      <3>2. JobTypeOK'
        BY <2>2, <3>1 DEF TypeOK, BeginPass, JobTypeOK, jobVars
      <3>3. ThreadTypeOK'
        BY <2>2, <3>1 DEF TypeOK, BeginPass, Goto, ThreadTypeOK, PC, passVars
      <3> QED
        BY <3>2, <3>3
    <2> QED
      BY <2>1, <2>2
  <1> QED
    BY <1>1, TypeFrame DEF BeginPass, TypeOK

LEMMA PassStepType ==
    ASSUME TypeOK, NEW t \in Thread, PassStep(t)
    PROVE  TypeOK'
  <1> USE DEF TypeOK
  <1>1. CASE Select(t)
    <2>1. held[t] \in Job
      BY <1>1 DEF Select, ThreadTypeOK
    <2>2. Candidates(held[t]) \subseteq Object
      BY <2>1, CandidatesAreObjects
    <2>3. JobTypeOK'
      BY <1>1, <2>1 DEF Select, JobTypeOK, Status
    <2>4. ThreadTypeOK'
      BY <1>1, <2>1, <2>2 DEF Select, ThreadTypeOK, Leave, Goto, PC
    <2> QED
      BY <1>1, <2>3, <2>4, TypeFrame DEF Select
  <1>2. CASE MarkRunning(t)
    <2>1. held[t] \in Job
      BY <1>2 DEF MarkRunning, ThreadTypeOK
    <2>2. JobTypeOK'
      BY <1>2, <2>1 DEF MarkRunning, JobTypeOK, Status
    <2>3. ThreadTypeOK'
      BY <1>2, <2>1, GotoType DEF MarkRunning, PC
    <2> QED
      BY <1>2, <2>2, <2>3, TypeFrame DEF MarkRunning
  <1>3. ASSUME NEW o \in Object, DispatchSend(t, o) PROVE TypeOK'
    <2>1. held[t] \in Job /\ o[1] \in Node
      BY <1>3 DEF DispatchSend, Object, ThreadTypeOK
    <2>2. AgentTypeOK'
      <3>1. [accepted EXCEPT ![o[1]][held[t]] = @ + 1] \in [Node -> [Job -> Nat]]
        BY <2>1, CountUp DEF AgentTypeOK
      <3>2. accepted' \in [Node -> [Job -> Nat]]
        BY <1>3, <3>1 DEF DispatchSend, AgentTypeOK
      <3> QED
        BY <1>3, <3>2 DEF DispatchSend, AgentTypeOK
    <2>3. ThreadTypeOK'
      BY <1>3, <2>1 DEF DispatchSend, ThreadTypeOK, Goto, PC
    <2> QED
      BY <1>3, <2>2, <2>3, TypeFrame DEF DispatchSend
  <1>4. CASE DispatchReply(t)
    <2>1. held[t] \in Job /\ call[t] \in Object
      BY <1>4 DEF DispatchReply, ThreadTypeOK
    <2>2. NodeTypeOK'
      <3>1. [running EXCEPT ![call[t]][held[t]] = @ + 1] \in [Object -> [Job -> Nat]]
        BY <2>1, CountUp DEF NodeTypeOK
      <3>2. running' \in [Object -> [Job -> Nat]]
        BY <1>4, <3>1 DEF DispatchReply, NodeTypeOK
      <3>3. call[t][2] \in 0 .. MaxGen
        BY <2>1, BoundAssumption DEF Object
      <3>4. reg' \in [Node -> 0 .. MaxGen]
        BY <1>4, <3>3 DEF DispatchReply, AddNode, NodeTypeOK
      <3>5. healthy' \in [Object -> BOOLEAN]
        BY <1>4 DEF DispatchReply, AddNode, NodeTypeOK
      <3> QED
        BY <1>4, <3>2, <3>4, <3>5 DEF DispatchReply, NodeTypeOK
    <2>3. ThreadTypeOK'
      BY <1>4, <2>1 DEF DispatchReply, ThreadTypeOK, Goto, PC, Object
    <2> QED
      BY <1>4, <2>2, <2>3, TypeFrame DEF DispatchReply
  <1>5. CASE EndDispatch(t)
    <2>1. held[t] \in Job /\ got[t] \subseteq Node
      BY <1>5 DEF EndDispatch, ThreadTypeOK
    <2>2. JobTypeOK'
      BY <1>5, <2>1 DEF EndDispatch, JobTypeOK
    <2>3. ThreadTypeOK'
      BY <1>5, <2>1, LeaveType, GotoType DEF EndDispatch, PC
    <2> QED
      BY <1>5, <2>2, <2>3, TypeFrame DEF EndDispatch
  <1>6. CASE PassRequeue(t)
    <2>1. held[t] \in Job
      BY <1>6 DEF PassRequeue, ThreadTypeOK
    <2>2. JobTypeOK'
      BY <1>6, <2>1 DEF PassRequeue, RequeueOrFail, JobTypeOK, Status
    <2>3. ThreadTypeOK'
      BY <1>6, <2>1, LeaveType, GotoType DEF PassRequeue, PC
    <2> QED
      BY <1>6, <2>2, <2>3, TypeFrame DEF PassRequeue
  <1>7. CASE PassEnsure(t)
    <2>1. held[t] \in Job
      BY <1>7 DEF PassEnsure, ThreadTypeOK
    <2>2. ThreadTypeOK'
      BY <1>7, <2>1, LeaveType, GotoType DEF PassEnsure, PC
    <2> QED
      BY <1>7, <2>2, TypeFrame DEF PassEnsure
  <1>8. CASE PassAppend(t)
    <2>1. held[t] \in Job
      BY <1>8 DEF PassAppend, ThreadTypeOK
    <2>2. JobTypeOK'
      BY <1>8, <2>1, AppendType DEF PassAppend, JobTypeOK, jobVars
    <2>3. ThreadTypeOK'
      BY <1>8, LeaveType DEF PassAppend
    <2> QED
      BY <1>8, <2>2, <2>3, TypeFrame DEF PassAppend
  <1> QED
    BY <1>1, <1>2, <1>3, <1>4, <1>5, <1>6, <1>7, <1>8 DEF PassStep

LEMMA ResultType ==
    ASSUME TypeOK, NEW t \in Thread, ResultStep(t)
    PROVE  TypeOK'
  <1> USE DEF TypeOK
  <1>1. CASE BookResult(t)
    <2>1. held[t] \in Job
      BY <1>1 DEF BookResult, ThreadTypeOK
    <2>2. NodeTypeOK'
      BY <1>1, <2>1 DEF BookResult, NodeTypeOK
    <2>3. ThreadTypeOK'
      BY <1>1, <2>1, GotoType DEF BookResult, PC
    <2> QED
      BY <1>1, <2>2, <2>3, TypeFrame DEF BookResult
  <1>2. CASE RetryResult(t)
    <2>1. held[t] \in Job
      BY <1>2 DEF RetryResult, ThreadTypeOK
    <2>2. ThreadTypeOK'
      BY <1>2, <2>1, LeaveType, GotoType DEF RetryResult, PC
    <2> QED
      BY <1>2, <2>2, TypeFrame DEF RetryResult
  <1>4. CASE RetryRequeue(t)
    <2>1. held[t] \in Job
      BY <1>4 DEF RetryRequeue, ThreadTypeOK
    <2>2. JobTypeOK'
      BY <1>4, <2>1 DEF RetryRequeue, RequeueOrFail, JobTypeOK, Status
    <2>3. ThreadTypeOK'
      BY <1>4, <2>1, LeaveType, GotoType DEF RetryRequeue, PC
    <2> QED
      BY <1>4, <2>2, <2>3, TypeFrame DEF RetryRequeue
  <1>3. CASE RetryEnsure(t)
    <2>1. held[t] \in Job
      BY <1>3 DEF RetryEnsure, ThreadTypeOK
    <2>2. ThreadTypeOK'
      BY <1>3, <2>1, LeaveType, GotoType DEF RetryEnsure, PC
    <2> QED
      BY <1>3, <2>2, TypeFrame DEF RetryEnsure
  <1>5. CASE RetryAppend(t)
    <2>1. held[t] \in Job
      BY <1>5 DEF RetryAppend, ThreadTypeOK
    <2>2. JobTypeOK'
      BY <1>5, <2>1, AppendType DEF RetryAppend, JobTypeOK, jobVars
    <2>3. ThreadTypeOK'
      BY <1>5, LeaveType DEF RetryAppend
    <2> QED
      BY <1>5, <2>2, <2>3, TypeFrame DEF RetryAppend
  <1> QED
    BY <1>1, <1>2, <1>3, <1>4, <1>5 DEF ResultStep

LEMMA HandlerType ==
    ASSUME TypeOK,
           \/ \E t \in Thread, j \in Job : SubmitJob(t, j)
           \/ \E t \in Thread, n \in Node, j \in Job, ok \in BOOLEAN : JobResult(t, n, j, ok)
           \/ \E n \in Node : Heartbeat(n) \/ LateHeartbeat(n) \/ RegisterNode(n)
    PROVE  TypeOK'
  <1> USE DEF TypeOK
  <1>1. ASSUME NEW t \in Thread, NEW j \in Job, SubmitJob(t, j) PROVE TypeOK'
    <2>1. JobTypeOK'
      BY <1>1, AppendProperties DEF SubmitJob, EnqueueJob, JobTypeOK, Status
    <2>2. ThreadTypeOK'
      BY <1>1 DEF SubmitJob, ThreadTypeOK, Goto, PC, passVars
    <2> QED
      BY <1>1, <2>1, <2>2, TypeFrame DEF SubmitJob
  <1>2. ASSUME NEW t \in Thread, NEW n \in Node, NEW j \in Job, NEW ok \in BOOLEAN,
               JobResult(t, n, j, ok)
        PROVE  TypeOK'
    <2>1. JobTypeOK'
      BY <1>2 DEF JobResult, JobTypeOK, Status
    <2>2. NodeTypeOK'
      BY <1>2 DEF JobResult, NodeTypeOK
    <2>3. ThreadTypeOK'
      BY <1>2 DEF JobResult, ThreadTypeOK, Goto, PC, passVars
    <2>4. AgentTypeOK'
      <3>1. executing' \in [Node -> [Job -> Nat]]
        BY <1>2, CountDown DEF JobResult, AgentTypeOK
      <3>2. posted' \in [Node -> [Job -> Nat]]
        BY <1>2, CountUp DEF JobResult, AgentTypeOK
      <3> QED
        BY <1>2, <3>1, <3>2 DEF JobResult, AgentTypeOK
    <2> QED
      BY <1>2, <2>1, <2>2, <2>3, <2>4, TypeFrame DEF JobResult
  <1>3. ASSUME NEW n \in Node, Heartbeat(n) PROVE TypeOK'
    <2>1. [j \in Job |-> executing[n][j] + posted[n][j]] \in [Job -> Nat]
      BY DEF AgentTypeOK
    <2>2. NodeTypeOK'
      BY <1>3, <2>1 DEF Heartbeat, NodeTypeOK
    <2> QED
      BY <1>3, <2>2, TypeFrame DEF Heartbeat
  <1>4. ASSUME NEW n \in Node, RegisterNode(n) PROVE TypeOK'
    <2>1. NodeTypeOK'
      <3>1. born[n] < MaxGen => born[n] + 1 \in 0 .. MaxGen
        BY BoundAssumption DEF NodeTypeOK
      <3>2. born' \in [Node -> 0 .. MaxGen]
        BY <1>4, <3>1 DEF RegisterNode, NodeTypeOK
      <3>3. reg' \in [Node -> 0 .. MaxGen]
        BY <1>4, <3>2 DEF RegisterNode, NodeTypeOK
      <3> QED
        BY <1>4, <3>2, <3>3 DEF RegisterNode, NodeTypeOK
    <2> QED
      BY <1>4, <2>1, TypeFrame DEF RegisterNode
  <1>5. ASSUME NEW n \in Node, LateHeartbeat(n) PROVE TypeOK'
    <2>1. [j \in Job |-> executing[n][j] + posted[n][j]] \in [Job -> Nat]
      BY DEF AgentTypeOK
    <2>2. hobj[2] \in 0 .. MaxGen
      BY <1>5, BoundAssumption DEF LateHeartbeat, HealthTypeOK, Object
    <2>3. NodeTypeOK'
      BY <1>5, <2>1, <2>2 DEF LateHeartbeat, NodeTypeOK
    <2> QED
      BY <1>5, <2>3, TypeFrame DEF LateHeartbeat
  <1> QED
    BY <1>1, <1>2, <1>3, <1>4, <1>5

LEMMA HealthType ==
    ASSUME TypeOK, HealthStep \/ \E n \in Node : HealthDetect(n)
    PROVE  TypeOK'
  <1> USE DEF TypeOK
  <1>1. ASSUME NEW n \in Node, HealthDetect(n) PROVE TypeOK'
    <2>1. Current(n) \in Object
      BY <1>1, CurrentIsObject DEF HealthDetect
    <2>2. HealthTypeOK' /\ NodeTypeOK'
      BY <1>1, <2>1, BoundAssumption DEF HealthDetect, HealthTypeOK, NodeTypeOK
    <2> QED
      BY <1>1, <2>2, TypeFrame DEF HealthDetect
  <1>2. CASE HealthList
    <2>1. HealthTypeOK'
      BY <1>2 DEF HealthList, HealthTypeOK, NodeTypeOK
    <2> QED
      BY <1>2, <2>1, TypeFrame DEF HealthList
  <1>3. CASE HealthRemove
    <2>1. HealthTypeOK'
      BY <1>3 DEF HealthRemove, HealthTypeOK
    <2>2. 0 \in 0 .. MaxGen
      BY BoundAssumption
    <2>3. NodeTypeOK'
      BY <1>3, <2>2 DEF HealthRemove, NodeTypeOK
    <2> QED
      BY <1>3, <2>1, <2>3, TypeFrame DEF HealthRemove
  <1>4. ASSUME NEW j \in Job, HealthRequeue(j) PROVE TypeOK'
    <2>1. HealthTypeOK' /\ JobTypeOK'
      BY <1>4 DEF HealthRequeue, RequeueOrFail, HealthTypeOK, JobTypeOK, Status
    <2> QED
      BY <1>4, <2>1, TypeFrame DEF HealthRequeue
  <1>5. CASE HealthEnsure
    <2>1. HealthTypeOK'
      BY <1>5 DEF HealthEnsure, HealthTypeOK
    <2> QED
      BY <1>5, <2>1, TypeFrame DEF HealthEnsure
  <1>7. CASE HealthAppend
    <2>1. JobTypeOK'
      BY <1>7, AppendType DEF HealthAppend, HealthTypeOK, JobTypeOK, jobVars
    <2>2. HealthTypeOK'
      BY <1>7 DEF HealthAppend, HealthTypeOK
    <2> QED
      BY <1>7, <2>1, <2>2, TypeFrame DEF HealthAppend
  <1>6. CASE HealthDone
    <2>1. HealthTypeOK'
      BY <1>6 DEF HealthDone, HealthTypeOK
    <2> QED
      BY <1>6, <2>1, TypeFrame DEF HealthDone
  <1> QED
    BY <1>1, <1>2, <1>3, <1>4, <1>5, <1>6, <1>7 DEF HealthStep

LEMMA AgentType ==
    ASSUME TypeOK,
           \/ \E n \in Node : AgentCrash(n)
           \/ \E n \in Node, j \in Job :
                 AgentStart(n, j) \/ LoseResult(n, j) \/ AgentForget(n, j)
    PROVE  TypeOK'
  <1> USE DEF TypeOK
  <1>1. ASSUME NEW n \in Node, AgentCrash(n) PROVE TypeOK'
    <2>1. AgentTypeOK'
      BY <1>1 DEF AgentCrash, AgentTypeOK, NoJobs
    <2> QED
      BY <1>1, <2>1, TypeFrame DEF AgentCrash
  <1>2. ASSUME NEW n \in Node, NEW j \in Job,
               AgentStart(n, j) \/ LoseResult(n, j) \/ AgentForget(n, j)
        PROVE  TypeOK'
    <2>1. CASE AgentStart(n, j)
      <3>1. accepted' \in [Node -> [Job -> Nat]]
        BY <2>1, CountDown DEF AgentStart, AgentTypeOK
      <3>2. executing' \in [Node -> [Job -> Nat]]
        BY <2>1, CountUp DEF AgentStart, AgentTypeOK
      <3> QED
        BY <2>1, <3>1, <3>2, TypeFrame DEF AgentStart, AgentTypeOK
    <2>2. CASE LoseResult(n, j)
      <3>1. executing' \in [Node -> [Job -> Nat]]
        BY <2>2, CountDown DEF LoseResult, AgentTypeOK
      <3>2. posted' \in [Node -> [Job -> Nat]]
        BY <2>2, CountUp DEF LoseResult, AgentTypeOK
      <3> QED
        BY <2>2, <3>1, <3>2, TypeFrame DEF LoseResult, AgentTypeOK
    <2>3. CASE AgentForget(n, j)
      <3>1. posted' \in [Node -> [Job -> Nat]]
        BY <2>3, CountDown DEF AgentForget, AgentTypeOK
      <3> QED
        BY <2>3, <3>1, TypeFrame DEF AgentForget, AgentTypeOK
    <2> QED
      BY <1>2, <2>1, <2>2, <2>3
  <1> QED
    BY <1>1, <1>2

LEMMA RestartType ==
    ASSUME TypeOK, Restart
    PROVE  TypeOK'
  <1> USE DEF TypeOK
  <1>1. ThreadTypeOK'
    BY DEF Restart, ThreadTypeOK, PC
  <1>2. HealthTypeOK'
    BY DEF Restart, HealthTypeOK, NoJobs
  <1>3. NodeTypeOK'
    BY DEF Restart, NodeTypeOK
  <1>4. restarts' \in 0 .. MaxRestarts
    BY BoundAssumption DEF Restart
  <1> QED
    BY <1>1, <1>2, <1>3, <1>4, TypeFrame DEF Restart

LEMMA TypeStep == TypeOK /\ [Next]_vars => TypeOK'
  <1> SUFFICES ASSUME TypeOK, [Next]_vars PROVE TypeOK'
    OBVIOUS
  <1>1. CASE Next
    BY <1>1, BeginPassType, PassStepType, ResultType, HandlerType, HealthType,
       AgentType, RestartType DEF Next
  <1>2. CASE UNCHANGED vars
    BY <1>2, TypeFrame DEF TypeOK, vars
  <1> QED
    BY <1>1, <1>2

\* Every variable keeps its type: in particular no counter of running_jobs or
\* of an agent goes below zero (list.remove is never called without the entry),
\* the threads' labels and local variables fit, and the bounds are respected.
THEOREM TypeCorrect == Spec => []TypeOK
  BY TypeInit, TypeStep, PTL DEF Spec

-----------------------------------------------------------------------------
(* No queued job is forgotten *)

\* An appended job is in the queue, and no other job left it.
LEMMA AppendKeeps ==
    ASSUME JobTypeOK, NEW j \in Job, queue' = Append(queue, j)
    PROVE  /\ Queued(j)'
           /\ \A k \in Job : Queued(k) => Queued(k)'
  <1>1. /\ Len(queue') = Len(queue) + 1 /\ queue' \in Seq(Job)
        /\ queue'[Len(queue) + 1] = j
        /\ \A i \in 1 .. Len(queue) : queue'[i] = queue[i]
    BY AppendProperties DEF JobTypeOK
  <1>2. /\ Len(queue) \in Nat
        /\ DOMAIN queue = 1 .. Len(queue) /\ DOMAIN queue' = 1 .. (Len(queue) + 1)
    BY <1>1 DEF JobTypeOK
  <1> QED
    BY <1>1, <1>2 DEF Queued

\* pop_next_job takes the head off the queue and no other job.
LEMMA PopKeeps ==
    ASSUME JobTypeOK, queue # << >>, queue' = Tail(queue), NEW k \in Job, Queued(k), k # Head(queue)
    PROVE  Queued(k)'
  <1>1. PICK i \in DOMAIN queue : queue[i] = k
    BY DEF Queued
  <1>2. /\ Len(queue) \in Nat /\ DOMAIN queue = 1 .. Len(queue)
        /\ Len(queue') = Len(queue) - 1 /\ queue' \in Seq(Job)
        /\ \A m \in 1 .. Len(queue') : queue'[m] = queue[m + 1]
        /\ Head(queue) = queue[1]
    BY HeadTailProperties DEF JobTypeOK
  <1>3. DOMAIN queue' = 1 .. Len(queue')
    BY <1>2
  <1>4. i # 1 /\ i - 1 \in 1 .. Len(queue') /\ queue'[i - 1] = queue[i]
    BY <1>1, <1>2
  <1> QED
    BY <1>1, <1>3, <1>4 DEF Queued

\* Only a restart changes the number of restarts.
LEMMA RestartsCount ==
    ASSUME TypeOK, [Next]_vars
    PROVE  restarts' = restarts \/ (Restart /\ restarts' # 0)
  <1>1. CASE UNCHANGED vars
    BY <1>1 DEF vars
  <1>2. CASE Restart
    BY <1>2 DEF Restart, TypeOK
  <1>3. CASE HealthStep
    BY <1>3 DEF HealthStep, HealthList, HealthRemove, HealthRequeue, HealthEnsure, HealthAppend, HealthDone
  <1>4. ASSUME NEW t \in Thread, BeginPass(t) \/ PassStep(t) \/ ResultStep(t)
        PROVE  restarts' = restarts
    BY <1>4 DEF BeginPass, PassStep, Select, MarkRunning, DispatchSend, DispatchReply,
                EndDispatch, PassRequeue, PassEnsure, PassAppend,
                ResultStep, BookResult, RetryResult, RetryRequeue, RetryEnsure, RetryAppend
  <1>5. CASE ~ (HealthStep \/ Restart)
    BY <1>1, <1>4, <1>5 DEF Next, SubmitJob, JobResult, Heartbeat, LateHeartbeat, RegisterNode, HealthDetect,
                AgentCrash, AgentStart, LoseResult, AgentForget
  <1> QED
    BY <1>2, <1>3, <1>5

LEMMA TrackedStep == TypeOK /\ QueuedIsTracked /\ [Next]_vars => QueuedIsTracked'
  <1> SUFFICES ASSUME TypeOK, QueuedIsTracked, [Next]_vars, restarts' = 0,
                      NEW j \in Job, status'[j] = "queued"
               PROVE  Tracked(j)'
    BY DEF QueuedIsTracked
  <1>1. status[j] = "queued" => Tracked(j)
    BY RestartsCount DEF QueuedIsTracked
  <1>2. JobTypeOK /\ ThreadTypeOK /\ HealthTypeOK
    BY DEF TypeOK
  <1>3. ASSUME NEW t \in Thread, BeginPass(t) PROVE Tracked(j)'
    <2>1. CASE queue = << >>
      BY <1>1, <1>2, <1>3, <2>1 DEF BeginPass, Tracked, Holds, Queued, Goto, ThreadTypeOK,
                                    jobVars, healthVars
    <2>2. CASE queue # << >> /\ j = Head(queue)
      BY <1>2, <1>3, <2>2 DEF BeginPass, Tracked, Holds, Goto, ThreadTypeOK
    <2>3. CASE queue # << >> /\ j # Head(queue)
      <3>1. Queued(j) => Queued(j)'
        BY <1>2, <1>3, <2>3, PopKeeps DEF BeginPass
      <3> QED
        BY <1>1, <1>2, <1>3, <2>3, <3>1 DEF BeginPass, Tracked, Holds, Goto, ThreadTypeOK,
                                            jobVars, healthVars
    <2> QED
      BY <2>1, <2>2, <2>3
  <1>4. ASSUME NEW t \in Thread, Select(t) PROVE Tracked(j)'
    BY <1>1, <1>2, <1>4 DEF Select, Tracked, Holds, Queued, Goto, Leave, JobTypeOK, ThreadTypeOK, healthVars
  <1>5. ASSUME NEW t \in Thread, MarkRunning(t) PROVE Tracked(j)'
    BY <1>1, <1>2, <1>5 DEF MarkRunning, Tracked, Holds, Queued, Goto, JobTypeOK, ThreadTypeOK, healthVars
  <1>6. ASSUME NEW t \in Thread, NEW o \in Object, DispatchSend(t, o) PROVE Tracked(j)'
    BY <1>1, <1>2, <1>6 DEF DispatchSend, Tracked, Holds, Queued, Goto, ThreadTypeOK, jobVars, healthVars
  <1>7. ASSUME NEW t \in Thread, DispatchReply(t) PROVE Tracked(j)'
    BY <1>1, <1>2, <1>7 DEF DispatchReply, Tracked, Holds, Queued, Goto, ThreadTypeOK, jobVars, healthVars
  <1>8. ASSUME NEW t \in Thread, EndDispatch(t) PROVE Tracked(j)'
    BY <1>1, <1>2, <1>8 DEF EndDispatch, Tracked, Holds, Queued, Goto, Leave, ThreadTypeOK, healthVars
  <1>9. ASSUME NEW t \in Thread, PassRequeue(t) PROVE Tracked(j)'
    BY <1>1, <1>2, <1>9 DEF PassRequeue, RequeueOrFail, Tracked, Holds, Queued, Goto, Leave,
                            JobTypeOK, ThreadTypeOK, healthVars
  <1>10. ASSUME NEW t \in Thread, PassEnsure(t) \/ RetryEnsure(t) PROVE Tracked(j)'
    BY <1>1, <1>2, <1>10 DEF PassEnsure, RetryEnsure, NotListed, Queued, Tracked, Holds, Goto, Leave,
                             ThreadTypeOK, jobVars, healthVars
  <1>21. ASSUME NEW t \in Thread, PassAppend(t) \/ RetryAppend(t) PROVE Tracked(j)'
    <2>1. PICK k \in Job : k = held[t] /\ queue' = Append(queue, k)
      BY <1>2, <1>21 DEF PassAppend, RetryAppend, ThreadTypeOK
    <2>2. Queued(k)' /\ (Queued(j) => Queued(j)')
      BY <1>2, <2>1, AppendKeeps
    <2> QED
      BY <1>1, <1>2, <1>21, <2>1, <2>2 DEF PassAppend, RetryAppend, Tracked, Holds, Goto, Leave,
                                           ThreadTypeOK, jobVars, healthVars
  <1>11. ASSUME NEW t \in Thread, BookResult(t) PROVE Tracked(j)'
    BY <1>1, <1>2, <1>11 DEF BookResult, Tracked, Holds, Queued, Goto, ThreadTypeOK, jobVars, healthVars
  <1>12. ASSUME NEW t \in Thread, RetryResult(t) \/ RetryRequeue(t) PROVE Tracked(j)'
    BY <1>1, <1>2, <1>12 DEF RetryResult, RetryRequeue, RequeueOrFail, Tracked, Holds, Queued, Goto,
                             Leave, JobTypeOK, ThreadTypeOK, jobVars, healthVars
  <1>13. ASSUME NEW t \in Thread, NEW k \in Job, SubmitJob(t, k) PROVE Tracked(j)'
    <2>1. Queued(k)' /\ (Queued(j) => Queued(j)')
      BY <1>2, <1>13, AppendKeeps DEF SubmitJob, EnqueueJob, NotListed, Queued
    <2> QED
      BY <1>1, <1>2, <1>13, <2>1 DEF SubmitJob, EnqueueJob, Tracked, Holds, Goto, JobTypeOK, ThreadTypeOK, healthVars
  <1>14. ASSUME NEW t \in Thread, NEW n \in Node, NEW k \in Job, NEW ok \in BOOLEAN,
                JobResult(t, n, k, ok)
         PROVE  Tracked(j)'
    BY <1>1, <1>2, <1>14 DEF JobResult, Tracked, Holds, Queued, Goto, JobTypeOK, ThreadTypeOK, healthVars
  <1>15. ASSUME NEW k \in Job, HealthRequeue(k) PROVE Tracked(j)'
    BY <1>1, <1>2, <1>15 DEF HealthRequeue, RequeueOrFail, Tracked, Holds, Queued, JobTypeOK, threadVars
  <1>16. CASE HealthEnsure
    BY <1>1, <1>16 DEF HealthEnsure, NotListed, Queued, Tracked, Holds, jobVars, threadVars
  <1>22. CASE HealthAppend
    <2>1. PICK k \in Job : k = hjob /\ queue' = Append(queue, k)
      BY <1>2, <1>22 DEF HealthAppend, HealthTypeOK
    <2>2. Queued(k)' /\ (Queued(j) => Queued(j)')
      BY <1>2, <2>1, AppendKeeps
    <2> QED
      BY <1>1, <1>22, <2>1, <2>2 DEF HealthAppend, Tracked, Holds, jobVars, threadVars
  <1>17. CASE \/ HealthList \/ HealthRemove \/ HealthDone
             \/ \E n \in Node : HealthDetect(n)
    BY <1>1, <1>17 DEF HealthList, HealthRemove, HealthDone, HealthDetect, Tracked, Holds, Queued,
                       jobVars, threadVars
  <1>18. CASE \/ \E n \in Node : Heartbeat(n) \/ LateHeartbeat(n) \/ RegisterNode(n) \/ AgentCrash(n)
             \/ \E n \in Node, k \in Job : AgentStart(n, k) \/ LoseResult(n, k) \/ AgentForget(n, k)
    BY <1>1, <1>18 DEF Heartbeat, LateHeartbeat, RegisterNode, AgentCrash, AgentStart, LoseResult, AgentForget,
                       Tracked, Holds, Queued, jobVars, threadVars, healthVars
  <1>19. CASE UNCHANGED vars
    BY <1>1, <1>19 DEF Tracked, Holds, Queued, vars, jobVars, threadVars, healthVars
  <1>20. ~ Restart
    BY DEF Restart, TypeOK
  <1> QED
    BY <1>3, <1>4, <1>5, <1>6, <1>7, <1>8, <1>9, <1>10, <1>11, <1>12, <1>13, <1>14, <1>15, <1>16,
       <1>17, <1>18, <1>19, <1>20, <1>21, <1>22 DEF Next, PassStep, ResultStep, HealthStep

LEMMA TrackedInit == Init => QueuedIsTracked
  BY DEF Init, QueuedIsTracked

\* While the process lives no job with status "queued" is forgotten: it is in
\* memory.queue or with a thread that holds it or is about to put it back.
THEOREM NoQueuedJobForgotten == Spec => []QueuedIsTracked
  BY TypeCorrect, TrackedInit, TrackedStep, PTL DEF Spec

-----------------------------------------------------------------------------
(* Overlapping passes and the retry limit *)

\* AttemptsBounded is not inductive: a pass that has made the retry check will
\* count an attempt whatever the count is by then.  Counting such passes as if
\* they had already done so is.
AttemptsInv ==
    \A j \in Job : attempts[j] + Cardinality(Committed(j)) < MaxRetries + Cardinality(Thread)

LEMMA ThreadsAreFinite == IsFiniteSet(Thread) /\ Cardinality(Thread) \in Nat \ {0}
  BY ThreadAssumption, FS_AddElement, FS_CardinalityType DEF Thread

\* The passes committed to a job are threads, a finite number of them.
LEMMA CommittedIsFinite ==
    ASSUME NEW S, S \subseteq Thread
    PROVE  /\ IsFiniteSet(S) /\ Cardinality(S) \in Nat
           /\ Cardinality(S) <= Cardinality(Thread)
           /\ \A R \in SUBSET S : IsFiniteSet(R) /\ Cardinality(R) \in Nat
                                   /\ Cardinality(R) <= Cardinality(S)
  BY ThreadsAreFinite, FS_Subset, FS_CardinalityType

\* Only Select commits a thread to a job, and only MarkRunning counts attempts.
LEMMA SelectCommits ==
    ASSUME TypeOK, [Next]_vars, NEW j \in Job,
           \A t \in Thread : ~ Select(t) /\ ~ MarkRunning(t)
    PROVE  attempts' = attempts /\ Committed(j)' \subseteq Committed(j)
  <1>1. ThreadTypeOK
    BY DEF TypeOK
  <1> SUFFICES attempts' = attempts
               /\ \A u \in Thread : pc'[u] = "selected" => pc[u] = "selected" /\ held'[u] = held[u]
    BY DEF Committed, Holds
  <1> DEFINE Goal == /\ attempts' = attempts
                     /\ \A u \in Thread : pc'[u] = "selected" =>
                                            pc[u] = "selected" /\ held'[u] = held[u]
  <1> SUFFICES Goal
    OBVIOUS
  <1>2. ASSUME NEW t \in Thread, BeginPass(t) PROVE Goal
    BY <1>1, <1>2 DEF BeginPass, Goto, ThreadTypeOK, jobVars
  <1>3. ASSUME NEW t \in Thread, NEW o \in Object, DispatchSend(t, o) PROVE Goal
    BY <1>1, <1>3 DEF DispatchSend, Goto, ThreadTypeOK, jobVars
  <1>4. ASSUME NEW t \in Thread, DispatchReply(t) PROVE Goal
    BY <1>1, <1>4 DEF DispatchReply, Goto, ThreadTypeOK, jobVars
  <1>5. ASSUME NEW t \in Thread, EndDispatch(t) PROVE Goal
    BY <1>1, <1>5 DEF EndDispatch, Goto, Leave, ThreadTypeOK
  <1>6. ASSUME NEW t \in Thread, PassRequeue(t) \/ PassEnsure(t) \/ PassAppend(t) PROVE Goal
    BY <1>1, <1>6 DEF PassRequeue, PassEnsure, PassAppend, Goto, Leave, ThreadTypeOK, jobVars
  <1>7. ASSUME NEW t \in Thread, ResultStep(t) PROVE Goal
    BY <1>1, <1>7 DEF ResultStep, BookResult, RetryResult, RetryRequeue, RetryEnsure, RetryAppend, Goto, Leave, ThreadTypeOK, jobVars
  <1>8. ASSUME NEW t \in Thread, NEW k \in Job, SubmitJob(t, k) PROVE Goal
    BY <1>1, <1>8 DEF SubmitJob, Goto, ThreadTypeOK
  <1>9. ASSUME NEW t \in Thread, NEW n \in Node, NEW k \in Job, NEW ok \in BOOLEAN,
               JobResult(t, n, k, ok)
        PROVE  Goal
    BY <1>1, <1>9 DEF JobResult, Goto, ThreadTypeOK
  <1>10. CASE UNCHANGED <<attempts, threadVars>>
    BY <1>10 DEF threadVars
  <1>11. HealthStep => UNCHANGED <<attempts, threadVars>>
    BY DEF HealthStep, HealthList, HealthRemove, HealthRequeue, HealthEnsure, HealthAppend, HealthDone, jobVars
  <1>12. ASSUME NEW n \in Node, Heartbeat(n) \/ LateHeartbeat(n) \/ RegisterNode(n) \/ HealthDetect(n) \/ AgentCrash(n)
         PROVE  UNCHANGED <<attempts, threadVars>>
    BY <1>12 DEF Heartbeat, LateHeartbeat, RegisterNode, HealthDetect, AgentCrash, jobVars
  <1>13. ASSUME NEW n \in Node, NEW k \in Job, AgentStart(n, k) \/ LoseResult(n, k) \/ AgentForget(n, k)
         PROVE  UNCHANGED <<attempts, threadVars>>
    BY <1>13 DEF AgentStart, LoseResult, AgentForget, jobVars
  <1>14. CASE UNCHANGED vars
    BY <1>10, <1>14 DEF vars, jobVars
  <1>15. CASE Restart
    BY <1>15 DEF Restart, jobVars
  <1> QED
    BY <1>2, <1>3, <1>4, <1>5, <1>6, <1>7, <1>8, <1>9, <1>10, <1>15,
       <1>11, <1>12, <1>13, <1>14 DEF Next, PassStep

LEMMA AttemptsStep == TypeOK /\ AttemptsInv /\ [Next]_vars => AttemptsInv'
  <1> SUFFICES ASSUME TypeOK, AttemptsInv, [Next]_vars, NEW j \in Job
               PROVE  attempts'[j] + Cardinality(Committed(j)') < MaxRetries + Cardinality(Thread)
    BY DEF AttemptsInv
  <1>1. /\ JobTypeOK /\ ThreadTypeOK
        /\ attempts[j] \in Nat /\ MaxRetries \in Nat /\ Cardinality(Thread) \in Nat
        /\ Committed(j) \subseteq Thread /\ Committed(j)' \subseteq Thread
        /\ attempts[j] + Cardinality(Committed(j)) < MaxRetries + Cardinality(Thread)
    BY BoundAssumption, ThreadsAreFinite DEF TypeOK, JobTypeOK, AttemptsInv, Committed
  <1>2. CASE attempts'[j] = attempts[j] /\ Committed(j)' \subseteq Committed(j)
    BY <1>1, <1>2, CommittedIsFinite
  <1>3. ASSUME NEW t \in Thread, Select(t)
        PROVE  attempts'[j] + Cardinality(Committed(j)') < MaxRetries + Cardinality(Thread)
    <2>1. attempts' = attempts
      BY <1>3 DEF Select
    <2>2. CASE held[t] = j /\ ~ Exhausted(j)
      <3>1. attempts[j] < MaxRetries
        BY <1>1, <2>2 DEF Exhausted
      <3> QED
        BY <1>1, <2>1, <3>1, CommittedIsFinite
    <2>3. CASE held[t] # j \/ Exhausted(j)
      <3>1. Committed(j)' \subseteq Committed(j)
        BY <1>1, <1>3, <2>3 DEF Select, Committed, Holds, Goto, Leave, ThreadTypeOK
      <3> QED
        BY <1>2, <2>1, <3>1
    <2> QED
      BY <2>2, <2>3
  <1>4. ASSUME NEW t \in Thread, MarkRunning(t)
        PROVE  attempts'[j] + Cardinality(Committed(j)') < MaxRetries + Cardinality(Thread)
    <2>1. CASE held[t] = j
      <3>1. attempts'[j] = attempts[j] + 1
        BY <1>1, <1>4, <2>1 DEF MarkRunning, JobTypeOK
      <3>2. t \in Committed(j) /\ Committed(j)' = Committed(j) \ {t}
        BY <1>1, <1>4, <2>1 DEF MarkRunning, Committed, Holds, Goto, ThreadTypeOK
      <3>3. Cardinality(Committed(j)') = Cardinality(Committed(j)) - 1
        BY <1>1, <3>2, CommittedIsFinite, FS_RemoveElement
      <3> QED
        BY <1>1, <3>1, <3>3, CommittedIsFinite
    <2>2. CASE held[t] # j
      <3>1. attempts'[j] = attempts[j]
        BY <1>1, <1>4, <2>2 DEF MarkRunning, JobTypeOK
      <3>2. Committed(j)' \subseteq Committed(j)
        BY <1>1, <1>4, <2>2 DEF MarkRunning, Committed, Holds, Goto, ThreadTypeOK
      <3> QED
        BY <1>2, <3>1, <3>2
    <2> QED
      BY <2>1, <2>2
  <1> QED
    BY <1>2, <1>3, <1>4, SelectCommits

LEMMA AttemptsInit == Init => AttemptsInv
  <1> SUFFICES ASSUME Init, NEW j \in Job
               PROVE  attempts[j] + Cardinality(Committed(j)) < MaxRetries + Cardinality(Thread)
    BY DEF AttemptsInv
  <1>1. attempts[j] = 0 /\ Committed(j) = {}
    BY DEF Init, NoJobs, Committed, Holds
  <1> QED
    BY <1>1, FS_EmptySet, ThreadsAreFinite, BoundAssumption

\* The number of attempts stays below MAX_JOB_RETRIES plus the number of threads
\* that run schedule_once: each of them can add one attempt to a job whose count
\* it read below the limit, and no other step adds any.
THEOREM OverrunIsBounded == Spec => []AttemptsBounded
  <1>1. TypeOK /\ AttemptsInv => AttemptsBounded
    <2> SUFFICES ASSUME TypeOK, AttemptsInv, NEW j \in Job
                 PROVE  attempts[j] < MaxRetries + Cardinality(Thread)
      BY DEF AttemptsBounded
    <2>1. attempts[j] \in Nat /\ Cardinality(Committed(j)) \in Nat
      BY CommittedIsFinite DEF TypeOK, JobTypeOK, Committed
    <2> QED
      BY <2>1, BoundAssumption, ThreadsAreFinite DEF AttemptsInv
  <1> QED
    BY <1>1, TypeCorrect, AttemptsInit, AttemptsStep, PTL DEF Spec

-----------------------------------------------------------------------------
(* Status "failed" is final or being retried *)

LEMMA FailedStep == TypeOK /\ FailedIsExhausted /\ [Next]_vars => FailedIsExhausted'
  <1> DEFINE Retrying(j) == \E t \in Thread : Holds(t, j, {"finished", "booked", "retry"})
  <1> SUFFICES ASSUME TypeOK, FailedIsExhausted, [Next]_vars, restarts' = 0,
                      NEW j \in Job, status'[j] = "failed"
               PROVE  Exhausted(j)' \/ Retrying(j)'
    BY DEF FailedIsExhausted
  <1>1. status[j] = "failed" => Exhausted(j) \/ Retrying(j)
    BY RestartsCount DEF FailedIsExhausted
  <1>2. JobTypeOK /\ ThreadTypeOK /\ MaxRetries \in Nat
    BY BoundAssumption DEF TypeOK
  <1>3. ASSUME NEW t \in Thread, BeginPass(t) PROVE Exhausted(j)' \/ Retrying(j)'
    BY <1>1, <1>2, <1>3 DEF BeginPass, Goto, Holds, Exhausted, ThreadTypeOK, jobVars
  <1>4. ASSUME NEW t \in Thread, Select(t) PROVE Exhausted(j)' \/ Retrying(j)'
    BY <1>1, <1>2, <1>4 DEF Select, Goto, Leave, Holds, Exhausted, JobTypeOK, ThreadTypeOK
  <1>5. ASSUME NEW t \in Thread, MarkRunning(t) PROVE Exhausted(j)' \/ Retrying(j)'
    <2>1. attempts'[j] >= attempts[j] /\ attempts[j] \in Nat /\ attempts'[j] \in Nat
      BY <1>2, <1>5 DEF MarkRunning, JobTypeOK
    <2>2. status[j] = "failed"
      BY <1>2, <1>5 DEF MarkRunning, JobTypeOK
    <2>3. Retrying(j) => Retrying(j)'
      BY <1>2, <1>5 DEF MarkRunning, Goto, Holds, ThreadTypeOK
    <2> QED
      BY <1>1, <1>2, <2>1, <2>2, <2>3 DEF Exhausted
  <1>6. ASSUME NEW t \in Thread, NEW o \in Object, DispatchSend(t, o)
        PROVE  Exhausted(j)' \/ Retrying(j)'
    BY <1>1, <1>2, <1>6 DEF DispatchSend, Goto, Holds, Exhausted, ThreadTypeOK, jobVars
  <1>7. ASSUME NEW t \in Thread, DispatchReply(t) PROVE Exhausted(j)' \/ Retrying(j)'
    BY <1>1, <1>2, <1>7 DEF DispatchReply, Goto, Holds, Exhausted, ThreadTypeOK, jobVars
  <1>8. ASSUME NEW t \in Thread, EndDispatch(t) PROVE Exhausted(j)' \/ Retrying(j)'
    BY <1>1, <1>2, <1>8 DEF EndDispatch, Goto, Leave, Holds, Exhausted, ThreadTypeOK
  <1>9. ASSUME NEW t \in Thread, PassRequeue(t) PROVE Exhausted(j)' \/ Retrying(j)'
    BY <1>1, <1>2, <1>9 DEF PassRequeue, RequeueOrFail, Goto, Leave, Holds, Exhausted,
                            JobTypeOK, ThreadTypeOK
  <1>10. ASSUME NEW t \in Thread,
                PassEnsure(t) \/ RetryEnsure(t) \/ PassAppend(t) \/ RetryAppend(t)
         PROVE  Exhausted(j)' \/ Retrying(j)'
    BY <1>1, <1>2, <1>10 DEF PassEnsure, RetryEnsure, PassAppend, RetryAppend, Leave, Goto, Holds, Exhausted, ThreadTypeOK, jobVars
  <1>11. ASSUME NEW t \in Thread, BookResult(t) PROVE Exhausted(j)' \/ Retrying(j)'
    BY <1>1, <1>2, <1>11 DEF BookResult, Goto, Holds, Exhausted, ThreadTypeOK, jobVars
  <1>12. ASSUME NEW t \in Thread, RetryResult(t) \/ RetryRequeue(t)
         PROVE  Exhausted(j)' \/ Retrying(j)'
    BY <1>1, <1>2, <1>12 DEF RetryResult, RetryRequeue, RequeueOrFail, Goto, Leave, Holds, Exhausted,
                             JobTypeOK, ThreadTypeOK, jobVars
  <1>13. ASSUME NEW t \in Thread, NEW k \in Job, SubmitJob(t, k)
         PROVE  Exhausted(j)' \/ Retrying(j)'
    BY <1>1, <1>2, <1>13 DEF SubmitJob, EnqueueJob, Goto, Holds, Exhausted, JobTypeOK, ThreadTypeOK
  <1>14. ASSUME NEW t \in Thread, NEW n \in Node, NEW k \in Job, NEW ok \in BOOLEAN,
                JobResult(t, n, k, ok)
         PROVE  Exhausted(j)' \/ Retrying(j)'
    BY <1>1, <1>2, <1>14 DEF JobResult, Goto, Holds, Exhausted, JobTypeOK, ThreadTypeOK
  <1>15. ASSUME NEW k \in Job, HealthRequeue(k) PROVE Exhausted(j)' \/ Retrying(j)'
    BY <1>1, <1>2, <1>15 DEF HealthRequeue, RequeueOrFail, Holds, Exhausted, JobTypeOK, threadVars
  <1>16. CASE UNCHANGED <<jobVars, threadVars>>
    BY <1>1, <1>16 DEF Holds, Exhausted, jobVars, threadVars
  <1>17. HealthList \/ HealthRemove \/ HealthEnsure \/ HealthAppend \/ HealthDone => UNCHANGED <<jobVars, threadVars>>
    BY DEF HealthList, HealthRemove, HealthEnsure, HealthAppend, HealthDone
  <1>18. ASSUME NEW n \in Node, Heartbeat(n) \/ LateHeartbeat(n) \/ RegisterNode(n) \/ HealthDetect(n) \/ AgentCrash(n)
         PROVE  UNCHANGED <<jobVars, threadVars>>
    BY <1>18 DEF Heartbeat, LateHeartbeat, RegisterNode, HealthDetect, AgentCrash
  <1>19. ASSUME NEW n \in Node, NEW k \in Job, AgentStart(n, k) \/ LoseResult(n, k) \/ AgentForget(n, k)
         PROVE  UNCHANGED <<jobVars, threadVars>>
    BY <1>19 DEF AgentStart, LoseResult, AgentForget
  <1>20. UNCHANGED vars => UNCHANGED <<jobVars, threadVars>>
    BY DEF vars
  <1>21. ~ Restart
    BY DEF Restart, TypeOK
  <1> QED
    BY <1>3, <1>4, <1>5, <1>6, <1>7, <1>8, <1>9, <1>10, <1>11, <1>12, <1>13, <1>14, <1>15, <1>16,
       <1>17, <1>18, <1>19, <1>20, <1>21 DEF Next, PassStep, ResultStep, HealthStep

LEMMA FailedInit == Init => FailedIsExhausted
  BY DEF Init, FailedIsExhausted

\* While the process lives a job is given up only with its retries used, unless
\* the handler of a failed result is still on its way to the retry.
THEOREM NoEarlyFailure == Spec => []FailedIsExhausted
  BY TypeCorrect, FailedInit, FailedStep, PTL DEF Spec

-----------------------------------------------------------------------------
(* Running jobs *)

\* A thread carries no acceptances over from an earlier pass.
FreshPass == \A t \in Thread :
    pc[t] \notin {"dispatching", "calling", "requeue", "ensure", "append"} => got[t] = {}

LEMMA FreshPassStep == TypeOK /\ FreshPass /\ [Next]_vars => FreshPass'
  <1> SUFFICES ASSUME TypeOK, FreshPass, [Next]_vars PROVE FreshPass'
    OBVIOUS
  <1> USE DEF FreshPass
  <1>1. ThreadTypeOK
    BY DEF TypeOK
  <1>2. ASSUME NEW t \in Thread, BeginPass(t) \/ Select(t) \/ MarkRunning(t) PROVE FreshPass'
    BY <1>1, <1>2 DEF BeginPass, Select, MarkRunning, Goto, Leave, ThreadTypeOK, passVars
  <1>3. ASSUME NEW t \in Thread, DispatchReply(t) \/ \E o \in Object : DispatchSend(t, o)
        PROVE  FreshPass'
    BY <1>1, <1>3 DEF DispatchSend, DispatchReply, Goto, ThreadTypeOK
  <1>4. ASSUME NEW t \in Thread, EndDispatch(t) \/ PassRequeue(t) \/ PassEnsure(t) \/ PassAppend(t)
        PROVE  FreshPass'
    BY <1>1, <1>4 DEF EndDispatch, PassRequeue, PassEnsure, PassAppend, Goto, Leave, ThreadTypeOK, passVars
  <1>5. ASSUME NEW t \in Thread, ResultStep(t) PROVE FreshPass'
    BY <1>1, <1>5 DEF ResultStep, BookResult, RetryResult, RetryRequeue, RetryEnsure, RetryAppend,
                      Goto, Leave, ThreadTypeOK, passVars
  <1>6. ASSUME NEW t \in Thread, NEW k \in Job, SubmitJob(t, k) PROVE FreshPass'
    BY <1>1, <1>6 DEF SubmitJob, Goto, ThreadTypeOK, passVars
  <1>7. ASSUME NEW t \in Thread, NEW n \in Node, NEW k \in Job, NEW ok \in BOOLEAN,
               JobResult(t, n, k, ok)
        PROVE  FreshPass'
    BY <1>1, <1>7 DEF JobResult, Goto, ThreadTypeOK, passVars
  <1>8. CASE UNCHANGED threadVars
    BY <1>8 DEF threadVars, passVars
  <1>9. HealthStep \/ UNCHANGED vars => UNCHANGED threadVars
    BY DEF HealthStep, HealthList, HealthRemove, HealthRequeue, HealthEnsure, HealthAppend, HealthDone, vars
  <1>10. ASSUME NEW n \in Node, Heartbeat(n) \/ LateHeartbeat(n) \/ RegisterNode(n) \/ HealthDetect(n) \/ AgentCrash(n)
         PROVE  UNCHANGED threadVars
    BY <1>10 DEF Heartbeat, LateHeartbeat, RegisterNode, HealthDetect, AgentCrash
  <1>11. ASSUME NEW n \in Node, NEW k \in Job, AgentStart(n, k) \/ LoseResult(n, k) \/ AgentForget(n, k)
         PROVE  UNCHANGED threadVars
    BY <1>11 DEF AgentStart, LoseResult, AgentForget
  <1>12. CASE Restart
    BY <1>12 DEF Restart
  <1> QED
    BY <1>2, <1>3, <1>4, <1>5, <1>6, <1>7, <1>8, <1>9, <1>10, <1>11, <1>12 DEF Next, PassStep

\* An empty set of acceptances is never enough for a job.
LEMMA NeedsSomeone ==
    ASSUME NEW j \in Job, NEW S, Cardinality(S) >= Need[j]
    PROVE  S # {}
  BY FS_EmptySet, JobAssumption

LEMMA MovingStep == TypeOK /\ FreshPass /\ RunningIsMoving /\ [Next]_vars => RunningIsMoving'
  <1> SUFFICES ASSUME TypeOK, FreshPass, RunningIsMoving, [Next]_vars, restarts' = 0,
                      Faults \cap {"lostResult", "agentCrash"} = {},
                      NEW j \in Job, status'[j] = "running"
               PROVE  Moving(j)'
    BY DEF RunningIsMoving, NoStuckJob
  <1>1. status[j] = "running" => Moving(j)
    BY RestartsCount DEF RunningIsMoving, NoStuckJob
  <1>2. JobTypeOK /\ ThreadTypeOK /\ AgentTypeOK
    BY DEF TypeOK
  <1> USE <1>1, <1>2 DEF Moving, InExecution, Holds
  <1>3. ASSUME NEW t \in Thread, BeginPass(t) PROVE Moving(j)'
    BY <1>3 DEF BeginPass, Goto, ThreadTypeOK, jobVars, passVars, agentVars
  <1>4. ASSUME NEW t \in Thread, Select(t) PROVE Moving(j)'
    BY <1>4 DEF Select, Goto, Leave, JobTypeOK, ThreadTypeOK, agentVars
  <1>5. ASSUME NEW t \in Thread, MarkRunning(t) PROVE Moving(j)'
    BY <1>5 DEF MarkRunning, Goto, JobTypeOK, ThreadTypeOK, FreshPass, passVars, agentVars
  <1>6. ASSUME NEW t \in Thread, NEW o \in Object, DispatchSend(t, o) PROVE Moving(j)'
    <2>1. o[1] \in Node /\ held[t] \in Job
      BY <1>6 DEF DispatchSend, Object, ThreadTypeOK
    <2>2. CASE UNCHANGED <<accepted, pc>>
      BY <1>6, <2>2 DEF DispatchSend, ThreadTypeOK, jobVars
    <2>3. CASE accepted' = [accepted EXCEPT ![o[1]][held[t]] = @ + 1] /\ Goto(t, "calling")
      <3>1. \A n \in Node : accepted'[n][j] >= accepted[n][j] /\ accepted'[n][j] \in Nat
                            /\ accepted[n][j] \in Nat /\ executing[n][j] \in Nat
        BY <2>1, <2>3 DEF AgentTypeOK
      <3>2. InExecution(j) => InExecution(j)'
        BY <1>6, <3>1 DEF DispatchSend
      <3>3. CASE held[t] = j
        <4>1. accepted'[o[1]][j] > 0 /\ executing'[o[1]][j] \in Nat
          BY <1>6, <2>1, <2>3, <3>3 DEF DispatchSend, AgentTypeOK
        <4> QED
          BY <2>1, <3>1, <4>1
      <3>4. CASE held[t] # j
        BY <1>6, <2>3, <3>2, <3>4 DEF DispatchSend, Goto, ThreadTypeOK, jobVars
      <3> QED
        BY <3>3, <3>4
    <2> QED
      BY <1>6, <2>2, <2>3 DEF DispatchSend
  <1>7. ASSUME NEW t \in Thread, DispatchReply(t) PROVE Moving(j)'
    BY <1>7 DEF DispatchReply, Goto, ThreadTypeOK, jobVars, agentVars
  <1>8. ASSUME NEW t \in Thread, EndDispatch(t) PROVE Moving(j)'
    <2>1. CASE Cardinality(got[t]) >= Need[held[t]] /\ Leave(t, "idle")
      <3>1. held[t] = j => got[t] # {}
        BY <2>1, NeedsSomeone
      <3> QED
        BY <1>8, <2>1, <3>1 DEF EndDispatch, Goto, Leave, ThreadTypeOK, agentVars
    <2>2. CASE Goto(t, "requeue") /\ UNCHANGED <<held, passVars>>
      BY <1>8, <2>2 DEF EndDispatch, Goto, ThreadTypeOK, passVars, agentVars
    <2> QED
      BY <1>8, <2>1, <2>2 DEF EndDispatch
  <1>9. ASSUME NEW t \in Thread, PassRequeue(t) PROVE Moving(j)'
    BY <1>9 DEF PassRequeue, RequeueOrFail, Goto, Leave, JobTypeOK, ThreadTypeOK, passVars, agentVars
  <1>10. ASSUME NEW t \in Thread,
                PassEnsure(t) \/ RetryEnsure(t) \/ PassAppend(t) \/ RetryAppend(t)
         PROVE  Moving(j)'
    <2>1. /\ pc[t] \in {"ensure", "retryEnsure", "append", "retryAppend"}
          /\ \A u \in Thread \ {t} : UNCHANGED <<pc[u], held[u], got[u]>>
          /\ UNCHANGED <<jobVars, agentVars>>
      BY <1>10 DEF PassEnsure, RetryEnsure, PassAppend, RetryAppend, Goto, Leave, ThreadTypeOK, passVars
    <2> QED
      BY <2>1 DEF jobVars, agentVars
  <1>11. ASSUME NEW t \in Thread, BookResult(t) PROVE Moving(j)'
    BY <1>11 DEF BookResult, Goto, ThreadTypeOK, jobVars, passVars, agentVars
  <1>12. ASSUME NEW t \in Thread, RetryResult(t) \/ RetryRequeue(t) PROVE Moving(j)'
    BY <1>12 DEF RetryResult, RetryRequeue, RequeueOrFail, Goto, Leave, JobTypeOK, ThreadTypeOK,
                 jobVars, passVars, agentVars
  <1>13. ASSUME NEW t \in Thread, NEW k \in Job, SubmitJob(t, k) PROVE Moving(j)'
    BY <1>13 DEF SubmitJob, EnqueueJob, Goto, JobTypeOK, ThreadTypeOK, passVars, agentVars
  <1>14. ASSUME NEW t \in Thread, NEW n \in Node, NEW k \in Job, NEW ok \in BOOLEAN,
                JobResult(t, n, k, ok)
         PROVE  Moving(j)'
    <2>1. k # j /\ status[j] = "running"
      BY <1>14 DEF JobResult, JobTypeOK
    <2>2. \A m \in Node : executing'[m][j] = executing[m][j] /\ accepted'[m][j] = accepted[m][j]
      BY <1>14, <2>1 DEF JobResult, AgentTypeOK
    <2> QED
      BY <1>14, <2>1, <2>2 DEF JobResult, Goto, ThreadTypeOK, passVars
  <1>15. ASSUME NEW k \in Job, HealthRequeue(k) PROVE Moving(j)'
    BY <1>15 DEF HealthRequeue, RequeueOrFail, JobTypeOK, threadVars, passVars, agentVars
  <1>16. ASSUME NEW n \in Node, NEW k \in Job, AgentStart(n, k) PROVE Moving(j)'
    <2>1. \A m \in Node : accepted'[m][j] + executing'[m][j] = accepted[m][j] + executing[m][j]
      BY <1>16 DEF AgentStart, AgentTypeOK
    <2> QED
      BY <1>16, <2>1 DEF AgentStart, jobVars, threadVars, passVars
  <1>17. CASE UNCHANGED <<jobVars, threadVars, accepted, executing>>
    BY <1>17 DEF jobVars, threadVars, passVars
  <1>18. HealthList \/ HealthRemove \/ HealthEnsure \/ HealthAppend \/ HealthDone \/ UNCHANGED vars
           => UNCHANGED <<jobVars, threadVars, accepted, executing>>
    BY DEF HealthList, HealthRemove, HealthEnsure, HealthAppend, HealthDone, agentVars, vars
  <1>19. ASSUME NEW n \in Node, Heartbeat(n) \/ LateHeartbeat(n) \/ RegisterNode(n) \/ HealthDetect(n)
         PROVE  UNCHANGED <<jobVars, threadVars, accepted, executing>>
    BY <1>19 DEF Heartbeat, LateHeartbeat, RegisterNode, HealthDetect, agentVars
  <1>20. ASSUME NEW n \in Node, NEW k \in Job, AgentForget(n, k)
         PROVE  UNCHANGED <<jobVars, threadVars, accepted, executing>>
    BY <1>20 DEF AgentForget
  <1>21. ~ Restart /\ (\A n \in Node : ~ AgentCrash(n)) /\ \A n \in Node, k \in Job : ~ LoseResult(n, k)
    BY DEF Restart, TypeOK, AgentCrash, LoseResult
  <1> QED
    BY <1>3, <1>4, <1>5, <1>6, <1>7, <1>8, <1>9, <1>10, <1>11, <1>12, <1>13, <1>14, <1>15, <1>16,
       <1>17, <1>18, <1>19, <1>20, <1>21 DEF Next, PassStep, ResultStep, HealthStep

LEMMA MovingInit == Init => FreshPass /\ RunningIsMoving
  BY DEF Init, FreshPass, RunningIsMoving, NoStuckJob

\* Where agents neither crash nor lose results, no interleaving of passes,
\* results, node deaths, refusals and timeouts leaves a running job that no
\* agent has and no pass is about to deliver or to give back.
THEOREM NoRunningJobStuck == Spec => []RunningIsMoving
  BY TypeCorrect, MovingInit, FreshPassStep, MovingStep, PTL DEF Spec

LEMMA AssignedStep == TypeOK /\ RunningIsAssigned /\ [Next]_vars => RunningIsAssigned'
  <1> DEFINE Delivering(j) == \E t \in Thread : Holds(t, j, {"dispatching", "calling", "requeue"})
             Enough(j) == Cardinality(assigned[j]) >= Need[j]
  <1> SUFFICES ASSUME TypeOK, RunningIsAssigned, [Next]_vars, restarts' = 0,
                      NEW j \in Job, status'[j] = "running"
               PROVE  Enough(j)' \/ Delivering(j)'
    BY DEF RunningIsAssigned
  <1>1. status[j] = "running" => Enough(j) \/ Delivering(j)
    BY RestartsCount DEF RunningIsAssigned
  <1>2. JobTypeOK /\ ThreadTypeOK
    BY DEF TypeOK
  <1> USE <1>1, <1>2 DEF Holds
  <1>3. ASSUME NEW t \in Thread, BeginPass(t) \/ BookResult(t) PROVE Enough(j)' \/ Delivering(j)'
    BY <1>3 DEF BeginPass, BookResult, Goto, ThreadTypeOK, jobVars
  <1>4. ASSUME NEW t \in Thread, Select(t) PROVE Enough(j)' \/ Delivering(j)'
    BY <1>4 DEF Select, Goto, Leave, JobTypeOK, ThreadTypeOK
  <1>5. ASSUME NEW t \in Thread, MarkRunning(t) PROVE Enough(j)' \/ Delivering(j)'
    BY <1>5 DEF MarkRunning, Goto, JobTypeOK, ThreadTypeOK
  <1>6. ASSUME NEW t \in Thread, DispatchReply(t) \/ \E o \in Object : DispatchSend(t, o)
        PROVE  Enough(j)' \/ Delivering(j)'
    BY <1>6 DEF DispatchSend, DispatchReply, Goto, ThreadTypeOK, jobVars
  <1>7. ASSUME NEW t \in Thread, EndDispatch(t) PROVE Enough(j)' \/ Delivering(j)'
    <2>1. CASE Goto(t, "requeue") /\ UNCHANGED <<assigned, held, passVars>>
      BY <1>7, <2>1 DEF EndDispatch, Goto, ThreadTypeOK
    <2>2. CASE /\ Cardinality(got[t]) >= Need[held[t]]
               /\ assigned' = [assigned EXCEPT ![held[t]] = got[t]]
               /\ Leave(t, "idle")
      <3>1. CASE held[t] = j
        BY <2>2, <3>1 DEF JobTypeOK
      <3>2. CASE held[t] # j
        BY <1>7, <2>2, <3>2 DEF EndDispatch, Leave, Goto, JobTypeOK, ThreadTypeOK
      <3> QED
        BY <3>1, <3>2
    <2> QED
      BY <1>7, <2>1, <2>2 DEF EndDispatch
  <1>8. ASSUME NEW t \in Thread, PassRequeue(t) \/ RetryRequeue(t)
        PROVE  Enough(j)' \/ Delivering(j)'
    BY <1>8 DEF PassRequeue, RetryRequeue, RequeueOrFail, Goto, Leave, JobTypeOK, ThreadTypeOK
  <1>9. ASSUME NEW t \in Thread, \/ PassEnsure(t) \/ RetryEnsure(t) \/ RetryResult(t)
                                 \/ PassAppend(t) \/ RetryAppend(t)
        PROVE  Enough(j)' \/ Delivering(j)'
    BY <1>9 DEF PassEnsure, RetryEnsure, RetryResult, PassAppend, RetryAppend, Goto, Leave, ThreadTypeOK, jobVars
  <1>10. ASSUME NEW t \in Thread, NEW k \in Job, SubmitJob(t, k)
         PROVE  Enough(j)' \/ Delivering(j)'
    BY <1>10 DEF SubmitJob, EnqueueJob, Goto, JobTypeOK, ThreadTypeOK
  <1>11. ASSUME NEW t \in Thread, NEW n \in Node, NEW k \in Job, NEW ok \in BOOLEAN,
                JobResult(t, n, k, ok)
         PROVE  Enough(j)' \/ Delivering(j)'
    BY <1>11 DEF JobResult, Goto, JobTypeOK, ThreadTypeOK
  <1>12. ASSUME NEW k \in Job, HealthRequeue(k) PROVE Enough(j)' \/ Delivering(j)'
    BY <1>12 DEF HealthRequeue, RequeueOrFail, JobTypeOK, threadVars
  <1>13. CASE UNCHANGED <<jobVars, threadVars>>
    BY <1>13 DEF jobVars, threadVars
  <1>14. HealthList \/ HealthRemove \/ HealthEnsure \/ HealthAppend \/ HealthDone \/ UNCHANGED vars
           => UNCHANGED <<jobVars, threadVars>>
    BY DEF HealthList, HealthRemove, HealthEnsure, HealthAppend, HealthDone, vars
  <1>15. ASSUME NEW n \in Node, Heartbeat(n) \/ LateHeartbeat(n) \/ RegisterNode(n) \/ HealthDetect(n) \/ AgentCrash(n)
         PROVE  UNCHANGED <<jobVars, threadVars>>
    BY <1>15 DEF Heartbeat, LateHeartbeat, RegisterNode, HealthDetect, AgentCrash
  <1>16. ASSUME NEW n \in Node, NEW k \in Job, AgentStart(n, k) \/ LoseResult(n, k) \/ AgentForget(n, k)
         PROVE  UNCHANGED <<jobVars, threadVars>>
    BY <1>16 DEF AgentStart, LoseResult, AgentForget
  <1>17. ~ Restart
    BY DEF Restart, TypeOK
  <1> QED
    BY <1>3, <1>4, <1>5, <1>6, <1>7, <1>8, <1>9, <1>10, <1>11, <1>12, <1>13, <1>14, <1>15, <1>16,
       <1>17 DEF Next, PassStep, ResultStep, HealthStep

LEMMA AssignedInit == Init => RunningIsAssigned
  BY DEF Init, RunningIsAssigned

\* However passes for one job overlap, a running job that no pass works on any
\* more is assigned to as many nodes as it needs.
THEOREM NoPartialGang == Spec => []RunningIsAssigned
  BY TypeCorrect, AssignedInit, AssignedStep, PTL DEF Spec

-----------------------------------------------------------------------------
(* The queue *)

\* Every job that waits in the queue or that a thread may put back was submitted.
KnownJobs ==
    /\ \A i \in DOMAIN queue : status[queue[i]] # "none"
    /\ \A t \in Thread : pc[t] \notin {"idle", "tick"} => status[held[t]] # "none"
    /\ hpc \in {"ensure", "append"} => status[hjob] # "none"

\* The places of a job in the queue, those that wait to add one, and the bound.
Places(j) == Cardinality(Listed(j)) + Cardinality(Appending(j)) + HealthAppends(j)

Bounded(j) == Places(j) <= Cardinality(Thread) + 1

\* The places of a job in a queue are a finite set.
LEMMA PlacesAreFinite ==
    ASSUME NEW q \in Seq(Job), NEW j \in Job
    PROVE  LET places == {i \in DOMAIN q : q[i] = j} IN
           IsFiniteSet(places) /\ Cardinality(places) \in Nat
  <1>1. {i \in DOMAIN q : q[i] = j} \subseteq 1 .. Len(q) /\ Len(q) \in Nat
    OBVIOUS
  <1>2. IsFiniteSet(1 .. Len(q))
    BY <1>1, FS_Interval
  <1> QED
    BY <1>1, <1>2, FS_Subset, FS_CardinalityType

\* Before and after a step.
LEMMA PlacesType ==
    ASSUME JobTypeOK, NEW j \in Job
    PROVE  /\ IsFiniteSet(Listed(j)) /\ Cardinality(Listed(j)) \in Nat
           /\ IsFiniteSet(Appending(j)) /\ Cardinality(Appending(j)) \in Nat
           /\ Cardinality(Appending(j)) <= Cardinality(Thread)
           /\ HealthAppends(j) \in {0, 1} /\ Cardinality(Thread) \in Nat \ {0}
  <1>1. Appending(j) \subseteq Thread
    BY DEF Appending
  <1> QED
    BY <1>1, PlacesAreFinite, CommittedIsFinite, ThreadsAreFinite DEF HealthAppends, Listed, JobTypeOK

LEMMA PlacesNext ==
    ASSUME JobTypeOK', NEW j \in Job
    PROVE  /\ Cardinality(Listed(j)') \in Nat /\ Cardinality(Appending(j)') \in Nat
           /\ Cardinality(Appending(j)') <= Cardinality(Thread)
           /\ HealthAppends(j)' \in {0, 1}
  <1>1. Appending(j)' \subseteq Thread
    BY DEF Appending
  <1> QED
    BY <1>1, PlacesAreFinite, CommittedIsFinite DEF HealthAppends, Listed, JobTypeOK

\* A thread that finds the job missing finds room for all the appends that wait.
LEMMA RoomWhenMissing ==
    ASSUME JobTypeOK, NEW j \in Job, ~ Queued(j)
    PROVE  Bounded(j)
  <1>1. Listed(j) = {}
    BY DEF Queued, Listed
  <1> QED
    BY <1>1, PlacesType, FS_EmptySet DEF Bounded, Places

\* A step that neither lists the job once more nor is the last of a test.
LEMMA BoundedKept ==
    ASSUME JobTypeOK, JobTypeOK', NEW j \in Job, Bounded(j),
           Cardinality(Listed(j)') <= Cardinality(Listed(j)),
           Appending(j)' \subseteq Appending(j),
           HealthAppends(j)' <= HealthAppends(j)
    PROVE  Bounded(j)'
  <1>1. /\ Cardinality(Listed(j)') \in Nat /\ Cardinality(Appending(j)') \in Nat
        /\ HealthAppends(j)' \in {0, 1}
    BY PlacesNext
  <1>2. Cardinality(Appending(j)') <= Cardinality(Appending(j))
    BY PlacesType, FS_Subset
  <1> QED
    BY <1>1, <1>2, PlacesType DEF Bounded, Places

\* An append adds one place, of its job.
LEMMA AppendPlaces ==
    ASSUME JobTypeOK, NEW k \in Job, queue' = Append(queue, k), NEW j \in Job
    PROVE  /\ j = k => Cardinality(Listed(j)') = Cardinality(Listed(j)) + 1
           /\ j # k => Listed(j)' = Listed(j)
           /\ \A i \in DOMAIN queue' : queue'[i] = k \/ Queued(queue'[i])
  <1>1. /\ Len(queue') = Len(queue) + 1 /\ queue' \in Seq(Job)
        /\ queue'[Len(queue) + 1] = k
        /\ \A i \in 1 .. Len(queue) : queue'[i] = queue[i]
    BY AppendProperties DEF JobTypeOK
  <1>2. /\ Len(queue) \in Nat
        /\ DOMAIN queue = 1 .. Len(queue) /\ DOMAIN queue' = 1 .. (Len(queue) + 1)
    BY <1>1 DEF JobTypeOK
  <1>3. /\ j = k => Listed(j)' = Listed(j) \cup {Len(queue) + 1}
        /\ j # k => Listed(j)' = Listed(j)
    BY <1>1, <1>2 DEF Listed
  <1>4. Len(queue) + 1 \notin Listed(j)
    BY <1>2 DEF Listed
  <1>5. \A i \in DOMAIN queue' : queue'[i] = k \/ Queued(queue'[i])
    BY <1>1, <1>2 DEF Queued
  <1> QED
    BY <1>3, <1>4, <1>5, PlacesType, FS_AddElement

\* pop_next_job takes the first job off and adds no place.
LEMMA PopPlaces ==
    ASSUME JobTypeOK, queue # << >>, queue' = Tail(queue)
    PROVE  /\ \A j \in Job : Cardinality(Listed(j)') <= Cardinality(Listed(j))
           /\ \A i \in DOMAIN queue' : Queued(queue'[i])
           /\ Queued(Head(queue))
  <1>1. /\ Len(queue) \in Nat \ {0} /\ DOMAIN queue = 1 .. Len(queue)
        /\ Len(queue') = Len(queue) - 1 /\ queue' \in Seq(Job)
        /\ \A m \in 1 .. Len(queue') : queue'[m] = queue[m + 1]
        /\ Head(queue) = queue[1]
    BY HeadTailProperties, EmptySeq DEF JobTypeOK
  <1>2. DOMAIN queue' = 1 .. Len(queue')
    BY <1>1
  <1>3. \A m \in DOMAIN queue' : m + 1 \in DOMAIN queue /\ queue'[m] = queue[m + 1]
    BY <1>1, <1>2
  <1>4. ASSUME NEW j \in Job PROVE Cardinality(Listed(j)') <= Cardinality(Listed(j))
    <2> DEFINE shift == [m \in Listed(j)' |-> m + 1]
    <2>1. shift \in Injection(Listed(j)', Listed(j))
      <3>1. \A m \in Listed(j)' : m \in Int /\ m + 1 \in Listed(j)
        BY <1>2, <1>3 DEF Listed
      <3> QED
        BY <3>1 DEF Injection, IsInjective
    <2> QED
      BY <2>1, PlacesType, FS_Injection
  <1> QED
    BY <1>1, <1>3, <1>4 DEF Queued

\* A job is never taken out of memory.jobs.
LEMMA JobsStay ==
    ASSUME TypeOK, [Next]_vars, NEW j \in Job, status[j] # "none"
    PROVE  status'[j] # "none"
  <1>1. status \in [Job -> Status]
    BY DEF TypeOK, JobTypeOK
  <1>2. ASSUME NEW t \in Thread, BeginPass(t) \/ PassStep(t) \/ ResultStep(t)
        PROVE  status'[j] # "none"
    BY <1>1, <1>2 DEF BeginPass, PassStep, Select, MarkRunning, DispatchSend, DispatchReply,
                EndDispatch, PassRequeue, PassEnsure, PassAppend, ResultStep, BookResult,
                RetryResult, RetryRequeue, RetryEnsure, RetryAppend, RequeueOrFail, jobVars
  <1>3. ASSUME NEW t \in Thread, NEW k \in Job, SubmitJob(t, k) PROVE status'[j] # "none"
    BY <1>1, <1>3 DEF SubmitJob, EnqueueJob
  <1>4. ASSUME NEW t \in Thread, NEW n \in Node, NEW k \in Job, NEW ok \in BOOLEAN,
               JobResult(t, n, k, ok)
        PROVE  status'[j] # "none"
    BY <1>1, <1>4 DEF JobResult
  <1>5. CASE HealthStep
    BY <1>1, <1>5 DEF HealthStep, HealthList, HealthRemove, HealthRequeue, RequeueOrFail,
                      HealthEnsure, HealthAppend, HealthDone, jobVars
  <1>6. CASE UNCHANGED jobVars
    BY <1>6 DEF jobVars
  <1>7. ASSUME NEW n \in Node, Heartbeat(n) \/ LateHeartbeat(n) \/ RegisterNode(n) \/ HealthDetect(n) \/ AgentCrash(n)
        PROVE  UNCHANGED jobVars
    BY <1>7 DEF Heartbeat, LateHeartbeat, RegisterNode, HealthDetect, AgentCrash
  <1>8. ASSUME NEW n \in Node, NEW k \in Job, AgentStart(n, k) \/ LoseResult(n, k) \/ AgentForget(n, k)
        PROVE  UNCHANGED jobVars
    BY <1>8 DEF AgentStart, LoseResult, AgentForget
  <1>9. Restart \/ UNCHANGED vars => UNCHANGED jobVars
    BY DEF Restart, vars
  <1> QED
    BY <1>2, <1>3, <1>4, <1>5, <1>6, <1>7, <1>8, <1>9 DEF Next

\* The steps that change the queue: an append of the scheduler, of job_result,
\* of the health loop and of submit_job, and a pop.
QueueChanges ==
    \/ \E t \in Thread : BeginPass(t) \/ PassAppend(t) \/ RetryAppend(t)
    \/ \E t \in Thread, j \in Job : SubmitJob(t, j)
    \/ HealthAppend

LEMMA QueueFrame ==
    ASSUME [Next]_vars, ~ QueueChanges
    PROVE  UNCHANGED queue
  <1>1. ASSUME NEW t \in Thread, PassStep(t) \/ ResultStep(t) PROVE UNCHANGED queue
    BY <1>1 DEF QueueChanges, PassStep, Select, MarkRunning, DispatchSend, DispatchReply,
                EndDispatch, PassRequeue, PassEnsure, ResultStep, BookResult, RetryResult,
                RetryRequeue, RetryEnsure
  <1>2. HealthStep \/ Restart \/ UNCHANGED vars => UNCHANGED queue
    BY DEF QueueChanges, HealthStep, HealthList, HealthRemove, HealthRequeue, HealthEnsure,
           HealthDone, Restart, vars
  <1>3. CASE ~ (HealthStep \/ Restart \/ UNCHANGED vars)
    BY <1>1, <1>3 DEF QueueChanges, Next, JobResult, Heartbeat, LateHeartbeat, RegisterNode,
                      HealthDetect, AgentCrash, AgentStart, LoseResult, AgentForget
  <1> QED
    BY <1>2, <1>3

\* Only a test that failed makes a thread about to append, and its job is missing.
LEMMA AppendingStep ==
    ASSUME TypeOK, [Next]_vars, NEW j \in Job, Queued(j)
    PROVE  Appending(j)' \subseteq Appending(j) /\ HealthAppends(j)' <= HealthAppends(j)
  <1>1. ThreadTypeOK
    BY DEF TypeOK
  <1> DEFINE Kept == \A u \in Thread : /\ pc'[u] \in {"append", "retryAppend"} /\ held'[u] = j
                                       => pc[u] = pc'[u] /\ held[u] = j
             HealthKept == hpc' = "append" /\ hjob' = j => hpc = "append" /\ hjob = j
  <1>2. ASSUME NEW t \in Thread, BeginPass(t) \/ PassStep(t) \/ ResultStep(t) PROVE Kept
    <2>1. CASE PassEnsure(t) \/ RetryEnsure(t)
      BY <1>1, <2>1 DEF PassEnsure, RetryEnsure, NotListed, Goto, Leave, ThreadTypeOK
    <2>2. CASE PassAppend(t) \/ RetryAppend(t) \/ BeginPass(t)
      BY <1>1, <2>2 DEF PassAppend, RetryAppend, BeginPass, Goto, Leave, ThreadTypeOK
    <2>3. CASE Select(t) \/ MarkRunning(t) \/ DispatchReply(t) \/ EndDispatch(t)
      BY <1>1, <2>3 DEF Select, MarkRunning, DispatchReply, EndDispatch, Goto, Leave, ThreadTypeOK
    <2>4. ASSUME NEW o \in Object, DispatchSend(t, o) PROVE Kept
      BY <1>1, <2>4 DEF DispatchSend, Goto, ThreadTypeOK
    <2>5. CASE PassRequeue(t) \/ BookResult(t) \/ RetryResult(t) \/ RetryRequeue(t)
      BY <1>1, <2>5 DEF PassRequeue, BookResult, RetryResult, RetryRequeue, Goto, Leave, ThreadTypeOK
    <2> QED
      BY <1>2, <2>1, <2>2, <2>3, <2>4, <2>5 DEF PassStep, ResultStep
  <1>3. ASSUME NEW t \in Thread, NEW k \in Job,
               SubmitJob(t, k) \/ \E n \in Node, ok \in BOOLEAN : JobResult(t, n, k, ok)
        PROVE  Kept
    BY <1>1, <1>3 DEF SubmitJob, JobResult, Goto, ThreadTypeOK
  <1>4. Restart => Kept /\ HealthKept
    BY DEF Restart
  <1>5. UNCHANGED <<pc, held>> => Kept
    OBVIOUS
  <1>6. UNCHANGED healthVars => HealthKept
    BY DEF healthVars
  <1>7. HealthStep => UNCHANGED <<pc, held>> /\ HealthKept
    BY DEF HealthStep, HealthList, HealthRemove, HealthRequeue, HealthEnsure, HealthAppend,
           HealthDone, NotListed, threadVars
  <1>8. ASSUME NEW n \in Node, Heartbeat(n) \/ LateHeartbeat(n) \/ RegisterNode(n) \/ AgentCrash(n)
        PROVE  UNCHANGED <<pc, held, healthVars>>
    BY <1>8 DEF Heartbeat, LateHeartbeat, RegisterNode, AgentCrash, threadVars
  <1>9. ASSUME NEW n \in Node, HealthDetect(n) PROVE UNCHANGED <<pc, held>> /\ HealthKept
    BY <1>9 DEF HealthDetect, threadVars
  <1>10. ASSUME NEW n \in Node, NEW k \in Job, AgentStart(n, k) \/ LoseResult(n, k) \/ AgentForget(n, k)
         PROVE  UNCHANGED <<pc, held, healthVars>>
    BY <1>10 DEF AgentStart, LoseResult, AgentForget, threadVars
  <1>11. ASSUME NEW t \in Thread, \/ BeginPass(t) \/ PassStep(t) \/ ResultStep(t)
                                  \/ \E k \in Job : SubmitJob(t, k)
                                  \/ \E n \in Node, k \in Job, ok \in BOOLEAN : JobResult(t, n, k, ok)
         PROVE  UNCHANGED healthVars
    BY <1>11 DEF BeginPass, PassStep, Select, MarkRunning, DispatchSend, DispatchReply, EndDispatch,
                 PassRequeue, PassEnsure, PassAppend, ResultStep, BookResult, RetryResult,
                 RetryRequeue, RetryEnsure, RetryAppend, SubmitJob, JobResult
  <1>12. UNCHANGED vars => UNCHANGED <<pc, held, healthVars>>
    BY DEF vars, threadVars
  <1>13. Kept /\ HealthKept
    <2> HIDE DEF Kept, HealthKept
    <2> QED
      BY <1>2, <1>3, <1>4, <1>5, <1>6, <1>7, <1>8, <1>9, <1>10, <1>11, <1>12 DEF Next
  <1> QED
    BY <1>13 DEF Appending, Holds, HealthAppends

\* The bound is kept by each of the appends and by the rest.
LEMMA BoundedStep ==
    ASSUME TypeOK, [Next]_vars, NEW j \in Job, Bounded(j)
    PROVE  Bounded(j)'
  <1>1. JobTypeOK /\ JobTypeOK' /\ ThreadTypeOK
    BY TypeStep DEF TypeOK
  <1>2. /\ Cardinality(Listed(j)) \in Nat /\ Cardinality(Appending(j)) \in Nat
        /\ Cardinality(Appending(j)) <= Cardinality(Thread)
        /\ HealthAppends(j) \in {0, 1} /\ Cardinality(Thread) \in Nat \ {0}
    BY <1>1, PlacesType
  <1>3. CASE ~ Queued(j)'
    <2>1. Listed(j)' = {}
      BY <1>3 DEF Queued, Listed
    <2>2. /\ Cardinality(Appending(j)') \in Nat /\ HealthAppends(j)' \in {0, 1}
          /\ Cardinality(Appending(j)') <= Cardinality(Thread)
      BY <1>1, PlacesNext
    <2> QED
      BY <1>2, <2>1, <2>2, FS_EmptySet DEF Bounded, Places
  <1>4. CASE Queued(j)' /\ ~ QueueChanges
    <2>1. UNCHANGED queue
      BY <1>4, QueueFrame
    <2>2. Queued(j) /\ Listed(j)' = Listed(j)
      BY <1>4, <2>1 DEF Queued, Listed
    <2> QED
      BY <1>1, <1>2, <2>2, AppendingStep, BoundedKept
  <1>5. ASSUME NEW t \in Thread, BeginPass(t) PROVE Bounded(j)'
    <2>1. Cardinality(Listed(j)') <= Cardinality(Listed(j))
      <3>1. CASE queue = << >>
        BY <1>2, <1>5, <3>1 DEF BeginPass, Listed
      <3>2. CASE queue # << >>
        BY <1>1, <1>5, <3>2, PopPlaces DEF BeginPass
      <3> QED
        BY <3>1, <3>2
    <2>2. Appending(j)' \subseteq Appending(j) /\ HealthAppends(j)' = HealthAppends(j)
      BY <1>1, <1>5 DEF BeginPass, Goto, Appending, Holds, HealthAppends, ThreadTypeOK, healthVars
    <2> QED
      BY <1>1, <1>2, <2>1, <2>2, BoundedKept
  <1>6. ASSUME NEW t \in Thread, PassAppend(t) \/ RetryAppend(t) PROVE Bounded(j)'
    <2>1. held[t] \in Job /\ queue' = Append(queue, held[t])
      BY <1>1, <1>6 DEF PassAppend, RetryAppend, ThreadTypeOK
    <2>2. HealthAppends(j)' = HealthAppends(j)
      BY <1>6 DEF PassAppend, RetryAppend, HealthAppends, healthVars
    <2>3. CASE held[t] = j
      <3>1. Cardinality(Listed(j)') = Cardinality(Listed(j)) + 1
        BY <1>1, <2>1, <2>3, AppendPlaces
      <3>2. t \in Appending(j) /\ Appending(j)' = Appending(j) \ {t}
        BY <1>1, <1>6, <2>3 DEF PassAppend, RetryAppend, Leave, Goto, Appending, Holds, ThreadTypeOK
      <3>3. Cardinality(Appending(j)') = Cardinality(Appending(j)) - 1
        BY <1>1, <3>2, PlacesType, FS_RemoveElement
      <3> QED
        BY <1>2, <2>2, <3>1, <3>3 DEF Bounded, Places
    <2>4. CASE held[t] # j
      <3>1. Listed(j)' = Listed(j)
        BY <1>1, <2>1, <2>4, AppendPlaces
      <3>2. Appending(j)' \subseteq Appending(j)
        BY <1>1, <1>6, <2>4 DEF PassAppend, RetryAppend, Leave, Goto, Appending, Holds, ThreadTypeOK
      <3> QED
        BY <1>1, <1>2, <2>2, <3>1, <3>2, BoundedKept
    <2> QED
      BY <2>3, <2>4
  <1>7. CASE HealthAppend
    <2>1. hjob \in Job /\ queue' = Append(queue, hjob) /\ hpc = "append" /\ hpc' = "requeue"
      BY <1>7 DEF HealthAppend, TypeOK, HealthTypeOK
    <2>2. Appending(j)' = Appending(j)
      BY <1>7 DEF HealthAppend, Appending, Holds, threadVars
    <2>3. HealthAppends(j)' = 0 /\ (hjob = j => HealthAppends(j) = 1)
      BY <2>1 DEF HealthAppends
    <2>4. CASE hjob = j
      <3>1. Cardinality(Listed(j)') = Cardinality(Listed(j)) + 1
        BY <1>1, <2>1, <2>4, AppendPlaces
      <3> QED
        BY <1>2, <2>2, <2>3, <2>4, <3>1 DEF Bounded, Places
    <2>5. CASE hjob # j
      <3>1. Listed(j)' = Listed(j)
        BY <1>1, <2>1, <2>5, AppendPlaces
      <3> QED
        BY <1>1, <1>2, <2>2, <2>3, <3>1, BoundedKept
    <2> QED
      BY <2>4, <2>5
  <1>8. ASSUME NEW t \in Thread, NEW k \in Job, SubmitJob(t, k) PROVE Bounded(j)'
    <2>1. Appending(j)' = Appending(j) /\ HealthAppends(j)' = HealthAppends(j)
      BY <1>1, <1>8 DEF SubmitJob, Goto, Appending, Holds, HealthAppends, ThreadTypeOK, healthVars
    <2>2. CASE k = j /\ ~ Queued(j)
      <3>1. Cardinality(Listed(j)) = 0
        <4>1. Listed(j) = {}
          BY <2>2 DEF Queued, Listed
        <4> QED
          BY <4>1, FS_EmptySet
      <3>2. Cardinality(Listed(j)') = Cardinality(Listed(j)) + 1
        BY <1>1, <1>8, <2>2, AppendPlaces DEF SubmitJob, EnqueueJob, NotListed
      <3>3. Cardinality(Appending(j)) < Cardinality(Thread)
        <4>1. Appending(j) \subseteq Thread \ {t}
          BY <1>8 DEF SubmitJob, Appending, Holds
        <4>2. /\ IsFiniteSet(Thread \ {t})
              /\ Cardinality(Thread \ {t}) = Cardinality(Thread) - 1
          BY ThreadsAreFinite, FS_RemoveElement
        <4>3. Cardinality(Appending(j)) <= Cardinality(Thread \ {t})
          BY <4>1, <4>2, FS_Subset
        <4> QED
          BY <1>2, <4>2, <4>3
      <3> QED
        BY <1>2, <2>1, <3>1, <3>2, <3>3 DEF Bounded, Places
    <2>3. CASE k # j \/ Queued(j)
      <3>1. Listed(j)' = Listed(j)
        <4>1. CASE queue' = queue
          BY <4>1 DEF Listed
        <4>2. CASE queue' = Append(queue, k) /\ k # j
          BY <1>1, <4>2, AppendPlaces
        <4> QED
          BY <1>8, <2>3, <4>1, <4>2 DEF SubmitJob, EnqueueJob, NotListed
      <3> QED
        BY <1>1, <1>2, <2>1, <3>1, BoundedKept
    <2> QED
      BY <2>2, <2>3
  <1> QED
    BY <1>3, <1>4, <1>5, <1>6, <1>7, <1>8 DEF QueueChanges

\* What an append does to the entries of the queue.
LEMMA KnownAfterAppend ==
    ASSUME TypeOK, [Next]_vars, KnownJobs, NEW j \in Job, queue' = Append(queue, j),
           status'[j] # "none"
    PROVE  \A i \in DOMAIN queue' : status'[queue'[i]] # "none"
  <1>1. JobTypeOK
    BY DEF TypeOK
  <1>2. \A i \in DOMAIN queue' : queue'[i] = j \/ Queued(queue'[i])
    BY <1>1, AppendPlaces
  <1>3. \A k : Queued(k) => k \in Job /\ status[k] # "none"
    BY <1>1 DEF Queued, KnownJobs, JobTypeOK
  <1> QED
    BY <1>2, <1>3, JobsStay

LEMMA KnownStep == TypeOK /\ KnownJobs /\ [Next]_vars => KnownJobs'
  <1> SUFFICES ASSUME TypeOK, KnownJobs, [Next]_vars
               PROVE  KnownJobs'
    OBVIOUS
  <1> DEFINE QueueKnown == \A i \in DOMAIN queue : status[queue[i]] # "none"
             HeldKnown == \A t \in Thread : pc[t] \notin {"idle", "tick"} => status[held[t]] # "none"
             HealthKnown == hpc \in {"ensure", "append"} => status[hjob] # "none"
  <1>1. JobTypeOK /\ ThreadTypeOK /\ HealthTypeOK
    BY DEF TypeOK
  <1>2. QueueKnown /\ HeldKnown /\ HealthKnown
    BY DEF KnownJobs
  <1>3. \A j \in Job : status[j] # "none" => status'[j] # "none"
    BY JobsStay
  <1>4. \A i \in DOMAIN queue : queue[i] \in Job
    BY <1>1 DEF JobTypeOK
  <1>5. UNCHANGED queue => QueueKnown'
    BY <1>2, <1>3, <1>4
  <1>6. UNCHANGED <<pc, held>> => HeldKnown'
    BY <1>1, <1>2, <1>3 DEF ThreadTypeOK
  <1>7. UNCHANGED healthVars => HealthKnown'
    BY <1>1, <1>2, <1>3 DEF HealthTypeOK, healthVars
  <1>8. \A t \in Thread : (UNCHANGED held /\ pc[t] \notin {"idle", "tick"} /\ \E l \in PC : Goto(t, l))
                            => HeldKnown'
    BY <1>1, <1>2, <1>3 DEF ThreadTypeOK, Goto
  <1>9. \A t \in Thread : \A l \in {"idle", "tick"} : Leave(t, l) => HeldKnown'
    BY <1>1, <1>2, <1>3 DEF ThreadTypeOK, Leave, Goto
  <1>10. QueueKnown' /\ HeldKnown' /\ HealthKnown' => KnownJobs'
    BY DEF KnownJobs
  <1>11. ASSUME NEW t \in Thread, BeginPass(t) PROVE KnownJobs'
    <2>1. HealthKnown'
      BY <1>7, <1>11 DEF BeginPass
    <2>2. CASE queue = << >>
      <3>1. UNCHANGED <<held, queue>> /\ Goto(t, "idle")
        BY <1>11, <2>2 DEF BeginPass
      <3>2. HeldKnown'
        BY <1>1, <1>2, <1>3, <3>1 DEF Goto, ThreadTypeOK
      <3> QED
        BY <1>5, <1>10, <2>1, <3>1, <3>2
    <2>3. CASE queue # << >>
      <3>1. Queued(Head(queue)) /\ \A i \in DOMAIN queue' : Queued(queue'[i])
        BY <1>1, <1>11, <2>3, PopPlaces DEF BeginPass
      <3>2. \A k : Queued(k) => k \in Job /\ status'[k] # "none"
        BY <1>2, <1>3, <1>4 DEF Queued
      <3>3. HeldKnown'
        BY <1>1, <1>2, <1>3, <1>11, <2>3, <3>1, <3>2 DEF BeginPass, Goto, ThreadTypeOK
      <3> QED
        BY <1>10, <2>1, <3>1, <3>2, <3>3
    <2> QED
      BY <2>2, <2>3
  <1>12. ASSUME NEW t \in Thread, NEW j \in Job, SubmitJob(t, j) PROVE KnownJobs'
    <2>1. status'[j] # "none"
      BY <1>1, <1>12 DEF SubmitJob, EnqueueJob, JobTypeOK
    <2>2. QueueKnown'
      BY <1>5, <1>12, <2>1, KnownAfterAppend DEF SubmitJob, EnqueueJob
    <2>3. HeldKnown'
      BY <1>1, <1>2, <1>3, <1>12 DEF SubmitJob, Goto, ThreadTypeOK
    <2> QED
      BY <1>7, <1>10, <1>12, <2>2, <2>3 DEF SubmitJob
  <1>13. ASSUME NEW t \in Thread, PassAppend(t) \/ RetryAppend(t) PROVE KnownJobs'
    <2>1. held[t] \in Job /\ queue' = Append(queue, held[t]) /\ status'[held[t]] # "none"
      BY <1>1, <1>2, <1>3, <1>13 DEF PassAppend, RetryAppend, ThreadTypeOK
    <2>2. QueueKnown'
      BY <2>1, KnownAfterAppend
    <2>3. HeldKnown' /\ HealthKnown'
      BY <1>7, <1>9, <1>13 DEF PassAppend, RetryAppend
    <2> QED
      BY <1>10, <2>2, <2>3
  <1>14. CASE HealthAppend
    <2>1. hjob \in Job /\ queue' = Append(queue, hjob) /\ status'[hjob] # "none"
      BY <1>1, <1>2, <1>3, <1>14 DEF HealthAppend, HealthTypeOK
    <2>2. QueueKnown'
      BY <2>1, KnownAfterAppend
    <2>3. HeldKnown' /\ HealthKnown'
      BY <1>6, <1>14 DEF HealthAppend, threadVars
    <2> QED
      BY <1>10, <2>2, <2>3
  <1>15. ASSUME NEW j \in Job, HealthRequeue(j) PROVE KnownJobs'
    <2>1. UNCHANGED <<queue, pc, held>> /\ hpc = "requeue"
      BY <1>15 DEF HealthRequeue, threadVars
    <2>2. HealthKnown'
      <3>1. status'[j] # "none"
        BY <1>1, <1>15 DEF HealthRequeue, RequeueOrFail, JobTypeOK
      <3> QED
        BY <1>15, <3>1 DEF HealthRequeue
    <2> QED
      BY <1>5, <1>6, <1>10, <2>1, <2>2
  <1>16. ASSUME NEW t \in Thread, NEW n \in Node, NEW j \in Job, NEW ok \in BOOLEAN,
                JobResult(t, n, j, ok)
         PROVE  KnownJobs'
    <2>1. status'[j] # "none"
      BY <1>1, <1>16 DEF JobResult, JobTypeOK
    <2>2. HeldKnown'
      BY <1>1, <1>2, <1>3, <1>16, <2>1 DEF JobResult, Goto, ThreadTypeOK
    <2> QED
      BY <1>5, <1>7, <1>10, <1>16, <2>2 DEF JobResult
  <1>17. ASSUME NEW t \in Thread,
                \/ Select(t) \/ MarkRunning(t) \/ DispatchReply(t) \/ EndDispatch(t) \/ PassRequeue(t)
                \/ PassEnsure(t) \/ RetryEnsure(t) \/ \E o \in Object : DispatchSend(t, o)
                \/ BookResult(t) \/ RetryResult(t) \/ RetryRequeue(t)
         PROVE  KnownJobs'
    <2>1. UNCHANGED <<queue, healthVars>> /\ pc[t] \notin {"idle", "tick"}
      BY <1>17 DEF Select, MarkRunning, DispatchReply, EndDispatch, PassRequeue, PassEnsure,
                   RetryEnsure, DispatchSend, BookResult, RetryResult, RetryRequeue
    <2>2. \/ UNCHANGED <<pc, held>>
          \/ UNCHANGED held /\ \E l \in PC : Goto(t, l)
          \/ \E l \in {"idle", "tick"} : Leave(t, l)
      BY <1>17 DEF Select, MarkRunning, DispatchReply, EndDispatch, PassRequeue, PassEnsure,
                   RetryEnsure, DispatchSend, BookResult, RetryResult, RetryRequeue, PC
    <2> QED
      BY <1>5, <1>6, <1>7, <1>8, <1>9, <1>10, <2>1, <2>2
  <1>18. CASE Restart
    BY <1>5, <1>10, <1>18 DEF Restart
  <1>19. CASE UNCHANGED <<queue, pc, held>> /\ (hpc' \in {"ensure", "append"} => UNCHANGED healthVars)
    BY <1>5, <1>6, <1>7, <1>10, <1>19
  <1>20. HealthList \/ HealthRemove \/ HealthDone \/ UNCHANGED vars
           => UNCHANGED <<queue, pc, held>> /\ (hpc' \in {"ensure", "append"} => UNCHANGED healthVars)
    BY DEF HealthList, HealthRemove, HealthDone, vars, threadVars
  <1>21. CASE HealthEnsure
    BY <1>2, <1>5, <1>6, <1>10, <1>21 DEF HealthEnsure, threadVars, jobVars
  <1>22. ASSUME NEW n \in Node, Heartbeat(n) \/ LateHeartbeat(n) \/ RegisterNode(n) \/ HealthDetect(n) \/ AgentCrash(n)
         PROVE  UNCHANGED <<queue, pc, held>> /\ (hpc' \in {"ensure", "append"} => UNCHANGED healthVars)
    BY <1>22 DEF Heartbeat, LateHeartbeat, RegisterNode, HealthDetect, AgentCrash, threadVars
  <1>23. ASSUME NEW n \in Node, NEW j \in Job, AgentStart(n, j) \/ LoseResult(n, j) \/ AgentForget(n, j)
         PROVE  UNCHANGED <<queue, pc, held>> /\ (hpc' \in {"ensure", "append"} => UNCHANGED healthVars)
    BY <1>23 DEF AgentStart, LoseResult, AgentForget, threadVars
  <1> HIDE DEF QueueKnown, HeldKnown, HealthKnown
  <1> QED
    BY <1>11, <1>12, <1>13, <1>14, <1>15, <1>16, <1>17, <1>18, <1>19, <1>20, <1>21, <1>22, <1>23
       DEF Next, PassStep, ResultStep, HealthStep

QueueInv == TypeOK /\ KnownJobs /\ \A j \in Job : Bounded(j)

LEMMA QueueInit == Init => QueueInv
  <1> SUFFICES ASSUME Init PROVE QueueInv
    OBVIOUS
  <1>1. TypeOK /\ KnownJobs
    BY TypeInit DEF Init, KnownJobs
  <1>2. ASSUME NEW j \in Job PROVE Bounded(j)
    BY <1>1, RoomWhenMissing DEF Init, Queued, TypeOK
  <1> QED
    BY <1>1, <1>2 DEF QueueInv

LEMMA QueueStep == QueueInv /\ [Next]_vars => QueueInv'
  <1> SUFFICES ASSUME QueueInv, [Next]_vars PROVE QueueInv'
    OBVIOUS
  <1>1. TypeOK' /\ KnownJobs'
    BY TypeStep, KnownStep DEF QueueInv
  <1>2. ASSUME NEW j \in Job PROVE Bounded(j)'
    BY BoundedStep DEF QueueInv
  <1> QED
    BY <1>1, <1>2 DEF QueueInv

\* Threads that find a job missing from the queue at the same time all append it
\* (ensure_job_queued): however often the job is popped and put back, the queue
\* lists it at most once for each thread that can put it back, and it lists only
\* jobs that memory.jobs holds.
THEOREM QueueStaysBounded == Spec => []QueueIsBounded
  <1>1. QueueInv => QueueIsBounded
    BY DEF QueueInv, KnownJobs, Bounded, Places, QueueIsBounded
  <1> QED
    BY <1>1, QueueInit, QueueStep, PTL DEF Spec

-----------------------------------------------------------------------------
(* Executions *)

\* The candidates a pass still has to dispatch j to, after it counted the attempt.
Reserved(t, j) ==
    IF Holds(t, j, {"dispatching", "calling"}) THEN Cardinality(todo[t]) ELSE 0

Outstanding(j) == SumFunction([t \in Thread |-> Reserved(t, j)])

\* An attempt pays for the executions there are and those its pass may still start, and a
\* pass that will count an attempt has selected as many nodes as the job needs.
PaidInv ==
    /\ \A t \in Thread : pc[t] = "selected" => Cardinality(todo[t]) = Need[held[t]]
    /\ \A j \in Job : Executions(j) + Outstanding(j) <= Need[j] * attempts[j]

LEMMA ObjectsAreFinite == IsFiniteSet(Object)
  <1>1. IsFiniteSet(1 .. MaxGen)
    BY BoundAssumption, FS_Interval
  <1>2. IsFiniteSet(Node)
    BY NodeAssumption
  <1> QED
    BY <1>1, <1>2, FS_Product DEF Object

LEMMA TodoIsFinite ==
    ASSUME TypeOK, NEW t \in Thread
    PROVE  IsFiniteSet(todo[t]) /\ Cardinality(todo[t]) \in Nat
  <1>1. todo[t] \in SUBSET Object
    BY DEF TypeOK, ThreadTypeOK
  <1> QED
    BY <1>1, ObjectsAreFinite, FS_Subset, FS_CardinalityType

LEMMA ReservedType ==
    ASSUME TypeOK, NEW t \in Thread, NEW j \in Job
    PROVE  Reserved(t, j) \in Nat
  BY TodoIsFinite DEF Reserved

\* Both sums are over a domain that does not change.
LEMMA ExecutionsSum ==
    ASSUME NEW j
    PROVE  Executions(j) = SumFunctionOnSet([n \in Node |-> accepted[n][j] + executing[n][j]], Node)
  BY DEF Executions, SumFunction

LEMMA OutstandingSum ==
    ASSUME NEW j
    PROVE  Outstanding(j) = SumFunctionOnSet([t \in Thread |-> Reserved(t, j)], Thread)
  BY DEF Outstanding, SumFunction

LEMMA SumsAreInt ==
    ASSUME TypeOK, NEW j \in Job
    PROVE  Executions(j) \in Int /\ Outstanding(j) \in Int /\ Need[j] * attempts[j] \in Int
  <1>1. \A n \in Node : [m \in Node |-> accepted[m][j] + executing[m][j]][n] \in Int
    BY DEF TypeOK, AgentTypeOK
  <1>2. \A t \in Thread : [u \in Thread |-> Reserved(u, j)][t] \in Int
    BY ReservedType
  <1>3. Need[j] \in Int /\ attempts[j] \in Int
    BY JobAssumption DEF TypeOK, JobTypeOK
  <1>4. Executions(j) \in Int
    BY <1>1, NodeAssumption, SumIsInt, ExecutionsSum
  <1>5. Outstanding(j) \in Int
    BY <1>2, ThreadsAreFinite, SumIsInt, OutstandingSum
  <1> QED
    BY <1>3, <1>4, <1>5

\* What an agent does can change the executions of one node.
LEMMA ExecutionsAt ==
    ASSUME TypeOK, TypeOK', NEW j \in Job, NEW n \in Node,
           \A m \in Node \ {n} : /\ accepted'[m][j] = accepted[m][j]
                                 /\ executing'[m][j] = executing[m][j]
    PROVE  Executions(j)' = Executions(j) - (accepted[n][j] + executing[n][j])
                                          + (accepted'[n][j] + executing'[n][j])
  <1> DEFINE f == [m \in Node |-> accepted[m][j] + executing[m][j]]
             g == [m \in Node |-> accepted'[m][j] + executing'[m][j]]
  <1>1. \A m \in Node : f[m] \in Int /\ g[m] \in Int
    BY DEF TypeOK, AgentTypeOK
  <1>2. \A m \in Node \ {n} : f[m] = g[m]
    OBVIOUS
  <1>3. SumFunctionOnSet(g, Node) = SumFunctionOnSet(f, Node) - f[n] + g[n]
    <2> HIDE DEF f, g
    <2> QED
      BY <1>1, <1>2, NodeAssumption, SumChanges
  <1>4. Executions(j) = SumFunctionOnSet(f, Node) /\ Executions(j)' = SumFunctionOnSet(g, Node)
    BY DEF Executions, SumFunction
  <1> QED
    BY <1>3, <1>4

\* So does a thread with what one pass may still start.
LEMMA OutstandingAt ==
    ASSUME TypeOK, TypeOK', NEW j \in Job, NEW t \in Thread,
           \A u \in Thread \ {t} : UNCHANGED <<pc[u], held[u], todo[u]>>
    PROVE  Outstanding(j)' = Outstanding(j) - Reserved(t, j) + Reserved(t, j)'
  <1> DEFINE f == [u \in Thread |-> Reserved(u, j)]
             g == [u \in Thread |-> Reserved(u, j)']
  <1>1. \A u \in Thread : f[u] \in Int
    BY ReservedType
  <1>2. \A u \in Thread : g[u] \in Int
    <2>1. ASSUME NEW u \in Thread PROVE IsFiniteSet(todo'[u]) /\ Cardinality(todo'[u]) \in Nat
      <3>1. todo'[u] \in SUBSET Object
        BY DEF TypeOK, ThreadTypeOK
      <3> QED
        BY <3>1, ObjectsAreFinite, FS_Subset, FS_CardinalityType
    <2> QED
      BY <2>1 DEF Reserved
  <1>3. \A u \in Thread \ {t} : f[u] = g[u]
    BY DEF Reserved, Holds
  <1>4. SumFunctionOnSet(g, Thread) = SumFunctionOnSet(f, Thread) - f[t] + g[t]
    <2> HIDE DEF f, g
    <2> QED
      BY <1>1, <1>2, <1>3, ThreadsAreFinite, SumChanges
  <1>5. /\ Outstanding(j) = SumFunctionOnSet(f, Thread)
        /\ Outstanding(j)' = SumFunctionOnSet(g, Thread)
    BY DEF Outstanding, SumFunction
  <1> QED
    BY <1>4, <1>5

\* A step of thread t that counts no attempt and starts nothing it has not reserved.
LEMMA PaidByThread ==
    ASSUME TypeOK, TypeOK', PaidInv, NEW t \in Thread,
           \A u \in Thread \ {t} : UNCHANGED <<pc[u], held[u], todo[u]>>,
           UNCHANGED <<attempts, accepted, executing>>,
           pc'[t] = "selected" => Cardinality(todo'[t]) = Need[held'[t]],
           pc'[t] \in {"dispatching", "calling"} =>
               /\ pc[t] \in {"dispatching", "calling"} /\ held'[t] = held[t]
               /\ todo'[t] \subseteq todo[t]
    PROVE  PaidInv'
  <1>1. ASSUME NEW u \in Thread, pc'[u] = "selected"
        PROVE  Cardinality(todo'[u]) = Need[held'[u]]
    BY <1>1 DEF PaidInv
  <1>2. ASSUME NEW j \in Job PROVE Reserved(t, j)' <= Reserved(t, j)
    <2>1. IsFiniteSet(todo[t]) /\ Cardinality(todo[t]) \in Nat
      BY TodoIsFinite
    <2>2. CASE Holds(t, j, {"dispatching", "calling"})'
      <3>1. Holds(t, j, {"dispatching", "calling"}) /\ todo'[t] \subseteq todo[t]
        BY <2>2 DEF Holds
      <3>2. Cardinality(todo'[t]) <= Cardinality(todo[t])
        BY <2>1, <3>1, FS_Subset
      <3> QED
        BY <2>2, <3>1, <3>2 DEF Reserved
    <2>3. CASE ~ Holds(t, j, {"dispatching", "calling"})'
      BY <2>1, <2>3 DEF Reserved
    <2> QED
      BY <2>2, <2>3
  <1>3. ASSUME NEW j \in Job
        PROVE  Executions(j)' + Outstanding(j)' <= Need[j] * attempts'[j]
    <2>1. Executions(j)' = Executions(j)
      BY DEF Executions
    <2>2. Outstanding(j)' = Outstanding(j) - Reserved(t, j) + Reserved(t, j)'
      BY OutstandingAt
    <2>3. Reserved(t, j) \in Nat /\ Reserved(t, j)' \in Nat
      <3>1. Cardinality(todo'[t]) \in Nat
        <4>1. todo'[t] \in SUBSET Object
          BY DEF TypeOK, ThreadTypeOK
        <4> QED
          BY <4>1, ObjectsAreFinite, FS_Subset, FS_CardinalityType
      <3> QED
        BY <3>1, ReservedType DEF Reserved
    <2>4. Executions(j) \in Int /\ Outstanding(j) \in Int /\ Need[j] * attempts[j] \in Int
      BY SumsAreInt
    <2>5. Executions(j) + Outstanding(j) <= Need[j] * attempts[j]
      BY DEF PaidInv
    <2> QED
      BY <1>2, <2>1, <2>2, <2>3, <2>4, <2>5
  <1> QED
    BY <1>1, <1>3 DEF PaidInv

\* A step of the agent of node n that starts no execution.
LEMMA PaidByAgent ==
    ASSUME TypeOK, TypeOK', PaidInv, NEW n \in Node,
           UNCHANGED <<attempts, pc, held, todo>>,
           \A j \in Job : /\ accepted'[n][j] + executing'[n][j] <= accepted[n][j] + executing[n][j]
                          /\ \A m \in Node \ {n} : /\ accepted'[m][j] = accepted[m][j]
                                                   /\ executing'[m][j] = executing[m][j]
    PROVE  PaidInv'
  <1>1. ASSUME NEW j \in Job
        PROVE  Executions(j)' + Outstanding(j)' <= Need[j] * attempts'[j]
    <2>1. Executions(j)' = Executions(j) - (accepted[n][j] + executing[n][j])
                                         + (accepted'[n][j] + executing'[n][j])
      BY ExecutionsAt
    <2>2. Outstanding(j)' = Outstanding(j)
      BY DEF Outstanding, Reserved, Holds
    <2>3. /\ accepted[n][j] \in Nat /\ executing[n][j] \in Nat
          /\ accepted'[n][j] \in Nat /\ executing'[n][j] \in Nat
      BY DEF TypeOK, AgentTypeOK
    <2>4. Executions(j) \in Int /\ Outstanding(j) \in Int /\ Need[j] * attempts[j] \in Int
      BY SumsAreInt
    <2>5. Executions(j) + Outstanding(j) <= Need[j] * attempts[j]
      BY DEF PaidInv
    <2> QED
      BY <2>1, <2>2, <2>3, <2>4, <2>5
  <1> QED
    BY <1>1 DEF PaidInv

\* mark_running: the attempt pays for the candidates.
LEMMA PaidByMark ==
    ASSUME TypeOK, TypeOK', PaidInv, NEW t \in Thread, MarkRunning(t)
    PROVE  PaidInv'
  <1> DEFINE j == held[t]
  <1>1. /\ pc[t] = "selected" /\ pc'[t] = "dispatching" /\ j \in Job
        /\ attempts' = [attempts EXCEPT ![j] = @ + 1]
        /\ \A u \in Thread \ {t} : pc'[u] = pc[u]
        /\ UNCHANGED <<held, todo, accepted, executing>>
    BY DEF MarkRunning, Goto, TypeOK, ThreadTypeOK, passVars, agentVars
  <1> HIDE DEF j
  <1>2. ASSUME NEW u \in Thread, pc'[u] = "selected"
        PROVE  Cardinality(todo'[u]) = Need[held'[u]]
    BY <1>1, <1>2 DEF PaidInv
  <1>3. Cardinality(todo[t]) = Need[j]
    BY <1>1 DEF PaidInv, j
  <1>4. ASSUME NEW i \in Job
        PROVE  Executions(i)' + Outstanding(i)' <= Need[i] * attempts'[i]
    <2>1. Executions(i)' = Executions(i)
      BY <1>1 DEF Executions
    <2>2. Outstanding(i)' = Outstanding(i) - Reserved(t, i) + Reserved(t, i)'
      BY <1>1, OutstandingAt
    <2>3. Executions(i) \in Int /\ Outstanding(i) \in Int /\ Need[i] * attempts[i] \in Int
      BY SumsAreInt
    <2>4. Executions(i) + Outstanding(i) <= Need[i] * attempts[i]
      BY DEF PaidInv
    <2>5. Reserved(t, i) = 0
      BY <1>1 DEF Reserved, Holds
    <2>6. CASE i = j
      <3>1. Reserved(t, i)' = Need[i]
        BY <1>1, <1>3, <2>6 DEF Reserved, Holds, j
      <3>2. attempts'[i] = attempts[i] + 1 /\ attempts[i] \in Nat /\ Need[i] \in Nat
        BY <1>1, <2>6, JobAssumption DEF TypeOK, JobTypeOK
      <3>3. Need[i] * attempts'[i] = Need[i] * attempts[i] + Need[i]
        <4>1. \A a, b \in Nat : a * (b + 1) = a * b + a
          OBVIOUS
        <4> QED
          BY <3>2, <4>1
      <3> QED
        BY <2>1, <2>2, <2>3, <2>4, <2>5, <3>1, <3>2, <3>3
    <2>7. CASE i # j
      <3>1. Reserved(t, i)' = 0 /\ attempts'[i] = attempts[i]
        BY <1>1, <2>7 DEF Reserved, Holds, j, TypeOK, JobTypeOK
      <3> QED
        BY <2>1, <2>2, <2>3, <2>4, <2>5, <3>1
    <2> QED
      BY <2>6, <2>7
  <1> QED
    BY <1>2, <1>4 DEF PaidInv

\* dispatch_job: one candidate less, and at most one execution more.
LEMMA PaidBySend ==
    ASSUME TypeOK, TypeOK', PaidInv, NEW t \in Thread, NEW o \in Object, DispatchSend(t, o)
    PROVE  PaidInv'
  <1> DEFINE j == held[t]
             n == o[1]
  <1>1. /\ pc[t] = "dispatching" /\ j \in Job /\ n \in Node /\ o \in todo[t]
        /\ \A u \in Thread \ {t} : UNCHANGED <<pc[u], held[u], todo[u]>>
        /\ todo'[t] = todo[t] \ {o} /\ pc'[t] \in {"dispatching", "calling"}
        /\ UNCHANGED <<attempts, held, executing>>
    BY DEF DispatchSend, Goto, TypeOK, ThreadTypeOK, passVars, Object, jobVars
  <1>2. CASE UNCHANGED accepted
    BY <1>1, <1>2, PaidByThread
  <1>3. CASE accepted' = [accepted EXCEPT ![n][j] = @ + 1]
    <2> HIDE DEF j, n
    <2>1. ASSUME NEW u \in Thread, pc'[u] = "selected"
          PROVE  Cardinality(todo'[u]) = Need[held'[u]]
      BY <1>1, <2>1 DEF PaidInv
    <2>2. ASSUME NEW i \in Job
          PROVE  Executions(i)' + Outstanding(i)' <= Need[i] * attempts'[i]
      <3>1. /\ accepted[n][i] \in Nat /\ executing[n][i] \in Nat
            /\ accepted'[n][i] = IF i = j THEN accepted[n][i] + 1 ELSE accepted[n][i]
            /\ executing' = executing
            /\ \A m \in Node \ {n} : accepted'[m][i] = accepted[m][i]
        BY <1>1, <1>3 DEF TypeOK, AgentTypeOK
      <3>2. Executions(i)' = Executions(i) - (accepted[n][i] + executing[n][i])
                                           + (accepted'[n][i] + executing'[n][i])
        BY <1>1, <3>1, ExecutionsAt
      <3>3. Outstanding(i)' = Outstanding(i) - Reserved(t, i) + Reserved(t, i)'
        BY <1>1, OutstandingAt
      <3>4. Executions(i) \in Int /\ Outstanding(i) \in Int /\ Need[i] * attempts[i] \in Int
        BY SumsAreInt
      <3>5. Executions(i) + Outstanding(i) <= Need[i] * attempts[i]
        BY DEF PaidInv
      <3>6. IsFiniteSet(todo[t]) /\ Cardinality(todo[t]) \in Nat
        BY TodoIsFinite
      <3>7. Cardinality(todo'[t]) = Cardinality(todo[t]) - 1
        BY <1>1, <3>6, FS_RemoveElement
      <3>8. CASE i = j
        <4>1. Reserved(t, i) = Cardinality(todo[t]) /\ Reserved(t, i)' = Cardinality(todo[t]) - 1
          BY <1>1, <3>7, <3>8 DEF Reserved, Holds, j
        <4> QED
          BY <1>1, <3>1, <3>2, <3>3, <3>4, <3>5, <3>6, <3>8, <4>1
      <3>9. CASE i # j
        <4>1. Reserved(t, i) = 0 /\ Reserved(t, i)' = 0
          BY <1>1, <3>9 DEF Reserved, Holds, j
        <4> QED
          BY <1>1, <3>1, <3>2, <3>3, <3>4, <3>5, <3>9, <4>1
      <3> QED
        BY <3>8, <3>9
    <2> QED
      BY <2>1, <2>2 DEF PaidInv
  <1> QED
    BY <1>2, <1>3 DEF DispatchSend

LEMMA PaidByRestart ==
    ASSUME TypeOK, TypeOK', PaidInv, Restart
    PROVE  PaidInv'
  <1>1. /\ \A t \in Thread : pc'[t] = "idle"
        /\ UNCHANGED <<attempts, accepted, executing>>
    BY DEF Restart, jobVars, agentVars
  <1>2. ASSUME NEW j \in Job
        PROVE  Executions(j)' + Outstanding(j)' <= Need[j] * attempts'[j]
    <2> DEFINE f == [t \in Thread |-> Reserved(t, j)]
               g == [t \in Thread |-> Reserved(t, j)']
    <2>1. \A t \in Thread : g[t] = 0
      BY <1>1 DEF Reserved, Holds
    <2>2. \A t \in Thread : f[t] \in Nat
      BY ReservedType
    <2>3. SumFunctionOnSet(g, Thread) <= SumFunctionOnSet(f, Thread)
      <3> HIDE DEF f, g
      <3> QED
        BY <2>1, <2>2, ThreadsAreFinite, SumIsMonotone
    <2>4. Outstanding(j) = SumFunctionOnSet(f, Thread) /\ Outstanding(j)' = SumFunctionOnSet(g, Thread)
      BY DEF Outstanding, SumFunction
    <2>5. SumFunctionOnSet(g, Thread) = 0
      <3> HIDE DEF g
      <3> QED
        BY <2>1, ThreadsAreFinite, SumOfZeros
    <2>6. Executions(j)' = Executions(j)
      BY <1>1 DEF Executions
    <2>7. Executions(j) \in Int /\ Outstanding(j) \in Int /\ Need[j] * attempts[j] \in Int
      BY SumsAreInt
    <2>8. Executions(j) + Outstanding(j) <= Need[j] * attempts[j]
      BY DEF PaidInv
    <2> HIDE DEF f, g
    <2> QED
      BY <1>1, <2>3, <2>4, <2>5, <2>6, <2>7, <2>8
  <1> QED
    BY <1>1, <1>2 DEF PaidInv

\* select_nodes: as many candidates as the job needs, or none.
LEMMA PaidBySelect ==
    ASSUME TypeOK, TypeOK', PaidInv, NEW t \in Thread, Select(t)
    PROVE  PaidInv'
  <1>1. /\ \A u \in Thread \ {t} : UNCHANGED <<pc[u], held[u], todo[u]>>
        /\ UNCHANGED <<attempts, accepted, executing>>
        /\ pc'[t] \in {"idle", "requeue", "selected"}
    BY DEF Select, Leave, Goto, TypeOK, ThreadTypeOK, passVars, agentVars
  <1>2. ASSUME pc'[t] = "selected" PROVE Cardinality(todo'[t]) = Need[held'[t]]
    BY <1>2 DEF Select, Leave, Goto, TypeOK, ThreadTypeOK
  <1> QED
    BY <1>1, <1>2, PaidByThread

LEMMA PaidByPass ==
    ASSUME TypeOK, TypeOK', PaidInv, NEW t \in Thread, BeginPass(t) \/ PassStep(t) \/ ResultStep(t)
    PROVE  PaidInv'
  <1> USE DEF Goto, Leave, TypeOK, ThreadTypeOK, passVars, agentVars, jobVars
  <1>1. CASE BeginPass(t)
    <2>1. /\ \A u \in Thread \ {t} : UNCHANGED <<pc[u], held[u], todo[u]>>
          /\ UNCHANGED <<attempts, accepted, executing>> /\ pc'[t] \in {"idle", "popped"}
      BY <1>1 DEF BeginPass
    <2> QED
      BY <2>1, PaidByThread
  <1>2. CASE DispatchReply(t)
    <2>1. /\ \A u \in Thread \ {t} : UNCHANGED <<pc[u], held[u], todo[u]>>
          /\ UNCHANGED <<attempts, accepted, executing, held, todo>>
          /\ pc[t] = "calling" /\ pc'[t] = "dispatching"
      BY <1>2 DEF DispatchReply
    <2> QED
      BY <2>1, PaidByThread
  <1>3. CASE EndDispatch(t) \/ PassRequeue(t) \/ PassEnsure(t) \/ PassAppend(t) \/ ResultStep(t)
    <2>1. /\ \A u \in Thread \ {t} : UNCHANGED <<pc[u], held[u], todo[u]>>
          /\ UNCHANGED <<attempts, accepted, executing>>
          /\ pc'[t] \in {"idle", "requeue", "ensure", "append", "tick", "booked", "retry",
                       "retryEnsure", "retryAppend"}
      <3>1. CASE EndDispatch(t)
        BY <3>1 DEF EndDispatch
      <3>2. CASE PassRequeue(t) \/ RetryRequeue(t)
        BY <3>2 DEF PassRequeue, RetryRequeue, RequeueOrFail
      <3>3. CASE PassEnsure(t) \/ RetryEnsure(t) \/ PassAppend(t) \/ RetryAppend(t)
        BY <3>3 DEF PassEnsure, RetryEnsure, PassAppend, RetryAppend
      <3>4. CASE BookResult(t) \/ RetryResult(t)
        BY <3>4 DEF BookResult, RetryResult
      <3> QED
        BY <1>3, <3>1, <3>2, <3>3, <3>4 DEF ResultStep
    <2> QED
      BY <2>1, PaidByThread
  <1> QED
    BY <1>1, <1>2, <1>3, PaidBySelect, PaidByMark, PaidBySend DEF PassStep

LEMMA PaidByRequest ==
    ASSUME TypeOK, TypeOK', PaidInv, NEW t \in Thread, NEW j \in Job,
           \/ SubmitJob(t, j)
           \/ \E n \in Node, ok \in BOOLEAN : JobResult(t, n, j, ok)
    PROVE  PaidInv'
  <1>1. CASE SubmitJob(t, j)
    <2>1. /\ \A u \in Thread \ {t} : UNCHANGED <<pc[u], held[u], todo[u]>>
          /\ UNCHANGED <<attempts, accepted, executing>> /\ pc'[t] = "tick"
      BY <1>1 DEF SubmitJob, Goto, TypeOK, ThreadTypeOK, passVars, agentVars
    <2> QED
      BY <2>1, PaidByThread
  <1>2. ASSUME NEW n \in Node, NEW ok \in BOOLEAN, JobResult(t, n, j, ok) PROVE PaidInv'
    <2>1. /\ \A u \in Thread \ {t} : UNCHANGED <<pc[u], held[u], todo[u]>>
          /\ pc[t] = "idle" /\ pc'[t] = "finished" /\ UNCHANGED <<attempts, accepted>>
          /\ executing[n][j] > 0 /\ executing' = [executing EXCEPT ![n][j] = @ - 1]
      BY <1>2 DEF JobResult, Goto, TypeOK, ThreadTypeOK, passVars
    <2>2. ASSUME NEW u \in Thread, pc'[u] = "selected"
          PROVE  Cardinality(todo'[u]) = Need[held'[u]]
      BY <2>1, <2>2 DEF PaidInv
    <2>3. ASSUME NEW i \in Job
          PROVE  Executions(i)' + Outstanding(i)' <= Need[i] * attempts'[i]
      <3>1. /\ accepted[n][i] \in Nat /\ executing[n][i] \in Nat
            /\ executing'[n][i] \in Nat /\ executing'[n][i] <= executing[n][i]
            /\ \A m \in Node \ {n} : executing'[m][i] = executing[m][i]
        BY <2>1 DEF TypeOK, AgentTypeOK
      <3>2. Executions(i)' = Executions(i) - (accepted[n][i] + executing[n][i])
                                           + (accepted'[n][i] + executing'[n][i])
        BY <2>1, <3>1, ExecutionsAt
      <3>3. Outstanding(i)' = Outstanding(i) - Reserved(t, i) + Reserved(t, i)'
        BY <2>1, OutstandingAt
      <3>4. Executions(i) \in Int /\ Outstanding(i) \in Int /\ Need[i] * attempts[i] \in Int
        BY SumsAreInt
      <3>5. Executions(i) + Outstanding(i) <= Need[i] * attempts[i]
        BY DEF PaidInv
      <3>6. Reserved(t, i) = 0 /\ Reserved(t, i)' = 0
        BY <2>1 DEF Reserved, Holds
      <3> QED
        BY <2>1, <3>1, <3>2, <3>3, <3>4, <3>5, <3>6
    <2> QED
      BY <2>2, <2>3 DEF PaidInv
  <1> QED
    BY <1>1, <1>2

LEMMA PaidStep == TypeOK /\ PaidInv /\ [Next]_vars => PaidInv'
  <1> SUFFICES ASSUME TypeOK, PaidInv, [Next]_vars PROVE PaidInv'
    OBVIOUS
  <1>0. TypeOK'
    BY TypeStep
  <1>1. CASE UNCHANGED <<attempts, pc, held, todo, accepted, executing>>
    BY <1>1 DEF PaidInv, Executions, Outstanding, Reserved, Holds
  <1>2. ASSUME NEW n \in Node,
               \/ AgentCrash(n)
               \/ \E j \in Job : AgentStart(n, j) \/ LoseResult(n, j) \/ AgentForget(n, j)
        PROVE  PaidInv'
    <2>1. UNCHANGED <<attempts, pc, held, todo>>
      BY <1>2 DEF AgentCrash, AgentStart, LoseResult, AgentForget, jobVars, threadVars, passVars
    <2>2. ASSUME NEW i \in Job
          PROVE  /\ accepted'[n][i] + executing'[n][i] <= accepted[n][i] + executing[n][i]
                 /\ \A m \in Node \ {n} : /\ accepted'[m][i] = accepted[m][i]
                                          /\ executing'[m][i] = executing[m][i]
      <3> USE DEF TypeOK, AgentTypeOK
      <3>1. CASE AgentCrash(n)
        BY <3>1 DEF AgentCrash, NoJobs
      <3>2. ASSUME NEW j \in Job, AgentStart(n, j) \/ LoseResult(n, j) \/ AgentForget(n, j)
            PROVE  /\ accepted'[n][i] + executing'[n][i] <= accepted[n][i] + executing[n][i]
                   /\ \A m \in Node \ {n} : /\ accepted'[m][i] = accepted[m][i]
                                            /\ executing'[m][i] = executing[m][i]
        <4>1. CASE AgentStart(n, j)
          BY <4>1 DEF AgentStart
        <4>2. CASE LoseResult(n, j)
          BY <4>2 DEF LoseResult
        <4>3. CASE AgentForget(n, j)
          BY <4>3 DEF AgentForget, agentVars
        <4> QED
          BY <3>2, <4>1, <4>2, <4>3
      <3> QED
        BY <1>2, <3>1, <3>2
    <2> QED
      BY <1>0, <2>1, <2>2, PaidByAgent
  <1>3. CASE HealthStep \/ \E n \in Node : \/ Heartbeat(n) \/ LateHeartbeat(n) \/ RegisterNode(n)
                                          \/ HealthDetect(n)
    <2>1. UNCHANGED <<attempts, pc, held, todo, accepted, executing>>
      BY <1>3 DEF HealthStep, HealthList, HealthRemove, HealthRequeue, HealthEnsure, HealthAppend, HealthDone,
                  Heartbeat, LateHeartbeat, RegisterNode, HealthDetect, RequeueOrFail,
                  jobVars, threadVars, passVars, agentVars
    <2> QED
      BY <1>1, <2>1
  <1>4. CASE UNCHANGED vars
    BY <1>1, <1>4 DEF vars, jobVars, threadVars, passVars, agentVars
  <1> QED
    BY <1>0, <1>2, <1>3, <1>4, PaidByPass, PaidByRequest, PaidByRestart DEF Next

LEMMA PaidInit == Init => PaidInv
  <1> SUFFICES ASSUME Init, NEW j \in Job
               PROVE  Executions(j) + Outstanding(j) <= Need[j] * attempts[j]
    BY DEF PaidInv, Init
  <1> DEFINE f == [n \in Node |-> accepted[n][j] + executing[n][j]]
             g == [t \in Thread |-> Reserved(t, j)]
  <1>1. (\A n \in Node : f[n] = 0) /\ (\A t \in Thread : g[t] = 0)
    BY DEF Init, NoJobs, Reserved, Holds
  <1>2. SumFunctionOnSet(f, Node) = 0 /\ SumFunctionOnSet(g, Thread) = 0
    <2> HIDE DEF f, g
    <2> QED
      BY <1>1, NodeAssumption, ThreadsAreFinite, SumOfZeros
  <1>3. Executions(j) = 0 /\ Outstanding(j) = 0
    BY <1>2 DEF Executions, Outstanding, SumFunction
  <1>4. Need[j] * attempts[j] = 0
    BY JobAssumption DEF Init, NoJobs
  <1> QED
    BY <1>3, <1>4

\* A job has at most required_nodes executions for each attempt counted, whichever passes
\* overlap, POSTs time out and restarts come in between (schedule_once, mark_running).
THEOREM ExecutionsStayPaidFor == Spec => []ExecutionsArePaidFor
  <1>1. TypeOK /\ PaidInv => ExecutionsArePaidFor
    <2> SUFFICES ASSUME TypeOK, PaidInv, NEW j \in Job PROVE Executions(j) <= Need[j] * attempts[j]
      BY DEF ExecutionsArePaidFor
    <2> DEFINE g == [t \in Thread |-> Reserved(t, j)]
               zero == [t \in Thread |-> 0]
    <2>1. \A t \in Thread : g[t] \in Nat /\ zero[t] = 0
      BY ReservedType
    <2>2. SumFunctionOnSet(zero, Thread) <= SumFunctionOnSet(g, Thread)
      <3> HIDE DEF g, zero
      <3> QED
        BY <2>1, ThreadsAreFinite, SumIsMonotone
    <2>3. SumFunctionOnSet(zero, Thread) = 0
      <3> HIDE DEF zero
      <3> QED
        BY <2>1, ThreadsAreFinite, SumOfZeros
    <2>4. Outstanding(j) >= 0
      BY <2>2, <2>3, OutstandingSum
    <2> QED
      BY <2>4, SumsAreInt DEF PaidInv
  <1> QED
    BY <1>1, PaidInit, PaidStep, TypeCorrect, PTL DEF Spec
=============================================================================
