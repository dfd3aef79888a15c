---------------------------- MODULE RuntimeQueue ----------------------------
(***************************************************************************)
(* The runtime's queue (runtime/ultra_scale_runtime.py), where every       *)
(* operation holds the lock and a client may submit a job id again, and    *)
(* its streaming sessions (runtime/workload_streaming.py).                 *)
(*                                                                         *)
(* The table, the queue and the running set are three structures indexed   *)
(* by the job id; an end of the running job removes the table's entry even *)
(* when it belongs to a newer submission that is still queued, and that    *)
(* one is dropped by the next dispatch.  Times, tokens and histories are   *)
(* left out.                                                               *)
(***************************************************************************)
EXTENDS Integers, FiniteSets, Sequences, SequencesExt, Lists

CONSTANTS
    RtJob,         \* job ids
    Stream,        \* session ids
    Rank,          \* the order of a priority, normal when the job is unknown: [RtJob -> 0 .. 4]
    MaxConcurrent, \* max_concurrent of the runtime
    MaxQueue,      \* max_queue
    MaxSessions,   \* max_concurrent of the streaming manager
    MaxRtSubmits   \* bound: submissions

ASSUME RuntimeAssumption ==
    /\ IsFiniteSet(RtJob) /\ IsFiniteSet(Stream) /\ Rank \in [RtJob -> 0 .. 4]
    /\ MaxConcurrent \in Nat /\ MaxQueue \in Nat /\ MaxSessions \in Nat /\ MaxRtSubmits \in Nat

VARIABLES
    table,    \* the ids in _jobs
    waiting,  \* _queued
    running,  \* _running: the state of each running job, "none" otherwise
    session,  \* _sessions: the state of each session, "none" when it has ended
    rtSubmits

rqVars == <<table, waiting, running, session, rtSubmits>>

RuntimeQueueTypeOK ==
    /\ table \subseteq RtJob /\ waiting \in Seq(RtJob)
    /\ running \in [RtJob -> {"none", "dispatched", "running", "streaming"}]
    /\ session \in [Stream -> {"none", "initializing", "active", "backpressure"}]
    /\ rtSubmits \in 0 .. MaxRtSubmits

RqInit ==
    /\ table = {} /\ waiting = <<>> /\ running = [j \in RtJob |-> "none"]
    /\ session = [s \in Stream |-> "none"] /\ rtSubmits = 0

Running == {j \in RtJob : running[j] # "none"}

\* submit: refused when the queue is full.
SubmitRt(j) ==
    /\ rtSubmits < MaxRtSubmits /\ rtSubmits' = rtSubmits + 1
    /\ IF Len(waiting) >= MaxQueue THEN UNCHANGED <<table, waiting>>
       ELSE table' = table \cup {j} /\ waiting' = Append(waiting, j)
    /\ UNCHANGED <<running, session>>

\* The queue sorted by priority, stably; a job without a table entry counts as normal.
ByRank(q) == StablySorted(q, [j \in RtJob |-> IF j \in table THEN Rank[j] ELSE 2])

\* Mutant of Dispatch: the running jobs are not subtracted from the limit.
DispatchFull(n) ==
    /\ waiting # <<>>
    /\ LET k == CHOOSE m \in 0 .. n : m = n \/ m = Len(waiting)
           taken == SubSeq(ByRank(waiting), 1, k)
       IN  /\ waiting' = SubSeq(ByRank(waiting), k + 1, Len(waiting))
           /\ running' = [j \in RtJob |-> IF j \in Range(taken) \cap table THEN "dispatched"
                                          ELSE running[j]]
    /\ UNCHANGED <<table, session, rtSubmits>>

\* dispatch(n): as many as the limit leaves, n and the queue allow; one whose entry is
\* gone is dropped, and one already running is dispatched over it.
Dispatch(n) ==
    /\ waiting # <<>>
    /\ LET free == MaxConcurrent - Cardinality(Running)
           k == CHOOSE m \in {free, n, Len(waiting)} : m <= free /\ m <= n /\ m <= Len(waiting)
           taken == SubSeq(ByRank(waiting), 1, k)
       IN  /\ waiting' = SubSeq(ByRank(waiting), k + 1, Len(waiting))
           /\ running' = [j \in RtJob |-> IF j \in Range(taken) \cap table THEN "dispatched"
                                          ELSE running[j]]
    /\ UNCHANGED <<table, session, rtSubmits>>

MarkRunning(j, state) ==
    /\ j \in Running /\ running' = [running EXCEPT ![j] = state]
    /\ UNCHANGED <<table, waiting, session, rtSubmits>>

\* complete_job, and cancel_job of a running job.
EndJob(j) ==
    /\ j \in Running /\ running' = [running EXCEPT ![j] = "none"]
    /\ table' = table \ {j}
    /\ UNCHANGED <<waiting, session, rtSubmits>>

\* cancel_job of a queued job takes its first entry out of the queue.
CancelQueued(j) ==
    /\ j \notin Running /\ Contains(waiting, j)
    /\ waiting' = RemoveFirst(waiting, j) /\ table' = table \ {j}
    /\ UNCHANGED <<running, session, rtSubmits>>

Sessions == {s \in Stream : session[s] # "none"}

\* create_session: an id in use is replaced, and refused too when the manager is full.
CreateSession(s) ==
    /\ Cardinality(Sessions) < MaxSessions
    /\ session' = [session EXCEPT ![s] = "initializing"]
    /\ UNCHANGED <<table, waiting, running, rtSubmits>>

\* activate and apply_backpressure take a session from any state, resume from
\* backpressure only; complete_session ends it.  Tokens change no state.
MoveSession(s, to) ==
    /\ s \in Sessions
    /\ session' = [session EXCEPT ![s] = to]
    /\ UNCHANGED <<table, waiting, running, rtSubmits>>

RqNext ==
    \/ \E j \in RtJob : \/ SubmitRt(j) \/ EndJob(j) \/ CancelQueued(j)
                        \/ \E state \in {"running", "streaming"} : MarkRunning(j, state)
    \/ \E n \in 1 .. MaxQueue : Dispatch(n)
    \/ \E s \in Stream : \/ CreateSession(s)
                         \/ \E to \in {"active", "backpressure", "none"} : MoveSession(s, to)

RqSpec == RqInit /\ [][RqNext]_rqVars

-----------------------------------------------------------------------------
(* Properties *)

\* Whatever ids are submitted twice, cancelled and completed, in any order: no more runs,
\* waits and streams than the limits say, what runs has its entry in the table, and an
\* entry of the table is queued or running, so that none is left behind.
RuntimeHoldsItsJobs ==
    /\ Cardinality(Running) <= MaxConcurrent /\ Len(waiting) <= MaxQueue
    /\ Cardinality(Sessions) <= MaxSessions
    /\ Running \subseteq table
    /\ table \subseteq Running \cup Range(waiting)
=============================================================================
