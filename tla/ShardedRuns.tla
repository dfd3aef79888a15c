---------------------------- MODULE ShardedRuns ----------------------------
(***************************************************************************)
(* Executions split into shards (runtime/distributed_execution.py).  Every *)
(* operation holds the lock.  An execution's id is its workload and the    *)
(* second it was planned in, so that a second plan within the second       *)
(* replaces the first.  The manager counts the reports of an execution and *)
(* finalizes it when they are as many as its shards; it does not look      *)
(* whether they are about different ones.                                  *)
(***************************************************************************)
EXTENDS Integers, FiniteSets

CONSTANTS
    Execution,   \* execution ids
    MaxShards    \* bound: shard_count

ASSUME ShardAssumption == MaxShards \in Nat

ShardState == {"pending", "running", "completed", "failed"}
Shards(n) == [1 .. n -> ShardState]

VARIABLES
    activeRuns,     \* the ids in _executions
    shard,      \* the shards of each execution, the finalized ones' as they were
    completedOf, failedOf \* completed_shards and failed_shards

shVars == <<activeRuns, shard, completedOf, failedOf>>

ShardedRunsTypeOK ==
    /\ activeRuns \subseteq Execution
    /\ \A e \in Execution : \E n \in 0 .. MaxShards : shard[e] \in Shards(n)
    /\ completedOf \in [Execution -> 0 .. MaxShards] /\ failedOf \in [Execution -> 0 .. MaxShards]

ShInit ==
    /\ activeRuns = {} /\ shard = [e \in Execution |-> <<>>]
    /\ completedOf = [e \in Execution |-> 0] /\ failedOf = [e \in Execution |-> 0]

\* plan_execution and create_execution: nobody refuses an execution without shards.
PlanExecution(e, n) ==
    /\ activeRuns' = activeRuns \cup {e}
    /\ shard' = [shard EXCEPT ![e] = [i \in 1 .. n |-> "pending"]]
    /\ completedOf' = [completedOf EXCEPT ![e] = 0] /\ failedOf' = [failedOf EXCEPT ![e] = 0]

\* start_shard, from any state: a finished shard may be started again.
StartShard(e, i) ==
    /\ e \in activeRuns
    /\ shard' = [shard EXCEPT ![e][i] = "running"]
    /\ UNCHANGED <<activeRuns, completedOf, failedOf>>

Finalized(e, c, f) == c + f >= Cardinality(DOMAIN shard[e])

\* complete_shard, from any state: every report counts, also a repeated one.
CompleteShard(e, i, success) ==
    LET c == completedOf[e] + (IF success THEN 1 ELSE 0)
        f == failedOf[e] + (IF success THEN 0 ELSE 1)
    IN  /\ e \in activeRuns
        /\ shard' = [shard EXCEPT ![e][i] = IF success THEN "completed" ELSE "failed"]
        /\ completedOf' = [completedOf EXCEPT ![e] = c] /\ failedOf' = [failedOf EXCEPT ![e] = f]
        /\ activeRuns' = IF Finalized(e, c, f) THEN activeRuns \ {e} ELSE activeRuns

ShNext ==
    \E e \in Execution :
        \/ \E n \in 0 .. MaxShards : PlanExecution(e, n)
        \/ \E i \in DOMAIN shard[e] : \/ StartShard(e, i)
                                      \/ \E success \in BOOLEAN : CompleteShard(e, i, success)

ShSpec == ShInit /\ [][ShNext]_shVars

-----------------------------------------------------------------------------
(* Properties *)

Over(e) == {i \in DOMAIN shard[e] : shard[e][i] \in {"completed", "failed"}}

\* An execution that has shards is not left open once all of them have reported, in
\* whatever order and however often they are started and reported; and one that is over
\* counted no more reports than it has shards.
NoneLeftOpen ==
    \A e \in Execution :
        /\ e \in activeRuns /\ shard[e] # <<>> => Over(e) # DOMAIN shard[e]
        /\ completedOf[e] + failedOf[e] <= Cardinality(DOMAIN shard[e])
=============================================================================
