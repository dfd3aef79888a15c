--------------------------- MODULE EdgeScheduler ---------------------------
(***************************************************************************)
(* The scheduler of the edge nodes (edge/edge_scheduler.py).  Every        *)
(* operation holds the lock.  A workload is its id; a client may submit an *)
(* id again at any time, and then the running table holds one of the two   *)
(* while the load of a node counts both.  A node may register again with   *)
(* another capacity, and keeps its load.                                   *)
(***************************************************************************)
EXTENDS Integers, FiniteSets, Sequences, SequencesExt, Lists

CONSTANTS
    EdgeNode,
    Workload,
    Priority,     \* priority of a workload: [Workload -> Int]
    Capacities,   \* the capacities nodes register with
    NoEdgeNode,
    MaxSubmits    \* bound: submissions

ASSUME EdgeSchedulerAssumption ==
    /\ IsFiniteSet(EdgeNode) /\ NoEdgeNode \notin EdgeNode
    /\ Capacities \subseteq Nat /\ Priority \in [Workload -> Int] /\ MaxSubmits \in Nat

VARIABLES
    edgeQueue,  \* _queue
    runsOn,     \* _running: the assigned node of each running workload
    edgeNodes,  \* the keys of _node_capacity
    capacity,   \* _node_capacity
    load,       \* _node_current_load
    most,       \* history: the largest capacity of a node since it last left
    submits

esVars == <<edgeQueue, runsOn, edgeNodes, capacity, load, most, submits>>

EdgeSchedulerTypeOK ==
    /\ edgeQueue \in Seq(Workload)
    /\ runsOn \in [Workload -> EdgeNode \cup {NoEdgeNode}]
    /\ edgeNodes \subseteq EdgeNode
    /\ capacity \in [EdgeNode -> Nat] /\ most \in [EdgeNode -> Nat]
    /\ load \in [EdgeNode -> 0 .. MaxSubmits]
    /\ submits \in 0 .. MaxSubmits

EsInit ==
    /\ edgeQueue = <<>> /\ runsOn = [w \in Workload |-> NoEdgeNode]
    /\ edgeNodes = {} /\ load = [n \in EdgeNode |-> 0] /\ submits = 0
    /\ capacity = [n \in EdgeNode |-> 0] /\ most = [n \in EdgeNode |-> 0]

\* register_node: a node that is known takes the new capacity and keeps its load.
RegisterEdge(n, slots) ==
    /\ edgeNodes' = edgeNodes \cup {n} /\ capacity' = [capacity EXCEPT ![n] = slots]
    /\ most' = [most EXCEPT ![n] = IF @ < slots THEN slots ELSE @]
    /\ UNCHANGED <<edgeQueue, runsOn, load, submits>>

\* unregister_node: its workloads return to the end of the queue, which is not sorted.
UnregisterEdge(n) ==
    LET orphaned == {w \in Workload : runsOn[w] = n} IN
    /\ edgeNodes' = edgeNodes \ {n} /\ load' = [load EXCEPT ![n] = 0]
    /\ capacity' = [capacity EXCEPT ![n] = 0] /\ most' = [most EXCEPT ![n] = 0]
    /\ runsOn' = [w \in Workload |-> IF w \in orphaned THEN NoEdgeNode ELSE runsOn[w]]
    /\ \E order \in SetToSeqs(orphaned) : edgeQueue' = edgeQueue \o order
    /\ UNCHANGED submits

\* The highest priority first; equal ones keep their order.
ByPriority(q) == StablySorted(q, [w \in Workload |-> 0 - Priority[w]])

SubmitWorkload(w) ==
    /\ submits < MaxSubmits /\ submits' = submits + 1
    /\ edgeQueue' = ByPriority(Append(edgeQueue, w))
    /\ UNCHANGED <<runsOn, edgeNodes, capacity, load, most>>

Headroom(n) == capacity[n] - load[n]

\* schedule_next gives the head of the queue to the node with most room.
ScheduleNext ==
    /\ edgeQueue # <<>>
    /\ \E n \in edgeNodes :
          /\ Headroom(n) > 0 /\ \A m \in edgeNodes : Headroom(m) <= Headroom(n)
          /\ runsOn' = [runsOn EXCEPT ![Head(edgeQueue)] = n]
          /\ load' = [load EXCEPT ![n] = @ + 1]
    /\ edgeQueue' = Tail(edgeQueue)
    /\ UNCHANGED <<edgeNodes, capacity, most, submits>>

\* complete, reported by the node it runs on or, late, by one it ran on before.
CompleteWorkload(w) ==
    LET n == runsOn[w] IN
    /\ n # NoEdgeNode
    /\ runsOn' = [runsOn EXCEPT ![w] = NoEdgeNode]
    /\ load' = [load EXCEPT ![n] = IF @ > 0 THEN @ - 1 ELSE 0]
    /\ UNCHANGED <<edgeQueue, edgeNodes, capacity, most, submits>>

EsNext ==
    \/ \E n \in EdgeNode : UnregisterEdge(n) \/ \E slots \in Capacities : RegisterEdge(n, slots)
    \/ \E w \in Workload : SubmitWorkload(w) \/ CompleteWorkload(w)
    \/ ScheduleNext

EsSpec == EsInit /\ [][EsNext]_esVars

-----------------------------------------------------------------------------
(* Properties *)

\* However nodes leave, come back and shrink, ids are submitted twice and completions
\* arrive late, a node runs no more workloads than it is charged for, and is charged for no
\* more than the largest capacity it had since it last left; a node that registers again
\* with less keeps what it runs, and is over its capacity until enough of it completes.
EdgeLoadCovers ==
    \A n \in EdgeNode :
        /\ Cardinality({w \in Workload : runsOn[w] = n}) <= load[n]
        /\ load[n] <= most[n] /\ capacity[n] <= most[n]
=============================================================================
