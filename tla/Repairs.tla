------------------------------ MODULE Repairs ------------------------------
(***************************************************************************)
(* The three repair desks: the healing system (repair/auto_healing.py),    *)
(* the workload rebuilder (repair/workload_rebuilder.py) and deployment    *)
(* repair (repair/deployment_repair.py).  Each keeps a list of requests;   *)
(* callers take all pending ones and execute them one by one, under the    *)
(* lock at the start and at the end and without it in between, so several  *)
(* callers interleave.                                                     *)
(*                                                                         *)
(* A request's id is its target and the second it was made in: two of one  *)
(* second share an id, and the table of running ones holds one of them.    *)
(* What is wrong with a target, and hence the action chosen, is left out,  *)
(* and so is the cut of the list at max_history.                           *)
(***************************************************************************)
EXTENDS Integers, FiniteSets, Sequences, SequencesExt, Lists

CONSTANTS
    Crew,        \* callers of heal, rebuild_all_pending and repair_all_pending
    RepairId,    \* request ids
    Urgency,     \* order of the requests in a batch, by id: [RepairId -> Nat]
    AtOnce,      \* max_concurrent of healing and rebuilding
    MaxRequests  \* bound: requests

Desk == {"heal", "rebuild", "deploy"}

ASSUME RepairsAssumption == /\ IsFiniteSet(Crew) /\ IsFiniteSet(RepairId)
                            /\ Urgency \in [RepairId -> Nat]
                            /\ AtOnce \in Nat \ {0} /\ MaxRequests \in Nat

VARIABLES
    requests,  \* _actions, _requests and _repairs, in one list
    inHand,    \* _active_actions and _active: the ids being executed at each desk
    batch,     \* the requests each caller still has to go through
    repairing  \* the request each caller is executing, 0 for none

reVars == <<requests, inHand, batch, repairing>>

Request == [desk : Desk, id : RepairId, runs : 0 .. MaxRequests,
            status : {"pending", "executing", "completed", "rolled_back"}]

RepairsTypeOK ==
    /\ requests \in Seq(Request) /\ Len(requests) <= MaxRequests
    /\ inHand \in [Desk -> SUBSET RepairId]
    /\ \A c \in Crew : batch[c] \in Seq(1 .. MaxRequests) /\ repairing[c] \in 0 .. MaxRequests

ReInit ==
    /\ requests = <<>> /\ inHand = [d \in Desk |-> {}]
    /\ batch = [c \in Crew |-> <<>>] /\ repairing = [c \in Crew |-> 0]

FreeHands(c) == repairing[c] = 0 /\ batch[c] = <<>>
New(d, id) == [desk |-> d, id |-> id, status |-> "pending", runs |-> 0]

\* request_rebuild and request_repair.
RequestRepair(d, id) ==
    /\ d # "heal" /\ Len(requests) < MaxRequests
    /\ requests' = Append(requests, New(d, id))
    /\ UNCHANGED <<inHand, batch, repairing>>

\* detect_failures in heal: the targets that look bad, the most urgent first, become
\* requests that this caller goes through.
Detect(c, ids) ==
    /\ FreeHands(c) /\ ids # {} /\ Len(requests) + Cardinality(ids) <= MaxRequests
    /\ LET order == StablySorted(SetToSeq(ids), [id \in RepairId |-> 0 - Urgency[id]]) IN
       /\ requests' = requests \o [i \in DOMAIN order |-> New("heal", order[i])]
       /\ batch' = [batch EXCEPT ![c] = [i \in DOMAIN order |-> Len(requests) + i]]
    /\ UNCHANGED <<inHand, repairing>>

Pending(d) == {i \in DOMAIN requests : requests[i].desk = d /\ requests[i].status = "pending"}

\* rebuild_all_pending, by priority, and repair_all_pending, in the list's order, read
\* the pending requests of this moment.
CollectPending(c, d) ==
    /\ FreeHands(c) /\ d # "heal" /\ Pending(d) # {}
    /\ LET listed == Selection([i \in DOMAIN requests |-> i], Pending(d))
           order == [i \in DOMAIN requests |-> IF d = "rebuild" THEN 0 - Urgency[requests[i].id] ELSE 0]
       IN  batch' = [batch EXCEPT ![c] = StablySorted(listed, order)]
    /\ UNCHANGED <<requests, inHand, repairing>>

\* The request an execution finds: the healing system is handed it, the others look
\* for the first pending one with its id.
Found(i) ==
    LET r == requests[i]
        same == {k \in Pending(r.desk) : requests[k].id = r.id}
    IN  IF r.desk = "heal" THEN {i} ELSE {k \in same : \A l \in same : k <= l}

Full(d) == d # "deploy" /\ Cardinality(inHand[d]) >= AtOnce

\* The start of an execution.  When there is none to execute, or the desk is full, the
\* healing system returns the action as it is, the rebuilder's batch ends, and
\* deployment repair goes on to the next.
Take(c) ==
    /\ repairing[c] = 0 /\ batch[c] # <<>>
    /\ LET i == Head(batch[c])
           d == requests[i].desk
       IN  IF Found(i) = {} \/ Full(d)
           THEN /\ batch' = [batch EXCEPT ![c] = IF d = "rebuild" THEN <<>> ELSE Tail(@)]
                /\ UNCHANGED <<requests, inHand, repairing>>
           ELSE \E k \in Found(i) :
                   /\ requests' = [requests EXCEPT ![k].status = "executing", ![k].runs = @ + 1]
                   /\ inHand' = [inHand EXCEPT ![d] = @ \cup {requests[k].id}]
                   /\ batch' = [batch EXCEPT ![c] = Tail(@)]
                   /\ repairing' = [repairing EXCEPT ![c] = k]

\* The end of an execution; the table forgets the id, whoever else holds it.
RepairDone(c) ==
    /\ repairing[c] # 0
    /\ LET k == repairing[c] IN
       /\ requests' = [requests EXCEPT ![k].status = "completed"]
       /\ inHand' = [inHand EXCEPT ![requests[k].desk] = @ \ {requests[k].id}]
    /\ repairing' = [repairing EXCEPT ![c] = 0]
    /\ UNCHANGED batch

\* rollback_action: the first completed action with the id.
Rollback(id) ==
    /\ LET done == {k \in DOMAIN requests : /\ requests[k].desk = "heal" /\ requests[k].id = id
                                            /\ requests[k].status = "completed"}
       IN  \E k \in done : /\ \A l \in done : k <= l
                           /\ requests' = [requests EXCEPT ![k].status = "rolled_back"]
    /\ UNCHANGED <<inHand, batch, repairing>>

ReNext ==
    \/ \E d \in Desk, id \in RepairId : RequestRepair(d, id)
    \/ \E c \in Crew : \/ \E ids \in SUBSET RepairId : Detect(c, ids)
                       \/ \E d \in Desk : CollectPending(c, d)
                       \/ Take(c) \/ RepairDone(c)
    \/ \E id \in RepairId : Rollback(id)

ReSpec == ReInit /\ [][ReNext]_reVars

-----------------------------------------------------------------------------
(* Properties *)

\* Two callers that go through the same pending requests, with ids that may be shared,
\* execute each of them at most once, and one that is over was executed.
RepairedOnce ==
    \A k \in DOMAIN requests :
        /\ requests[k].runs <= 1
        /\ requests[k].status = "pending" <=> requests[k].runs = 0
        /\ requests[k].status = "executing" <=> \E c \in Crew : repairing[c] = k
=============================================================================
