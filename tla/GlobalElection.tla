--------------------------- MODULE GlobalElection ---------------------------
(***************************************************************************)
(* Leaders of the global control plane (GlobalConsensus of                 *)
(* global_control/consensus.py).  Each node ticks every ten seconds in a   *)
(* thread; heartbeats of a leader reach the others by a transport that is  *)
(* external and may delay, reorder and lose them: nothing in the           *)
(* repository calls receive_heartbeat.  Both take the node's lock.         *)
(*                                                                         *)
(* A lease is kept as the time it still lasts, 0 once it has expired, so   *)
(* that time may run on for ever.  Clocks agree.                           *)
(***************************************************************************)
EXTENDS Naturals, FiniteSets

CONSTANTS
    GNode,       \* nodes of the global control plane
    NoNode,      \* leader_id before a leader is known
    NodeTTL,     \* lease_ttl_sec
    MaxOnWay,    \* bound: heartbeats on their way
    MaxNodeStops \* bound: stops of nodes

ASSUME GNodeAssumption == IsFiniteSet(GNode) /\ NoNode \notin GNode
ASSUME NodeTTLAssumption == NodeTTL \in Nat \ {0} /\ MaxOnWay \in Nat /\ MaxNodeStops \in Nat

VARIABLES
    role,     \* _state of each node, or down
    follows,  \* _leader_id
    lease,    \* _lease_expiry
    onWay,    \* heartbeats: sender, receiver and the lease they carry
    stopped   \* how often nodes stopped

geVars == <<role, follows, lease, onWay, stopped>>

Beat == [from : GNode, to : GNode, lease : 0 .. NodeTTL]

GlobalElectionTypeOK ==
    /\ role \in [GNode -> {"down", "leader", "follower"}]
    /\ follows \in [GNode -> GNode \cup {NoNode}]
    /\ lease \in [GNode -> 0 .. NodeTTL]
    /\ onWay \in SUBSET Beat
    /\ stopped \in Nat

GeInit ==
    /\ role = [n \in GNode |-> "down"]
    /\ follows = [n \in GNode |-> NoNode]
    /\ lease = [n \in GNode |-> 0]
    /\ onWay = {} /\ stopped = 0

\* A new process: a follower that knows no leader.
StartNode(n) ==
    /\ role[n] = "down"
    /\ role' = [role EXCEPT ![n] = "follower"]
    /\ follows' = [follows EXCEPT ![n] = NoNode]
    /\ lease' = [lease EXCEPT ![n] = 0]
    /\ UNCHANGED <<onWay, stopped>>

StopNode(n) ==
    /\ role[n] # "down" /\ stopped < MaxNodeStops
    /\ role' = [role EXCEPT ![n] = "down"]
    /\ stopped' = stopped + 1
    /\ UNCHANGED <<follows, lease, onWay>>

\* Mutant of Renew: the lease is extended by its length, not set from now.
RenewAddsUp(n) ==
    /\ role[n] = "leader"
    /\ lease' = [lease EXCEPT ![n] = @ + NodeTTL]
    /\ UNCHANGED <<role, follows, onWay, stopped>>

\* _tick of a leader.
Renew(n) ==
    /\ role[n] = "leader"
    /\ lease' = [lease EXCEPT ![n] = NodeTTL]
    /\ UNCHANGED <<role, follows, onWay, stopped>>

\* Mutant of Promote: only a node that has never known a leader promotes itself.
PromoteFirst(n) ==
    /\ role[n] = "follower" /\ follows[n] = NoNode
    /\ role' = [role EXCEPT ![n] = "leader"]
    /\ follows' = [follows EXCEPT ![n] = n]
    /\ lease' = [lease EXCEPT ![n] = NodeTTL]
    /\ UNCHANGED <<onWay, stopped>>

\* _tick and _try_promote of a follower whose lease has expired, or that knows no
\* leader: it asks nobody.
Promote(n) ==
    /\ role[n] = "follower"
    /\ lease[n] = 0 \/ follows[n] = NoNode
    /\ role' = [role EXCEPT ![n] = "leader"]
    /\ follows' = [follows EXCEPT ![n] = n]
    /\ lease' = [lease EXCEPT ![n] = NodeTTL]
    /\ UNCHANGED <<onWay, stopped>>

\* A leader's status is sent to another node.
SendBeat(n, m) ==
    /\ role[n] = "leader" /\ m # n
    /\ Cardinality(onWay) < MaxOnWay
    /\ onWay' = onWay \cup {[from |-> n, to |-> m, lease |-> lease[n]]}
    /\ UNCHANGED <<role, follows, lease, stopped>>

\* receive_heartbeat: a leader steps down, and whoever sends is followed from now
\* on, with the lease the heartbeat carries, later or earlier than the old one.
ReceiveHeartbeat(b) ==
    /\ onWay' = onWay \ {b}
    /\ IF role[b.to] = "down" THEN UNCHANGED <<role, follows, lease>>
       ELSE /\ role' = [role EXCEPT ![b.to] = "follower"]
            /\ follows' = [follows EXCEPT ![b.to] = b.from]
            /\ lease' = [lease EXCEPT ![b.to] = b.lease]
    /\ UNCHANGED stopped

LoseBeat(b) == onWay' = onWay \ {b} /\ UNCHANGED <<role, follows, lease, stopped>>

\* Time passes for every lease, a leader's too when its thread is late.
Left(t) == IF t = 0 THEN 0 ELSE t - 1

TimePasses ==
    /\ \E n \in GNode : lease[n] > 0
    /\ lease' = [n \in GNode |-> Left(lease[n])]
    /\ onWay' = {[b EXCEPT !.lease = Left(@)] : b \in onWay}
    /\ UNCHANGED <<role, follows, stopped>>

GeNext ==
    \/ \E n \in GNode : StartNode(n) \/ StopNode(n) \/ Renew(n) \/ Promote(n)
    \/ \E n, m \in GNode : SendBeat(n, m)
    \/ \E b \in onWay : ReceiveHeartbeat(b) \/ LoseBeat(b)
    \/ TimePasses

\* Nodes start, tick, and time goes on; heartbeats need not arrive.
GeFairness ==
    /\ \A n \in GNode : WF_geVars(StartNode(n)) /\ WF_geVars(Promote(n))
                        /\ WF_geVars(Renew(n))
    /\ WF_geVars(TimePasses)

GeSpec == GeInit /\ [][GeNext]_geVars /\ GeFairness

-----------------------------------------------------------------------------
(* Properties *)

\* A follower trusts a leader no longer than the lease this leader has, whatever
\* heartbeats are late or out of order and however often the leader was deposed
\* and promoted again; and only a node that follows itself leads.
LeaseWithinLeaders ==
    \A n, m \in GNode :
        /\ role[m] = "leader" => follows[m] = m
        /\ role[n] = "follower" /\ follows[n] = m /\ role[m] = "leader" => lease[n] <= lease[m]

\* However nodes stop, restart and depose each other, there is a leader again and
\* again: two leaders whose heartbeats cross both step down, but not for good.
LeaderAgain == []<>(\E n \in GNode : role[n] = "leader")
=============================================================================
