---------------------------- MODULE ClusterAgent ----------------------------
(***************************************************************************)
(* The agent of a control plane (cluster_client/cluster_agent.py) and the  *)
(* row the federation keeps for its cluster (federation/heartbeat.py): the *)
(* agent registers until it succeeds once, and sends heartbeats for ever   *)
(* after, whatever they are answered.  The federation's sweep lists the    *)
(* clusters and then writes those it found silent back as offline, one by  *)
(* one, over whatever a heartbeat has written in between.                  *)
(*                                                                         *)
(* Rows are in a database and survive a restart of the federation; nothing *)
(* deletes them.                                                           *)
(***************************************************************************)
EXTENDS Integers, FiniteSets

CONSTANTS
    Member_,     \* the clusters
    MaxOutages   \* bound: outages of the federation and answers that are lost

ASSUME ClusterAgentAssumption == IsFiniteSet(Member_) /\ MaxOutages \in Nat

VARIABLES
    agentAt,    \* where an agent is in _run: "registering" or "beating"
    clusterRow, \* the row: [state, recent], or none; recent is last_heartbeat in the timeout
    silent,     \* the clusters that a sweep found silent and has not written yet
    reachable,  \* the federation answers
    outagesLeft

caVars == <<agentAt, clusterRow, silent, reachable, outagesLeft>>

Row == [state : {"none", "online", "offline"}, recent : BOOLEAN]

ClusterAgentTypeOK ==
    /\ agentAt \in [Member_ -> {"registering", "beating"}]
    /\ clusterRow \in [Member_ -> Row] /\ silent \subseteq Member_
    /\ reachable \in BOOLEAN /\ outagesLeft \in 0 .. MaxOutages

CgInit ==
    /\ agentAt = [m \in Member_ |-> "registering"]
    /\ clusterRow = [m \in Member_ |-> [state |-> "none", recent |-> FALSE]]
    /\ silent = {} /\ reachable = TRUE /\ outagesLeft = MaxOutages

Alive(m) == clusterRow' = [clusterRow EXCEPT ![m] = [state |-> "online", recent |-> TRUE]]

\* _register_once succeeds: register_cluster inserts or replaces the row.
Registers(m) ==
    /\ agentAt[m] = "registering" /\ reachable
    /\ Alive(m) /\ agentAt' = [agentAt EXCEPT ![m] = "beating"]
    /\ UNCHANGED <<silent, reachable, outagesLeft>>

\* The registration arrives and its answer is lost: the agent tries again.
RegistersUnanswered(m) ==
    /\ agentAt[m] = "registering" /\ reachable /\ outagesLeft > 0
    /\ Alive(m) /\ outagesLeft' = outagesLeft - 1
    /\ UNCHANGED <<agentAt, silent, reachable>>

\* _heartbeat_once and apply_heartbeat: a row that is offline is online again.
Beats(m) ==
    /\ agentAt[m] = "beating" /\ reachable
    /\ Alive(m)
    /\ UNCHANGED <<agentAt, silent, reachable, outagesLeft>>

\* The heartbeat timeout passes since the last heartbeat of the cluster.
Silences(m) ==
    /\ clusterRow[m].recent
    /\ clusterRow' = [clusterRow EXCEPT ![m].recent = FALSE]
    /\ UNCHANGED <<agentAt, silent, reachable, outagesLeft>>

\* sweep_stale_clusters reads the rows; those already offline are skipped ...
SweepReads ==
    /\ silent = {} /\ reachable
    /\ silent' = {m \in Member_ : clusterRow[m].state = "online" /\ ~clusterRow[m].recent}
    /\ UNCHANGED <<agentAt, clusterRow, reachable, outagesLeft>>

\* ... and writes its copy of each silent one back as offline.
SweepWrites(m) ==
    /\ m \in silent /\ reachable
    /\ clusterRow' = [clusterRow EXCEPT ![m] = [state |-> "offline", recent |-> FALSE]]
    /\ silent' = silent \ {m}
    /\ UNCHANGED <<agentAt, reachable, outagesLeft>>

\* The federation stops, and a sweep with it; it starts again with its database.
Outage_ ==
    /\ reachable /\ outagesLeft > 0
    /\ reachable' = FALSE /\ outagesLeft' = outagesLeft - 1 /\ silent' = {}
    /\ UNCHANGED <<agentAt, clusterRow>>

BackAgain ==
    /\ ~reachable /\ reachable' = TRUE
    /\ UNCHANGED <<agentAt, clusterRow, silent, outagesLeft>>

CgNext ==
    \/ \E m \in Member_ : \/ Registers(m) \/ RegistersUnanswered(m) \/ Beats(m)
                          \/ Silences(m) \/ SweepWrites(m)
    \/ SweepReads \/ Outage_ \/ BackAgain

\* The agent's loop goes on while the control plane lives, a sweep that has begun goes on,
\* and an operator brings the federation back.
CgFairness ==
    /\ \A m \in Member_ : WF_caVars(Registers(m)) /\ WF_caVars(Beats(m))
                         /\ WF_caVars(SweepWrites(m))
    /\ WF_caVars(BackAgain)

CgSpec == CgInit /\ [][CgNext]_caVars /\ CgFairness

-----------------------------------------------------------------------------
(* Properties *)

\* Whatever outages, lost answers and stale sweeps do: a cluster whose control plane lives
\* is always online in the federation again, and one whose agent has registered has a row.
ClusterComesBack ==
    \A m \in Member_ : /\ []<>(clusterRow[m].state = "online")
                       /\ [](agentAt[m] = "beating" => clusterRow[m].state # "none")
=============================================================================
