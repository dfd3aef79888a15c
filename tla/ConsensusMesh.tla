---------------------------- MODULE ConsensusMesh ----------------------------
(***************************************************************************)
(* Members, leader and voting rounds of coordination/consensus_mesh.py.    *)
(* A call holds the mesh's lock, so it is one step.                        *)
(*                                                                         *)
(* Votes carry no voter: whoever calls vote_round is counted, again when   *)
(* it calls again.  Callers make round ids they have not used before.  The *)
(* time of a heartbeat is its rank among them: no two have the same time.  *)
(* A member registers, and registers again, with the object it has, in     *)
(* whatever state that object is; the states candidate and observer, which *)
(* nothing in the module sets or reads, count as follower.                 *)
(* quorum_fraction has its default of one half.                            *)
(***************************************************************************)
EXTENDS Integers, FiniteSets

CONSTANTS
    Member,      \* node_id
    Round,       \* round_id
    NoMember,    \* no leader, no node of that id
    MaxBeat,     \* bound: calls of register_node and heartbeat
    MaxTerm      \* bound: elections

ASSUME MemberAssumption == IsFiniteSet(Member) /\ NoMember \notin Member
ASSUME MeshBoundAssumption == MaxBeat \in Nat /\ MaxTerm \in Nat

VARIABLES
    node,    \* _nodes: healthy, last heartbeat, state and term of each member
    term,    \* _current_term
    leader,  \* _leader_id
    beats,   \* how many heartbeats there have been
    claims,  \* history: the members that registered as leader since one was last elected
    ballot   \* the rounds: result, votes and quorum

cmVars == <<node, term, leader, beats, claims, ballot>>

Node == [healthy : BOOLEAN, beat : Nat, state : {"leader", "follower"}, term : Nat]
Ballot == [result : {"new", "pending", "accepted", "rejected"},
           yes : Nat, no : Nat, quorum : Nat \ {0}]

ConsensusMeshTypeOK ==
    /\ node \in [Member -> Node \cup {NoMember}]
    /\ term \in Nat /\ beats \in Nat
    /\ leader \in Member \cup {NoMember} /\ claims \subseteq Member
    /\ ballot \in [Round -> Ballot]

ASSUME NodeAssumption == NoMember \notin Node

Registered == {m \in Member : node[m] # NoMember}
Healthy == {m \in Registered : node[m].healthy}

CmInit ==
    /\ node = [m \in Member |-> NoMember]
    /\ term = 0 /\ leader = NoMember /\ beats = 0 /\ claims = {}
    /\ ballot = [r \in Round |-> [result |-> "new", yes |-> 0, no |-> 0, quorum |-> 1]]

-----------------------------------------------------------------------------
(* Members and leader *)

\* register_node sets the heartbeat and the term of the object it is given, and puts it in
\* place as it is: also one that is in state leader.
RegisterNode(m, state, healthy) ==
    /\ beats < MaxBeat /\ beats' = beats + 1
    /\ node' = [node EXCEPT ![m] =
                  [healthy |-> healthy, beat |-> beats', state |-> state, term |-> term]]
    /\ claims' = IF state = "leader" THEN claims \cup {m} ELSE claims \ {m}
    /\ UNCHANGED <<term, leader, ballot>>

RemoveNode(m) ==
    /\ m \in Registered
    /\ node' = [node EXCEPT ![m] = NoMember]
    /\ leader' = IF leader = m THEN NoMember ELSE leader
    /\ UNCHANGED <<term, beats, claims, ballot>>

Heartbeat(m) ==
    /\ m \in Registered /\ beats < MaxBeat
    /\ beats' = beats + 1
    /\ node' = [node EXCEPT ![m].healthy = TRUE, ![m].beat = beats']
    /\ UNCHANGED <<term, leader, claims, ballot>>

\* check_health: those whose last heartbeat is older than the timeout, all of them when all
\* are silent; the leader stays leader.
CheckHealth ==
    /\ \E since \in 1 .. beats + 1 :
          node' = [m \in Member |-> IF m \in Registered /\ node[m].beat < since
                                    THEN [node[m] EXCEPT !.healthy = FALSE] ELSE node[m]]
    /\ UNCHANGED <<term, leader, beats, claims, ballot>>

\* The healthy member with the latest heartbeat.
Freshest(m) == m \in Healthy /\ \A n \in Healthy : node[n].beat <= node[m].beat

\* elect_leader: without a healthy member only the term and the leader's id change.
ElectLeader ==
    /\ term < MaxTerm /\ term' = term + 1
    /\ IF Healthy = {}
       THEN leader' = NoMember /\ UNCHANGED <<node, claims>>
       ELSE \E m \in Member :
              /\ Freshest(m) /\ leader' = m /\ claims' = {}
              /\ node' = [n \in Member |-> IF n \in Registered
                            THEN [node[n] EXCEPT !.term = term',
                                                 !.state = IF n = m THEN "leader" ELSE "follower"]
                            ELSE NoMember]
    /\ UNCHANGED <<beats, ballot>>

-----------------------------------------------------------------------------
(* Rounds *)

\* Mutant of ProposeRound: half of the healthy members are enough, also half of none.
ProposeHalf(r) ==
    /\ ballot[r].result = "new"
    /\ ballot' = [ballot EXCEPT ![r].result = "pending",
                                ![r].quorum = Cardinality(Healthy) \div 2]
    /\ UNCHANGED <<node, term, leader, beats, claims>>

\* propose_round: more than half of the members that are healthy now, one at least.
ProposeRound(r) ==
    /\ ballot[r].result = "new"
    /\ ballot' = [ballot EXCEPT ![r].result = "pending",
                                ![r].quorum = Cardinality(Healthy) \div 2 + 1]
    /\ UNCHANGED <<node, term, leader, beats, claims>>

Counted(b) ==
    IF b.yes >= b.quorum THEN [b EXCEPT !.result = "accepted"]
    ELSE IF b.no >= b.quorum THEN [b EXCEPT !.result = "rejected"]
    ELSE b

\* vote_round counts while the round is pending, _finalize_round ends that.
VoteRound(r, approve) ==
    /\ ballot[r].result = "pending"
    /\ LET b == ballot[r]
           voted == IF approve THEN [b EXCEPT !.yes = b.yes + 1] ELSE [b EXCEPT !.no = b.no + 1]
       IN ballot' = [ballot EXCEPT ![r] = Counted(voted)]
    /\ UNCHANGED <<node, term, leader, beats, claims>>

AutoApproveRound(r) ==
    /\ ballot[r].result = "pending"
    /\ ballot' = [ballot EXCEPT ![r].yes = ballot[r].quorum, ![r].result = "accepted"]
    /\ UNCHANGED <<node, term, leader, beats, claims>>

CmNext ==
    \/ \E m \in Member :
          \/ \E state \in {"leader", "follower"}, healthy \in BOOLEAN : RegisterNode(m, state, healthy)
          \/ RemoveNode(m) \/ Heartbeat(m)
    \/ CheckHealth
    \/ ElectLeader
    \/ \E r \in Round :
          \/ ProposeRound(r) \/ AutoApproveRound(r)
          \/ \E yes \in BOOLEAN : VoteRound(r, yes)

CmSpec == CmInit /\ [][CmNext]_cmVars

-----------------------------------------------------------------------------
(* Properties *)

Result(b) == CASE b.result = "pending" -> "open"
               [] b.result = "rejected" -> "refused"
               [] OTHER -> b.result

Rounds == INSTANCE Agreement WITH
    Question <- Round,
    outcome <- [r \in Round |-> Result(ballot[r])],
    need <- [r \in Round |-> ballot[r].quorum],
    support <- [r \in Round |-> ballot[r].yes]

\* The rounds implement Agreement, whatever members join, fail or leave meanwhile:
\* the quorum of a round is the one it was proposed with, and what it has decided
\* stays decided.
RoundsAgree == Rounds!AgSpec

\* The members in state leader that an election put there.
Elected == {m \in Registered \ claims : node[m].state = "leader"}

\* The leader's id names a member.  One member at most is in state leader beyond those
\* that brought that state along when they registered; it is the one the id names, or
\* there is no id: a leader that failed may keep the state when nobody could be elected.
OneMeshLeader ==
    /\ leader = NoMember \/ leader \in Registered
    /\ \A m, n \in Elected : m = n
    /\ \A m \in Elected : leader \in {m, NoMember}
=============================================================================
