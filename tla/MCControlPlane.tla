--------------------------- MODULE MCControlPlane ---------------------------
(* Instances of ControlPlane for TLC.                                        *)
EXTENDS ControlPlane, TLC

CONSTANT Gang   \* the job that needs all nodes, if there is one

MCNeed == [j \in Job |-> IF j = Gang THEN Cardinality(Node) ELSE 1]
MCCapable == [j \in Job |-> Node]

\* The states of two instances, of which the first submission chooses one: Gang, on nodes
\* that live on, up to its last regular attempt; or another job, on one node that may die
\* and be registered afresh, or under a control plane that may be restarted.
GangOrSingle ==
    LET known == {j \in Job : status[j] # "none"} IN
    /\ Cardinality(known) <= 1
    /\ Gang \in known => /\ deaths = 0 /\ restarts = 0
                         /\ attempts[Gang] <= MaxRetries
                         /\ \A n \in Node : born[n] <= 1
    /\ known \ {Gang} # {} => /\ deaths + restarts <= 1
                              /\ Cardinality({n \in Node : born[n] > 0}) <= 1

Symmetry == Permutations(Handler) \cup Permutations(Node)
=============================================================================
