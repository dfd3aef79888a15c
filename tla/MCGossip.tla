------------------------------ MODULE MCGossip ------------------------------
(* Instances of Gossip for TLC.                                              *)
EXTENDS Gossip, TLC

CONSTANT Bootstrap   \* the clusters every cluster has as seeds

MCSeeds == [c \in Cluster |-> Bootstrap \ {c}]

Symmetry == Permutations(Bootstrap) \cup Permutations(Cluster \ Bootstrap)
=============================================================================
