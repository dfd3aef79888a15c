----------------------------- MODULE Agreement ------------------------------
(***************************************************************************)
(* What a vote promises, whoever counts it: a question is opened with the  *)
(* support it needs, support only grows, the question is accepted at the   *)
(* moment it has enough and refused or closed only while it has not, and   *)
(* an outcome is never taken back.  DecisionEngine and ConsensusMesh are   *)
(* shown to implement it.                                                  *)
(***************************************************************************)
EXTENDS Naturals

CONSTANT Question

VARIABLES
    outcome,  \* new, open, accepted, refused, or closed without a result
    need,     \* the support a question needs, fixed when it is opened
    support   \* the support it has

agVars == <<outcome, need, support>>

AgInit ==
    /\ outcome = [q \in Question |-> "new"]
    /\ need \in [Question -> Nat \ {0}]
    /\ support = [q \in Question |-> 0]

Open(q) ==
    /\ outcome[q] = "new"
    /\ outcome' = [outcome EXCEPT ![q] = "open"]
    /\ need' = [need EXCEPT ![q] = need'[q]] /\ need'[q] \in Nat \ {0}
    /\ UNCHANGED support

\* More support, which decides a question that is open and changes no outcome.
Gain(q) ==
    /\ outcome[q] \in {"open", "accepted"}
    /\ support' = [support EXCEPT ![q] = support'[q]]
    /\ support'[q] \in Nat /\ support'[q] > support[q]
    /\ outcome' = [outcome EXCEPT ![q] = IF support'[q] >= need[q] THEN "accepted" ELSE "open"]
    /\ UNCHANGED need

Settle(q) ==
    /\ outcome[q] = "open" /\ support[q] < need[q]
    /\ \E o \in {"refused", "closed"} : outcome' = [outcome EXCEPT ![q] = o]
    /\ UNCHANGED <<need, support>>

AgNext == \E q \in Question : Open(q) \/ Gain(q) \/ Settle(q)

AgSpec == AgInit /\ [][AgNext]_agVars
=============================================================================
