------------------------------ MODULE Policies ------------------------------
(***************************************************************************)
(* The adaptive policies and the threads that evaluate them                *)
(* (coordination/adaptive_policies.py).                                    *)
(*                                                                         *)
(* evaluate_all copies the list of policies under the lock, judges them    *)
(* one after the other without it, counts each trigger under the lock and  *)
(* the evaluations at the end.  Several threads may be in it at once, and  *)
(* policies may be registered and removed meanwhile.  The telemetry of an  *)
(* evaluation may trigger a policy or not; a trigger may set its mode as   *)
(* its type allows.  A policy object is registered at most once; ids are   *)
(* not reused.                                                             *)
(***************************************************************************)
EXTENDS Naturals, FiniteSets, FiniteSetsExt

CONSTANTS
    Evaluator,    \* threads that evaluate
    Scaling,      \* policies of type scaling,
    FailoverP,    \* of type failover,
    OtherP,       \* and of the types whose mode never changes
    MaxTriggers   \* bound: triggers of each policy

Policy == Scaling \cup FailoverP \cup OtherP

Idle == "idle"

ASSUME PolicyAssumption ==
    /\ IsFiniteSet(Policy) /\ Policy \cap {Idle, "between"} = {}
    /\ IsFiniteSet(Evaluator) /\ MaxTriggers \in Nat

VARIABLES
    registered,   \* _policies, by object
    pmode,        \* mode of each policy object
    triggers,     \* triggers_count of each object
    todo,         \* policies an evaluation has still to judge
    judging,      \* the policy a thread has judged and not yet counted
    oldMode,      \* old_mode of that policy
    results,      \* length of the list of results of each thread
    evaluations,  \* _total_evaluations
    adaptations   \* _total_adaptations

poVars == <<registered, pmode, triggers, todo, judging, oldMode, results, evaluations, adaptations>>

PolicyMode == {"conservative", "balanced", "aggressive", "emergency"}

PoliciesTypeOK ==
    /\ registered \in SUBSET Policy
    /\ pmode \in [Policy -> PolicyMode]
    /\ triggers \in [Policy -> Nat]
    /\ todo \in [Evaluator -> SUBSET Policy]
    /\ judging \in [Evaluator -> Policy \cup {Idle, "between"}]
    /\ oldMode \in [Evaluator -> PolicyMode]
    /\ results \in [Evaluator -> Nat]
    /\ evaluations \in Nat /\ adaptations \in Nat

\* _init_default_policies: all are balanced.
PoInit ==
    /\ registered \in SUBSET Policy
    /\ pmode = [p \in Policy |-> "balanced"]
    /\ triggers = [p \in Policy |-> 0]
    /\ todo = [e \in Evaluator |-> {}]
    /\ judging = [e \in Evaluator |-> Idle]
    /\ oldMode = [e \in Evaluator |-> "balanced"]
    /\ results = [e \in Evaluator |-> 0]
    /\ evaluations = 0 /\ adaptations = 0

RegisterPolicy(p) ==
    /\ p \notin registered /\ triggers[p] = 0
    /\ registered' = registered \cup {p}
    /\ UNCHANGED <<pmode, triggers, todo, judging, oldMode, results, evaluations, adaptations>>

RemovePolicy(p) ==
    /\ p \in registered
    /\ registered' = registered \ {p}
    /\ UNCHANGED <<pmode, triggers, todo, judging, oldMode, results, evaluations, adaptations>>

\* evaluate_all copies the enabled policies.
BeginEvaluation(e) ==
    /\ judging[e] = Idle
    /\ \E enabled \in SUBSET registered : todo' = [todo EXCEPT ![e] = enabled]
    /\ judging' = [judging EXCEPT ![e] = "between"]
    /\ results' = [results EXCEPT ![e] = 0]
    /\ UNCHANGED <<registered, pmode, triggers, oldMode, evaluations, adaptations>>

\* The modes a trigger of p may leave: saturation drives scaling in both directions,
\* a failover stays an emergency for good.
TriggeredModes(p) ==
    IF p \in Scaling THEN {"emergency", "aggressive", "conservative"}
    ELSE IF p \in FailoverP THEN {"emergency"}
    ELSE {pmode[p]}

Untriggered(e) ==
    /\ judging[e] = "between"
    /\ \E p \in todo[e] : todo' = [todo EXCEPT ![e] = @ \ {p}]
    /\ UNCHANGED <<registered, pmode, triggers, judging, oldMode, results, evaluations, adaptations>>

\* _evaluate_policy up to the lock: old_mode is read and the mode is set.
Triggered(e) ==
    /\ judging[e] = "between"
    /\ \E p \in todo[e] :
          /\ triggers[p] + Cardinality({d \in Evaluator : judging[d] = p}) < MaxTriggers
          /\ todo' = [todo EXCEPT ![e] = @ \ {p}]
          /\ judging' = [judging EXCEPT ![e] = p]
          /\ oldMode' = [oldMode EXCEPT ![e] = pmode[p]]
          /\ \E m \in TriggeredModes(p) : pmode' = [pmode EXCEPT ![p] = m]
    /\ UNCHANGED <<registered, triggers, results, evaluations, adaptations>>

\* The counters under the lock; the mode may have been changed by another thread.
CountTrigger(e) ==
    /\ judging[e] \in Policy
    /\ LET p == judging[e] IN
       /\ triggers' = [triggers EXCEPT ![p] = @ + 1]
       /\ adaptations' = IF oldMode[e] # pmode[p] THEN adaptations + 1 ELSE adaptations
    /\ judging' = [judging EXCEPT ![e] = "between"]
    /\ results' = [results EXCEPT ![e] = @ + 1]
    /\ UNCHANGED <<registered, pmode, todo, oldMode, evaluations>>

\* The end of evaluate_all.
EndEvaluation(e) ==
    /\ judging[e] = "between" /\ todo[e] = {}
    /\ judging' = [judging EXCEPT ![e] = Idle]
    /\ evaluations' = evaluations + results[e]
    /\ results' = [results EXCEPT ![e] = 0]
    /\ UNCHANGED <<registered, pmode, triggers, todo, oldMode, adaptations>>

PoNext ==
    \/ \E p \in Policy : RegisterPolicy(p) \/ RemovePolicy(p)
    \/ \E e \in Evaluator :
          BeginEvaluation(e) \/ Untriggered(e) \/ Triggered(e) \/ CountTrigger(e) \/ EndEvaluation(e)

PoSpec == PoInit /\ [][PoNext]_poVars

-----------------------------------------------------------------------------
(* Properties *)

\* The evaluations that have been recorded, and those threads still carry, are the
\* triggers that have been counted, over all policies that ever were registered.
EvaluationsAddUp ==
    MapThenSumSet(LAMBDA p : triggers[p], Policy)
        = evaluations + MapThenSumSet(LAMBDA e : results[e], Evaluator)
=============================================================================
