--------------------------- MODULE AdaptiveScaling ---------------------------
(***************************************************************************)
(* The adaptive scaler (adaptation/adaptive_scaling.py).  A call of scale  *)
(* evaluates the telemetry of all regions and then executes the actions    *)
(* one by one.  The cooldown of a resource of a region is looked at in the *)
(* evaluation, without the lock, and begins with an execution: callers     *)
(* that evaluate at the same time all find it over.                        *)
(*                                                                         *)
(* Usage is any; an action is the entry of the telemetry it comes from and *)
(* its direction.  The cooldown goes by the region the entry names, and    *)
(* all entries that name none share one: an evaluation may put several     *)
(* actions on one resource.                                                *)
(***************************************************************************)
EXTENDS Integers, FiniteSets

CONSTANTS
    Scaler,      \* callers of scale
    Resource,    \* a kind of resource in a region, the key of a cooldown
    Reading,     \* a kind of resource in an entry of the telemetry
    KeyOf,       \* the resource an entry names: [Reading -> Resource]
    MaxScalings  \* bound: executed actions

ASSUME ScalingAssumption ==
    IsFiniteSet(Scaler) /\ IsFiniteSet(Reading) /\ KeyOf \in [Reading -> Resource] /\ MaxScalings \in Nat

VARIABLES
    cooling,   \* the resources whose cooldown runs, by _last_scale
    toScale,   \* the actions each caller still has to execute: [reading, up]
    looking,   \* the entries a caller has not looked at yet
    scaled,    \* how often a resource was scaled since its cooldown was last over
    scaleUps, scaleDowns \* _total_scale_ups and _total_scale_downs

asVars == <<cooling, toScale, looking, scaled, scaleUps, scaleDowns>>

ScaleAction == [reading : Reading, up : BOOLEAN]

AdaptiveScalingTypeOK ==
    /\ cooling \subseteq Resource /\ toScale \in [Scaler -> SUBSET ScaleAction]
    /\ looking \in [Scaler -> SUBSET Reading] /\ scaled \in [Resource -> 0 .. MaxScalings]
    /\ scaleUps \in 0 .. MaxScalings /\ scaleDowns \in 0 .. MaxScalings

AsInit ==
    /\ cooling = {} /\ toScale = [c \in Scaler |-> {}] /\ looking = [c \in Scaler |-> {}]
    /\ scaled = [r \in Resource |-> 0] /\ scaleUps = 0 /\ scaleDowns = 0

\* A caller without actions begins to evaluate.
Evaluate(c) ==
    /\ toScale[c] = {} /\ looking[c] = {}
    /\ looking' = [looking EXCEPT ![c] = Reading]
    /\ UNCHANGED <<cooling, toScale, scaled, scaleUps, scaleDowns>>

\* One turn of evaluate: nothing during a cooldown, otherwise an action when the usage
\* is over or under a threshold.
Look(c, e) ==
    /\ e \in looking[c]
    /\ looking' = [looking EXCEPT ![c] = @ \ {e}]
    /\ \/ UNCHANGED toScale
       \/ /\ KeyOf[e] \notin cooling
          /\ \E up \in BOOLEAN :
                toScale' = [toScale EXCEPT ![c] = @ \cup {[reading |-> e, up |-> up]}]
    /\ UNCHANGED <<cooling, scaled, scaleUps, scaleDowns>>

\* execute: the cooldown is not looked at again.
ExecuteScaling(c, a) ==
    /\ looking[c] = {} /\ a \in toScale[c] /\ scaleUps + scaleDowns < MaxScalings
    /\ toScale' = [toScale EXCEPT ![c] = @ \ {a}]
    /\ cooling' = cooling \cup {KeyOf[a.reading]}
    /\ scaled' = [scaled EXCEPT ![KeyOf[a.reading]] = @ + 1]
    /\ scaleUps' = scaleUps + (IF a.up THEN 1 ELSE 0)
    /\ scaleDowns' = scaleDowns + (IF a.up THEN 0 ELSE 1)
    /\ UNCHANGED looking

CooldownEnds(r) ==
    /\ r \in cooling
    /\ cooling' = cooling \ {r} /\ scaled' = [scaled EXCEPT ![r] = 0]
    /\ UNCHANGED <<toScale, looking, scaleUps, scaleDowns>>

AsNext ==
    \/ \E c \in Scaler : \/ Evaluate(c)
                         \/ \E e \in Reading : Look(c, e)
                         \/ \E a \in ScaleAction : ExecuteScaling(c, a)
    \/ \E r \in Resource : CooldownEnds(r)

AsSpec == AsInit /\ [][AsNext]_asVars

-----------------------------------------------------------------------------
(* Properties *)

\* The cooldown prevents flapping up to the callers that evaluated before it began: from
\* the end of one cooldown to the end of the next a resource is scaled at most once by
\* each caller for each entry that names it, so only once by a single caller when the
\* regions have ids of their own.
FlappingIsBounded ==
    \A r \in Resource :
        scaled[r] <= Cardinality(Scaler \X {e \in Reading : KeyOf[e] = r})
=============================================================================
