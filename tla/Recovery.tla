------------------------------ MODULE Recovery ------------------------------
(***************************************************************************)
(* Failure recovery (repair/failure_recovery.py): failures are recorded,   *)
(* retried up to a limit and then escalated.  A recovery marks the record  *)
(* under the lock, works without it and takes the record off under it      *)
(* again; retries and escalations come from other callers meanwhile.       *)
(*                                                                         *)
(* A failure's id is its component and the second it was detected in, and  *)
(* the table of active failures holds the newest record of an id.          *)
(***************************************************************************)
EXTENDS Integers, FiniteSets, Sequences

CONSTANTS
    Failure,       \* failure ids
    Rescuer,       \* callers of recover and retry
    RetryLimit,    \* max_retries
    MaxFailures    \* bound: failures recorded

ASSUME RecoveryAssumption == IsFiniteSet(Rescuer) /\ RetryLimit \in Nat /\ MaxFailures \in Nat

VARIABLES
    records,  \* _failures: [id, status, retries]
    current,  \* _active: the record of an id, 0 for none
    rescue,   \* the record each caller is recovering, 0 for none
    retrying  \* what each caller of retry goes on to do: [id, act], or NoRetry

rcVars == <<records, current, rescue, retrying>>

NoRetry == <<>>

FailureRecord == [id : Failure, retries : 0 .. RetryLimit + Cardinality(Rescuer),
                  status : {"detected", "recovering", "recovered", "escalated"}]

RecoveryTypeOK ==
    /\ records \in Seq(FailureRecord)
    /\ current \in [Failure -> 0 .. MaxFailures] /\ rescue \in [Rescuer -> 0 .. MaxFailures]
    /\ retrying \in [Rescuer -> {NoRetry} \cup [id : Failure, act : {"recover", "escalate"}]]

RcInit ==
    /\ records = <<>> /\ current = [f \in Failure |-> 0] /\ rescue = [c \in Rescuer |-> 0]
    /\ retrying = [c \in Rescuer |-> NoRetry]

RecordFailure(f) ==
    /\ Len(records) < MaxFailures
    /\ records' = Append(records, [id |-> f, status |-> "detected", retries |-> 0])
    /\ current' = [current EXCEPT ![f] = Len(records')]
    /\ UNCHANGED <<rescue, retrying>>

\* recover, up to the release of the lock: it raises when the id is not active.
Recover(c, f) ==
    /\ rescue[c] = 0 /\ current[f] # 0
    /\ records' = [records EXCEPT ![current[f]].status = "recovering"]
    /\ rescue' = [rescue EXCEPT ![c] = current[f]]
    /\ UNCHANGED current

\* The rest of recover: the entry of the id goes, whichever record it holds by now.
Recovered(c) ==
    /\ rescue[c] # 0
    /\ records' = [records EXCEPT ![rescue[c]].status = "recovered"]
    /\ current' = [current EXCEPT ![records[rescue[c]].id] = 0]
    /\ rescue' = [rescue EXCEPT ![c] = 0]
    /\ UNCHANGED retrying

\* Mutant of Escalate: the record's status is not set.
EscalateEntry(f) ==
    /\ current[f] # 0
    /\ current' = [current EXCEPT ![f] = 0]
    /\ UNCHANGED <<records, rescue>>

Escalate(f) ==
    /\ current[f] # 0
    /\ records' = [records EXCEPT ![current[f]].status = "escalated"]
    /\ current' = [current EXCEPT ![f] = 0]
    /\ UNCHANGED rescue

\* retry counts and decides under the lock and releases it.
Retry(c, f) ==
    /\ retrying[c] = NoRetry /\ rescue[c] = 0 /\ current[f] # 0
    /\ LET n == records[current[f]].retries + 1 IN
       /\ records' = [records EXCEPT ![current[f]].retries = n]
       /\ retrying' = [retrying EXCEPT ![c] =
                          [id |-> f, act |-> IF n >= RetryLimit THEN "escalate" ELSE "recover"]]
    /\ UNCHANGED <<current, rescue>>

\* Then it escalates or recovers what the id stands for by now, or raises.
RetryGoesOn(c) ==
    /\ retrying[c] # NoRetry
    /\ LET f == retrying[c].id IN
       \/ (retrying[c].act = "escalate" /\ Escalate(f))
       \/ (retrying[c].act = "recover" /\ Recover(c, f))
       \/ (current[f] = 0 /\ UNCHANGED <<records, current, rescue>>)
    /\ retrying' = [retrying EXCEPT ![c] = NoRetry]

RcNext ==
    \/ \E f \in Failure : \/ RecordFailure(f)
                           \/ (Escalate(f) /\ UNCHANGED retrying)
    \/ \E c \in Rescuer, f \in Failure : \/ Retry(c, f)
                                          \/ (retrying[c] = NoRetry /\ Recover(c, f) /\ UNCHANGED retrying)
    \/ \E c \in Rescuer : Recovered(c) \/ RetryGoesOn(c)

RcSpec == RcInit /\ [][RcNext]_rcVars

-----------------------------------------------------------------------------
(* Properties *)

Settled(k) == records[k].status \in {"recovered", "escalated"}

\* Whoever retries, recovers and escalates at the same time: a failure that is not
\* settled is in the table, or being recovered, or shares its id with another failure,
\* so that only failures of one component within one second can be forgotten; and no
\* interleaving counts more retries than the limit and one for each other caller.  The
\* first retry counts even when the limit is 0.
NoFailureForgotten ==
    \A k \in DOMAIN records :
        /\ \/ Settled(k)
           \/ current[records[k].id] = k
           \/ \E c \in Rescuer : rescue[c] = k
           \/ \E l \in DOMAIN records : l # k /\ records[l].id = records[k].id
        /\ records[k].retries < (IF RetryLimit = 0 THEN 1 ELSE RetryLimit) + Cardinality(Rescuer)
=============================================================================
