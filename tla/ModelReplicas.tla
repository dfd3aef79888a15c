--------------------------- MODULE ModelReplicas ---------------------------
(***************************************************************************)
(* The table of model replicas (replication/model_replication.py) for one  *)
(* model.  Every statement runs under the lock, but a change of state and  *)
(* an access read the row in one section and write the whole payload back  *)
(* in the next: whoever writes last puts his copy of the row there.        *)
(***************************************************************************)
EXTENDS Integers, FiniteSets

CONSTANTS
    ReplicaRegion,  \* regions that may hold the model
    Writer,         \* threads that use the manager
    NoReplica,      \* no row, or no copy
    Given,          \* the records callers add: state and frequency
    Reached,        \* the states callers report
    MaxAccesses,    \* bound: accesses recorded
    MaxReplicaAdds  \* bound: replicas added

ReplicationState == {"pending", "in_progress", "completed", "failed"}
ReplicaRow == [state : ReplicationState, frequency : Nat]

ASSUME ModelReplicasAssumption ==
    /\ MaxAccesses \in Nat /\ MaxReplicaAdds \in Nat
    /\ Given \subseteq ReplicaRow /\ Reached \subseteq ReplicationState

VARIABLES
    replicas,  \* model_replicas: [state, frequency, copy], or NoReplica
    writing,   \* what each thread is going to write back: [region, row], or NoReplica
    added,     \* _replication_count
    accesses,  \* history: the accesses of each region so far
    brought    \* history: the largest frequency a record of the region was added with

mrVars == <<replicas, writing, added, accesses, brought>>

ModelReplicasTypeOK ==
    /\ \A r \in ReplicaRegion : replicas[r] = NoReplica \/ replicas[r] \in ReplicaRow
    /\ \A w \in Writer : \/ writing[w] = NoReplica
                         \/ writing[w] \in [region : ReplicaRegion, row : ReplicaRow]
    /\ added \in 0 .. MaxReplicaAdds
    /\ accesses \in [ReplicaRegion -> 0 .. MaxAccesses] /\ brought \in [ReplicaRegion -> Nat]

MrInit ==
    /\ replicas = [r \in ReplicaRegion |-> NoReplica]
    /\ writing = [w \in Writer |-> NoReplica]
    /\ added = 0 /\ accesses = [r \in ReplicaRegion |-> 0] /\ brought = [r \in ReplicaRegion |-> 0]

\* INSERT OR REPLACE of the record the caller passes, over whatever row is there.
AddReplica(r, row) ==
    /\ added < MaxReplicaAdds /\ added' = added + 1
    /\ replicas' = [replicas EXCEPT ![r] = row]
    /\ brought' = [brought EXCEPT ![r] = IF @ < row.frequency THEN row.frequency ELSE @]
    /\ UNCHANGED <<writing, accesses>>

RemoveReplica(r) ==
    /\ replicas' = [replicas EXCEPT ![r] = NoReplica]
    /\ UNCHANGED <<writing, added, accesses, brought>>

\* update_replica_state: get_replica, and the copy with the new state.
ReadForState(w, r, state) ==
    /\ writing[w] = NoReplica /\ replicas[r] # NoReplica
    /\ writing' = [writing EXCEPT ![w] =
                      [region |-> r, row |-> [replicas[r] EXCEPT !.state = state]]]
    /\ UNCHANGED <<replicas, added, accesses, brought>>

\* record_access: the same with the frequency.
ReadForAccess(w, r) ==
    /\ writing[w] = NoReplica /\ replicas[r] # NoReplica /\ accesses[r] < MaxAccesses
    /\ accesses' = [accesses EXCEPT ![r] = @ + 1]
    /\ writing' = [writing EXCEPT ![w] =
                      [region |-> r, row |-> [replicas[r] EXCEPT !.frequency = @ + 1]]]
    /\ UNCHANGED <<replicas, added, brought>>

\* Mutant of WriteReplica: INSERT OR REPLACE, as in add_replica.
WriteReplicaAnyhow(w) ==
    /\ writing[w] # NoReplica
    /\ replicas' = [replicas EXCEPT ![writing[w].region] = writing[w].row]
    /\ writing' = [writing EXCEPT ![w] = NoReplica]
    /\ UNCHANGED <<added, accesses, brought>>

\* UPDATE ... WHERE: writes the copy over whatever row is there, and nothing when none is.
WriteReplica(w) ==
    /\ writing[w] # NoReplica
    /\ replicas' = [replicas EXCEPT ![writing[w].region] =
                       IF @ = NoReplica THEN @ ELSE writing[w].row]
    /\ writing' = [writing EXCEPT ![w] = NoReplica]
    /\ UNCHANGED <<added, accesses, brought>>

MrNext ==
    \/ \E r \in ReplicaRegion : RemoveReplica(r) \/ \E row \in Given : AddReplica(r, row)
    \/ \E w \in Writer, r \in ReplicaRegion :
          ReadForAccess(w, r) \/ \E s \in Reached : ReadForState(w, r, s)
    \/ \E w \in Writer : WriteReplica(w)

MrSpec == MrInit /\ [][MrNext]_mrVars

-----------------------------------------------------------------------------
(* Properties *)

\* However late the copies are written back: only add_replica makes a row, so that a removed
\* replica stays removed until it is added again; and no copy, fresh or stale, brings a row
\* to count more accesses than there were, on top of what a record was added with.
ReplicasByAddOnly ==
    [][\A r \in ReplicaRegion : replicas'[r] # NoReplica =>
          /\ replicas[r] = NoReplica => added' = added + 1
          /\ replicas'[r].frequency <= brought'[r] + accesses'[r]]_mrVars
=============================================================================
