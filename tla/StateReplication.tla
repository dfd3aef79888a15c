-------------------------- MODULE StateReplication --------------------------
(***************************************************************************)
(* One key of the global state in two regions, and the replicator that     *)
(* brings the changes of one to the other (global_control/global_state.py, *)
(* global_control/replication.py).                                         *)
(*                                                                         *)
(* The caller that writes the key puts it and then enqueues the change;    *)
(* the replicator's thread takes the pending changes under its lock and    *)
(* calls on_sync outside it.  on_sync is external: it has the other region *)
(* apply the changes, and may raise before or after that.  A replicator    *)
(* built without it, as GlobalControlPlane builds its own, drops what it   *)
(* has taken.  The other region reads and writes the key in separate calls *)
(* of its own.                                                             *)
(*                                                                         *)
(* Timestamps only decide conflicts; the clocks of two regions may differ, *)
(* so either side may win one.                                             *)
(***************************************************************************)
EXTENDS Naturals, Sequences

CONSTANTS
    MaxWrites,    \* bound: writes of the key in the first region
    MaxSrFaults   \* bound: failed calls, deletions, writes of the second region, restarts

ASSUME StateReplicationAssumption == MaxWrites \in Nat /\ MaxSrFaults \in Nat

VARIABLES
    onSync,     \* whether the replicator was built with an on_sync
    src, dst,   \* the key's row in each region: version, 0 if there is none, and value
    writer,     \* "idle", or "put" between put and enqueue_change
    pending,    \* _pending_changes
    batch,      \* the changes of the sync under way
    phase,      \* where _sync_tick and apply_remote_changes are
    next,       \* the change being applied
    read,       \* the version that get has returned for it
    writes,
    simple,     \* no deletion, no restart, and no writes in the second region yet
    srFaults

srVars == <<onSync, src, dst, writer, pending, batch, phase, next, read, writes, simple, srFaults>>

KeyRow == [ver : Nat, val : Nat]
Change == [ver : Nat, val : Nat]

StateReplicationTypeOK ==
    /\ onSync \in BOOLEAN
    /\ src \in KeyRow /\ dst \in KeyRow
    /\ writer \in {"idle", "put"}
    /\ pending \in Seq(Change) /\ batch \in Seq(Change)
    /\ phase \in {"idle", "sending", "get", "put", "raised"}
    /\ next \in Nat /\ read \in Nat /\ writes \in Nat
    /\ simple \in BOOLEAN /\ srFaults \in Nat

SrInit ==
    /\ onSync \in BOOLEAN
    /\ src = [ver |-> 0, val |-> 0] /\ dst = src
    /\ writer = "idle"
    /\ pending = <<>> /\ batch = <<>>
    /\ phase = "idle" /\ next = 1 /\ read = 0
    /\ writes = 0 /\ simple = TRUE /\ srFaults = 0

SrFault == srFaults < MaxSrFaults /\ srFaults' = srFaults + 1

\* GlobalState.put: the next version of the row, 1 if there is none.
Stored(row, v) == [ver |-> row.ver + 1, val |-> v]

-----------------------------------------------------------------------------
(* The first region *)

Put ==
    /\ writer = "idle" /\ writes < MaxWrites
    /\ writes' = writes + 1
    /\ src' = Stored(src, writes')
    /\ writer' = "put"
    /\ UNCHANGED <<onSync, dst, pending, batch, phase, next, read, simple, srFaults>>

EnqueueChange ==
    /\ writer = "put"
    /\ pending' = Append(pending, [ver |-> src.ver, val |-> src.val])
    /\ writer' = "idle"
    /\ UNCHANGED <<onSync, src, dst, batch, phase, next, read, writes, simple, srFaults>>

\* GlobalState.delete: the row is gone, its version starts again; nothing is enqueued.
Delete ==
    /\ src.ver > 0 /\ writer = "idle" /\ SrFault
    /\ src' = [ver |-> 0, val |-> 0]
    /\ simple' = FALSE
    /\ UNCHANGED <<onSync, dst, writer, pending, batch, phase, next, read, writes>>

\* The database survives a restart, the pending changes do not.
Restart ==
    /\ SrFault
    /\ writer' = "idle" /\ pending' = <<>> /\ batch' = <<>> /\ phase' = "idle"
    /\ simple' = FALSE
    /\ UNCHANGED <<onSync, src, dst, next, read, writes>>

\* _sync_tick takes what is pending; without an on_sync that is all it does.
SyncTake ==
    /\ phase = "idle" /\ pending # <<>>
    /\ pending' = <<>>
    /\ IF onSync THEN batch' = pending /\ phase' = "sending" /\ next' = 1
                 ELSE UNCHANGED <<batch, phase, next>>
    /\ UNCHANGED <<onSync, src, dst, writer, read, writes, simple, srFaults>>

\* on_sync raises before anything is applied.
SyncFails ==
    /\ phase = "sending" /\ SrFault
    /\ phase' = "raised"
    /\ UNCHANGED <<onSync, src, dst, writer, pending, batch, next, read, writes, simple>>

SyncArrives ==
    /\ phase = "sending"
    /\ phase' = "get"
    /\ UNCHANGED <<onSync, src, dst, writer, pending, batch, next, read, writes, simple, srFaults>>

\* on_sync returns, or raises after all.
SyncDone ==
    /\ phase = "get" /\ next > Len(batch)
    /\ \/ phase' = "idle" /\ batch' = <<>> /\ UNCHANGED srFaults
       \/ phase' = "raised" /\ SrFault /\ UNCHANGED batch
    /\ UNCHANGED <<onSync, src, dst, writer, pending, next, read, writes, simple>>

\* Mutant of Requeue: the changes of the failed sync go behind the newer ones.
RequeueBehind ==
    /\ phase = "raised"
    /\ pending' = pending \o batch
    /\ batch' = <<>> /\ phase' = "idle"
    /\ UNCHANGED <<onSync, src, dst, writer, next, read, writes, simple, srFaults>>

\* The failed changes are pending again, before those enqueued meanwhile.
Requeue ==
    /\ phase = "raised"
    /\ pending' = batch \o pending
    /\ batch' = <<>> /\ phase' = "idle"
    /\ UNCHANGED <<onSync, src, dst, writer, next, read, writes, simple, srFaults>>

-----------------------------------------------------------------------------
(* The second region: apply_remote_changes *)

\* get, and the changes that are not newer are skipped.
ApplyGet ==
    /\ phase = "get" /\ next <= Len(batch)
    /\ read' = dst.ver
    /\ IF batch[next].ver <= dst.ver
       THEN next' = next + 1 /\ UNCHANGED phase
       ELSE phase' = "put" /\ UNCHANGED next
    /\ UNCHANGED <<onSync, src, dst, writer, pending, batch, writes, simple, srFaults>>

\* put of the new value, or, when versions are missing in between, of the winner;
\* the row gets the region's own next version, not the change's.
ApplyPut ==
    /\ phase = "put"
    /\ LET new == batch[next].val IN
       \E v \in IF read > 0 /\ batch[next].ver # read + 1 THEN {new, dst.val} ELSE {new} :
          dst' = Stored(dst, v)
    /\ next' = next + 1 /\ phase' = "get"
    /\ UNCHANGED <<onSync, src, writer, pending, batch, read, writes, simple, srFaults>>

\* The second region's own callers write the key.
DstPut ==
    /\ SrFault
    /\ dst' = Stored(dst, 0)
    /\ simple' = FALSE
    /\ UNCHANGED <<onSync, src, writer, pending, batch, phase, next, read, writes>>

Replicator == SyncTake \/ SyncArrives \/ SyncDone \/ Requeue \/ ApplyGet \/ ApplyPut

SrNext == Put \/ EnqueueChange \/ Delete \/ Restart \/ SyncFails \/ DstPut \/ Replicator

\* The replicator's thread runs on and a caller finishes what it began.
SrFairness == WF_srVars(Replicator) /\ WF_srVars(EnqueueChange)

SrSpec == SrInit /\ [][SrNext]_srVars /\ SrFairness

-----------------------------------------------------------------------------
(* Properties *)

\* With an on_sync, and as long as only the first region writes and neither deletes
\* nor restarts, the changes that are on their way are, in order, those the second region lacks
\* (and, after a failed call, some it has): when none is, the rows are the same.
NoChangeIsLost ==
    LET unsent == batch \o pending IN
    onSync /\ simple =>
        /\ \A i \in 1 .. Len(unsent) - 1 : unsent[i + 1].ver = unsent[i].ver + 1
        /\ unsent # <<>> => unsent[1].ver <= dst.ver + 1
        /\ writer = "idle" => IF unsent = <<>> THEN dst = src ELSE unsent[Len(unsent)] = src

\* When the writes end and there is an on_sync, the second region has the row of the first in the end,
\* however calls of on_sync failed.
RegionsConverge == <>[](onSync /\ simple => dst = src)
=============================================================================
