------------------------------- MODULE Leases -------------------------------
(***************************************************************************)
(* Leases with an expiry: the rows of DistributedLock and LeaderElection   *)
(* (consensus/), SQLite databases that several processes may open, and the *)
(* lock table of GlobalConsensus (global_control/consensus.py), which one  *)
(* process keeps in memory.                                                *)
(*                                                                         *)
(* A caller reads the clock, waits for the lock of its process's object,   *)
(* reads the row and writes it.  The statements of different processes     *)
(* interleave: no transaction is open before the write.  One row is        *)
(* modelled: one name or scope.  Clocks agree; time moves at any point.    *)
(***************************************************************************)
EXTENDS Naturals, FiniteSets

CONSTANTS
    Holder,    \* callers, each with a holder name of its own
    Process,   \* processes that open the database
    Home,      \* the process of each caller
    Nobody,    \* the holder of no row
    LeaseTTL,  \* ttl_sec
    MaxNow     \* bound: how long time runs

ASSUME HolderAssumption == IsFiniteSet(Holder) /\ Home \in [Holder -> Process]
ASSUME LeaseAssumption == Nobody \notin Holder /\ LeaseTTL \in Nat \ {0} /\ MaxNow \in Nat

VARIABLES
    now,      \* the time
    row,      \* the row's holder, Nobody if there is none, and its expiry
    at,       \* where each caller is
    clock,    \* the time it has read
    granted   \* until when it takes its lease to last; 0 when it was not granted

lsVars == <<now, row, at, clock, granted>>

LeaseTime == 0 .. MaxNow + LeaseTTL
LeaseRow == [holder : Holder \cup {Nobody}, until : LeaseTime]

LeasesTypeOK ==
    /\ now \in 0 .. MaxNow
    /\ row \in LeaseRow
    /\ at \in [Holder -> {"idle", "timed", "read", "releasing"}]
    /\ clock \in [Holder -> 0 .. MaxNow]
    /\ granted \in [Holder -> LeaseTime]

LsInit ==
    /\ now = 0
    /\ row = [holder |-> Nobody, until |-> 0]
    /\ at = [h \in Holder |-> "idle"]
    /\ clock = [h \in Holder |-> 0]
    /\ granted = [h \in Holder |-> 0]

\* The RLock of the object of h's process is free.
LockFree(h) ==
    \A g \in Holder : Home[g] = Home[h] => at[g] \notin {"read", "releasing"}

Live(r, t) == r.holder # Nobody /\ r.until > t

-----------------------------------------------------------------------------
(* acquire, try_acquire and acquire_lock; release and release_lock *)

\* The caller reads the clock, then waits for the RLock.
ReadClock(h) ==
    /\ at[h] = "idle"
    /\ clock' = [clock EXCEPT ![h] = now]
    /\ at' = [at EXCEPT ![h] = "timed"]
    /\ UNCHANGED <<now, row, granted>>

\* Mutant of SelectRow: the row is read outside the RLock.
SelectUnlocked(h) ==
    /\ at[h] = "timed"
    /\ IF Live(row, clock[h]) /\ row.holder # h
       THEN at' = [at EXCEPT ![h] = "idle"] /\ granted' = [granted EXCEPT ![h] = 0]
       ELSE at' = [at EXCEPT ![h] = "read"] /\ UNCHANGED granted
    /\ UNCHANGED <<now, row, clock>>

\* SELECT under the RLock, and the refusal.
SelectRow(h) ==
    /\ at[h] = "timed" /\ LockFree(h)
    /\ IF Live(row, clock[h]) /\ row.holder # h
       THEN at' = [at EXCEPT ![h] = "idle"] /\ granted' = [granted EXCEPT ![h] = 0]
       ELSE at' = [at EXCEPT ![h] = "read"] /\ UNCHANGED granted
    /\ UNCHANGED <<now, row, clock>>

\* INSERT ... ON CONFLICT DO UPDATE, the end of the critical section.
WriteRow(h) ==
    /\ at[h] = "read"
    /\ row' = [holder |-> h, until |-> clock[h] + LeaseTTL]
    /\ granted' = [granted EXCEPT ![h] = clock[h] + LeaseTTL]
    /\ at' = [at EXCEPT ![h] = "idle"]
    /\ UNCHANGED <<now, clock>>

\* release: SELECT, and DELETE when the row is the caller's.
ReleaseRead(h) ==
    /\ at[h] = "idle" /\ LockFree(h)
    /\ granted' = [granted EXCEPT ![h] = 0]
    /\ at' = [at EXCEPT ![h] = IF row.holder = h THEN "releasing" ELSE "idle"]
    /\ UNCHANGED <<now, row, clock>>

ReleaseDelete(h) ==
    /\ at[h] = "releasing"
    /\ row' = [holder |-> Nobody, until |-> 0]
    /\ at' = [at EXCEPT ![h] = "idle"]
    /\ UNCHANGED <<now, clock, granted>>

Tick ==
    /\ now < MaxNow
    /\ now' = now + 1
    /\ UNCHANGED <<row, at, clock, granted>>

LsNext ==
    \/ Tick
    \/ \E h \in Holder :
          ReadClock(h) \/ SelectRow(h) \/ WriteRow(h) \/ ReleaseRead(h) \/ ReleaseDelete(h)

LsSpec == LsInit /\ [][LsNext]_lsVars

-----------------------------------------------------------------------------
(* Properties *)

Owns(h) == granted[h] > now

\* When one process opens the database, at most one caller has a lease that has
\* not expired, however late a caller gets to the lock after it read the clock.
LeaseExclusive ==
    Cardinality({Home[h] : h \in Holder}) = 1 =>
        \A g, h \in Holder : Owns(g) /\ Owns(h) => g = h

\* A row that was written under the lock stays until its holder releases it or it
\* has expired: the owner of a live lease finds it under its name.
OwnerHasRow ==
    Cardinality({Home[h] : h \in Holder}) = 1 =>
        \A h \in Holder : Owns(h) => row = [holder |-> h, until |-> granted[h]]
=============================================================================
