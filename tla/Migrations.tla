------------------------------ MODULE Migrations ------------------------------
(***************************************************************************)
(* Migrations of workloads between regions (adaptation/dynamic_routing.py).*)
(* Callers of migrate plan migrations under the lock and execute them one  *)
(* by one; an execution holds the lock at its start and at its end, writes *)
(* the status without it in between, and is given up without a trace when  *)
(* the table of active migrations is full.  Others cancel planned ones.    *)
(*                                                                         *)
(* A migration's id is its workload and the second it was planned in: two  *)
(* callers that plan within one second create two migrations with one id,  *)
(* and the table holds one of them.  Which regions are slow, saturated or  *)
(* hot, and the target, are any; the cut at max_history is left out.       *)
(***************************************************************************)
EXTENDS Integers, FiniteSets, Sequences, FiniteSetsExt, SequencesExt

CONSTANTS
    Migrator,        \* callers of migrate
    MigrationId,
    MigrationLimit,  \* max_concurrent_migrations
    MaxMigrations    \* bound: migrations planned

ASSUME MigrationAssumption == /\ IsFiniteSet(Migrator) /\ IsFiniteSet(MigrationId)
                              /\ MigrationLimit \in Nat \ {0} /\ MaxMigrations \in Nat

VARIABLES
    migrations,  \* _migrations: [id, status]
    migrating,   \* _active: the migration of an id, 0 for none
    planned,     \* the migrations a caller still has to execute
    moving,      \* the migration a caller is executing, 0 for none
    migrated     \* _total_migrated

miVars == <<migrations, migrating, planned, moving, migrated>>

Migration == [id : MigrationId, status : {"planned", "draining", "completed", "cancelled"}]

MigrationsTypeOK ==
    /\ migrations \in Seq(Migration) /\ Len(migrations) <= MaxMigrations
    /\ migrating \in [MigrationId -> 0 .. MaxMigrations]
    /\ \A c \in Migrator : planned[c] \in Seq(1 .. MaxMigrations)
    /\ moving \in [Migrator -> 0 .. MaxMigrations] /\ migrated \in 0 .. MaxMigrations

MiInit ==
    /\ migrations = <<>> /\ migrating = [i \in MigrationId |-> 0]
    /\ planned = [c \in Migrator |-> <<>>] /\ moving = [c \in Migrator |-> 0] /\ migrated = 0

\* plan_migrations: the first workloads of the regions over a threshold.
PlanMigrations(c, ids) ==
    /\ planned[c] = <<>> /\ moving[c] = 0
    /\ ids # {} /\ Len(migrations) + Cardinality(ids) <= MaxMigrations
    /\ LET order == SetToSeq(ids) IN
       /\ migrations' = migrations \o [k \in DOMAIN order |-> [id |-> order[k], status |-> "planned"]]
       /\ planned' = [planned EXCEPT ![c] = [k \in DOMAIN order |-> Len(migrations) + k]]
    /\ UNCHANGED <<migrating, moving, migrated>>

Active == {i \in MigrationId : migrating[i] # 0}

\* Mutant of Drain: the table is not looked at.
DrainAlways(c) ==
    /\ moving[c] = 0 /\ planned[c] # <<>>
    /\ LET k == Head(planned[c]) IN
       /\ migrations' = [migrations EXCEPT ![k].status = "draining"]
       /\ migrating' = [migrating EXCEPT ![migrations[k].id] = k]
       /\ moving' = [moving EXCEPT ![c] = k]
    /\ planned' = [planned EXCEPT ![c] = Tail(@)]
    /\ UNCHANGED migrated

\* The start of execute_migration.  It does not look at the status, so that a cancelled
\* migration is carried out; when the table is full the migration stays as it is.
Drain(c) ==
    /\ moving[c] = 0 /\ planned[c] # <<>>
    /\ LET k == Head(planned[c]) IN
       IF Cardinality(Active) >= MigrationLimit THEN UNCHANGED <<migrations, migrating, moving>>
       ELSE /\ migrations' = [migrations EXCEPT ![k].status = "draining"]
            /\ migrating' = [migrating EXCEPT ![migrations[k].id] = k]
            /\ moving' = [moving EXCEPT ![c] = k]
    /\ planned' = [planned EXCEPT ![c] = Tail(@)]
    /\ UNCHANGED migrated

\* The status, written without the lock: metrics() may see it before the count.
WriteCompleted(c) ==
    /\ moving[c] # 0 /\ migrations[moving[c]].status = "draining"
    /\ migrations' = [migrations EXCEPT ![moving[c]].status = "completed"]
    /\ UNCHANGED <<migrating, planned, moving, migrated>>

\* Its end: the id leaves the table, whichever migration it stands for by now.
Migrated(c) ==
    /\ moving[c] # 0 /\ migrations[moving[c]].status = "completed"
    /\ migrating' = [migrating EXCEPT ![migrations[moving[c]].id] = 0]
    /\ moving' = [moving EXCEPT ![c] = 0] /\ migrated' = migrated + 1
    /\ UNCHANGED <<migrations, planned>>

\* cancel_migration: the first planned one with the id.
CancelMigration(i) ==
    LET open == {k \in DOMAIN migrations : migrations[k].id = i /\ migrations[k].status = "planned"} IN
    /\ open # {}
    /\ migrations' = [migrations EXCEPT ![Min(open)].status = "cancelled"]
    /\ UNCHANGED <<migrating, planned, moving, migrated>>

MiNext ==
    \/ \E c \in Migrator : \/ \E ids \in SUBSET MigrationId : PlanMigrations(c, ids)
                           \/ Drain(c) \/ WriteCompleted(c) \/ Migrated(c)
    \/ \E i \in MigrationId : CancelMigration(i)

MiSpec == MiInit /\ [][MiNext]_miVars

-----------------------------------------------------------------------------
(* Properties *)

Underway == {moving[c] : c \in Migrator} \ {0}
Shared(k) == \E l \in DOMAIN migrations : l # k /\ migrations[l].id = migrations[k].id

\* No more migrations run at a time than the limit allows, except ones that share an id
\* with another, which the table cannot tell apart; every one that completed is counted
\* once, or its caller still has to count it; and the table names no migration that nobody
\* is executing.
MigrationsAreLimited ==
    /\ Cardinality({k \in Underway : ~ Shared(k)}) <= MigrationLimit
    /\ LET completed == {k \in DOMAIN migrations : migrations[k].status = "completed"} IN
          migrated + Cardinality(completed \cap Underway) = Cardinality(completed)
    /\ \A i \in Active : migrating[i] \in Underway
    /\ \A k \in Underway : Shared(k) \/ migrating[migrations[k].id] = k
=============================================================================
