----------------------------- MODULE Leadership -----------------------------
(***************************************************************************)
(* Which of several control planes leads (control_plane/coordinator.py).   *)
(*                                                                         *)
(* Every plane keeps a flag that is_leader() returns to schedule_once and  *)
(* the scheduler loop.  With PostgreSQL a thread asks every two seconds    *)
(* for a session advisory lock and copies the answer to the flag; with     *)
(* Raft a thread copies what pysyncobj says every second; otherwise the    *)
(* flag stays TRUE.  The query, the copy and the release of a lost         *)
(* leadership are separate steps, between which sessions break, planes     *)
(* stop and other planes act.                                              *)
(*                                                                         *)
(* External, modelled from its use: the database server, which drops the   *)
(* lock when it notices that a session is gone, and the Raft library,      *)
(* which names at most one leader at a time.                               *)
(***************************************************************************)
EXTENDS Naturals, FiniteSets

CONSTANTS
    Plane,        \* control planes that share a database
    NoPlane,      \* nobody holds the lock, nobody leads
    MaxLdFaults   \* bound: crashes, broken sessions, failed queries, elections

ASSUME NoPlaneAssumption == NoPlane \notin Plane \cup (Plane \X {"cur", "old"})
ASSUME PlaneAssumption == IsFiniteSet(Plane) /\ Plane # {} /\ MaxLdFaults \in Nat

\* ARSONIST_COORDINATOR_MODE; "unconfigured" is raft without its address or library.
Mode == {"single", "postgres", "raft", "unconfigured"}

VARIABLES
    mode,        \* the mode of the deployment
    flag,        \* _is_leader of each plane
    wasLeader,   \* was_leader, the last answer the loop of a plane acted on
    pc,          \* where the leadership thread of a plane is
    answer,      \* the result of its last query
    conn,        \* its database session: none, open, or lost unnoticed
    holder,      \* the session with the lock: a plane's current or an old one
    raftLeader,  \* the leader the Raft library has elected
    ldFaults

ldVars == <<mode, flag, wasLeader, pc, answer, conn, holder, raftLeader, ldFaults>>
database == <<conn, holder>>

LeadershipTypeOK ==
    /\ mode \in Mode
    /\ flag \in [Plane -> BOOLEAN] /\ wasLeader \in [Plane -> BOOLEAN]
    /\ answer \in [Plane -> BOOLEAN]
    /\ pc \in [Plane -> {"down", "start", "started", "poll", "answered", "stepdown", "watch", "none"}]
    /\ conn \in [Plane -> {"none", "open", "lost"}]
    /\ holder \in {NoPlane} \cup Plane \X {"cur", "old"}
    /\ raftLeader \in {NoPlane} \cup Plane
    /\ ldFaults \in 0 .. MaxLdFaults

LdInit ==
    /\ mode \in Mode
    /\ flag = [p \in Plane |-> FALSE]
    /\ wasLeader = [p \in Plane |-> FALSE]
    /\ pc = [p \in Plane |-> "down"]
    /\ answer = [p \in Plane |-> FALSE]
    /\ conn = [p \in Plane |-> "none"]
    /\ holder = NoPlane
    /\ raftLeader = NoPlane
    /\ ldFaults = 0

Current(p) == <<p, "cur">>

LdFault == ldFaults < MaxLdFaults /\ ldFaults' = ldFaults + 1

\* The session of p ends: the server drops its lock at once or later.
SessionEnds(p) ==
    IF holder = Current(p) THEN holder' \in {NoPlane, <<p, "old">>} ELSE UNCHANGED holder

-----------------------------------------------------------------------------
(* PostgresLockCoordinator *)

\* build_coordinator and the constructor: only the PostgreSQL flag starts FALSE.
Build(p) ==
    /\ pc[p] = "down"
    /\ flag' = [flag EXCEPT ![p] = mode # "postgres"]
    /\ wasLeader' = [wasLeader EXCEPT ![p] = FALSE]
    /\ pc' = [pc EXCEPT ![p] = CASE mode = "postgres" -> "start"
                                 [] mode = "raft" -> "watch"
                                 [] OTHER -> "none"]
    /\ UNCHANGED <<mode, answer, database, raftLeader, ldFaults>>

Asks(p) == pc[p] \in {"start", "poll"}
Answered(p) == IF pc[p] = "start" THEN "started" ELSE "answered"

\* Mutant of Query: the session that has the lock is refused it.
QueryOnce(p) ==
    /\ Asks(p) /\ conn[p] # "lost"
    /\ answer' = [answer EXCEPT ![p] = holder = NoPlane]
    /\ holder' = IF holder = NoPlane THEN Current(p) ELSE holder
    /\ conn' = [conn EXCEPT ![p] = "open"]
    /\ pc' = [pc EXCEPT ![p] = Answered(p)]
    /\ UNCHANGED <<mode, flag, wasLeader, raftLeader, ldFaults>>

\* _try_acquire, with the connection _ensure_conn makes: the lock is granted to
\* the session that has it already, too.
Query(p) ==
    /\ Asks(p) /\ conn[p] # "lost"
    /\ answer' = [answer EXCEPT ![p] = holder \in {NoPlane, Current(p)}]
    /\ holder' = IF holder = NoPlane THEN Current(p) ELSE holder
    /\ conn' = [conn EXCEPT ![p] = "open"]
    /\ pc' = [pc EXCEPT ![p] = Answered(p)]
    /\ UNCHANGED <<mode, flag, wasLeader, raftLeader, ldFaults>>

\* _try_acquire raises: the connection was lost, cannot be made, breaks under
\* the query (which the server may have granted), or the statement fails.
QueryRaises(p) ==
    /\ Asks(p)
    /\ answer' = [answer EXCEPT ![p] = FALSE]
    /\ pc' = [pc EXCEPT ![p] = Answered(p)]
    /\ \/ /\ conn[p] = "lost" /\ conn' = [conn EXCEPT ![p] = "none"]
          /\ UNCHANGED <<holder, ldFaults>>
       \/ conn[p] = "none" /\ LdFault /\ UNCHANGED database
       \/ /\ conn[p] = "open" /\ LdFault /\ conn' = [conn EXCEPT ![p] = "none"]
          /\ SessionEnds(p)
       \/ /\ conn[p] # "lost" /\ holder = NoPlane /\ LdFault
          /\ conn' = [conn EXCEPT ![p] = "none"] /\ holder' = <<p, "old">>
       \/ conn[p] = "open" /\ LdFault /\ UNCHANGED database
    /\ UNCHANGED <<mode, flag, wasLeader, raftLeader>>

\* start: the first answer becomes the flag and the loop begins.
StartLoop(p) ==
    /\ pc[p] = "started"
    /\ flag' = [flag EXCEPT ![p] = answer[p]]
    /\ pc' = [pc EXCEPT ![p] = "poll"]
    /\ UNCHANGED <<mode, wasLeader, answer, database, raftLeader, ldFaults>>

\* Mutant of Publish: a query that raised leaves the flag as it was.
PublishKeeps(p) ==
    /\ pc[p] = "answered"
    /\ flag' = [flag EXCEPT ![p] = answer[p] \/ (flag[p] /\ conn[p] = "none")]
    /\ wasLeader' = [wasLeader EXCEPT ![p] = answer[p]]
    /\ pc' = [pc EXCEPT ![p] = IF wasLeader[p] /\ ~ answer[p] THEN "stepdown" ELSE "poll"]
    /\ UNCHANGED <<mode, answer, database, raftLeader, ldFaults>>

\* _loop copies the answer to the flag and acts on a lost leadership.
Publish(p) ==
    /\ pc[p] = "answered"
    /\ flag' = [flag EXCEPT ![p] = answer[p]]
    /\ wasLeader' = [wasLeader EXCEPT ![p] = answer[p]]
    /\ pc' = [pc EXCEPT ![p] = IF wasLeader[p] /\ ~ answer[p] THEN "stepdown" ELSE "poll"]
    /\ UNCHANGED <<mode, answer, database, raftLeader, ldFaults>>

\* _release: unlock and close; a session that is not usable is only dropped.
StepDown(p) ==
    /\ pc[p] = "stepdown"
    /\ conn' = [conn EXCEPT ![p] = "none"]
    /\ holder' = IF conn[p] = "open" /\ holder = Current(p) THEN NoPlane ELSE holder
    /\ pc' = [pc EXCEPT ![p] = "poll"]
    /\ UNCHANGED <<mode, flag, wasLeader, answer, raftLeader, ldFaults>>

-----------------------------------------------------------------------------
(* RaftCoordinator *)

\* _loop with _leader_from_sync, which says TRUE when the library raises.
Watch(p) ==
    /\ pc[p] = "watch"
    /\ \/ flag' = [flag EXCEPT ![p] = raftLeader = p] /\ UNCHANGED ldFaults
       \/ flag' = [flag EXCEPT ![p] = TRUE] /\ LdFault
    /\ UNCHANGED <<mode, wasLeader, pc, answer, database, raftLeader>>

\* The library elects a running plane; a later election is a fault.
RaftElects ==
    /\ mode = "raft"
    /\ \E p \in {q \in Plane : pc[q] = "watch"} \ {raftLeader} :
          /\ raftLeader' = p
          /\ IF raftLeader # NoPlane THEN LdFault ELSE UNCHANGED ldFaults
    /\ UNCHANGED <<mode, flag, wasLeader, pc, answer, database>>

-----------------------------------------------------------------------------
(* The environment *)

\* A session breaks and its plane does not notice before its next query.
SessionLost(p) ==
    /\ conn[p] = "open" /\ LdFault
    /\ conn' = [conn EXCEPT ![p] = "lost"]
    /\ SessionEnds(p)
    /\ UNCHANGED <<mode, flag, wasLeader, pc, answer, raftLeader>>

ServerNotices ==
    /\ \E p \in Plane : holder = <<p, "old">>
    /\ holder' = NoPlane
    /\ UNCHANGED <<mode, flag, wasLeader, pc, answer, conn, raftLeader, ldFaults>>

\* The process of a plane stops; the server may notice later.
PlaneStops(p) ==
    /\ pc[p] # "down" /\ LdFault
    /\ pc' = [pc EXCEPT ![p] = "down"]
    /\ flag' = [flag EXCEPT ![p] = FALSE]
    /\ conn' = [conn EXCEPT ![p] = "none"]
    /\ SessionEnds(p)
    /\ raftLeader' = IF raftLeader = p THEN NoPlane ELSE raftLeader
    /\ UNCHANGED <<mode, wasLeader, answer>>

LdThread(p) == Query(p) \/ QueryRaises(p) \/ StartLoop(p) \/ Publish(p) \/ StepDown(p) \/ Watch(p)

LdNext ==
    \/ \E p \in Plane : Build(p) \/ LdThread(p) \/ SessionLost(p) \/ PlaneStops(p)
    \/ ServerNotices
    \/ RaftElects

\* Planes are restarted, leadership threads run on, the server notices broken
\* sessions in the end and the Raft library elects.
LdFairness ==
    /\ \A p \in Plane : WF_ldVars(Build(p)) /\ WF_ldVars(LdThread(p))
    /\ WF_ldVars(ServerNotices) /\ WF_ldVars(RaftElects)

LdSpec == LdInit /\ [][LdNext]_ldVars /\ LdFairness

-----------------------------------------------------------------------------
(* Properties *)

\* A plane that says it leads and whose session has not broken holds the lock:
\* of several planes that say so at once, all but one have lost their session and
\* stop saying so at their next poll.
LeaderHoldsLock ==
    mode = "postgres" =>
        \A p \in Plane : flag[p] /\ conn[p] = "open" => holder = Current(p)

\* Once sessions, processes and elections are stable, exactly one plane leads and
\* keeps leading: a lock left behind by a broken session or a plane that stepped
\* down is taken over.
OneLeaderInTheEnd ==
    mode \in {"postgres", "raft"} => <>[](Cardinality({p \in Plane : flag[p]}) = 1)
=============================================================================
