--------------------------- MODULE ComputeFabric ---------------------------
(***************************************************************************)
(* The workloads of the compute fabric (fabric/compute_fabric.py): they    *)
(* are placed, moved, completed, and drained out of a region.  A drain     *)
(* lists the workloads of its region under the lock and then moves them    *)
(* one at a time, each move a critical section of its own, wherever the    *)
(* workload is by then; a submission chooses its region before it takes    *)
(* the lock.  The counters of completed work are read and written without  *)
(* the lock.                                                               *)
(***************************************************************************)
EXTENDS Integers, FiniteSets

CONSTANTS
    Unit,       \* workload ids
    Where,      \* the regions
    Nowhere,
    Client,     \* threads that submit, complete and drain
    MaxUnits    \* bound: submissions

ASSUME ComputeFabricAssumption == Nowhere \notin Where /\ MaxUnits \in Nat

VARIABLES
    placed,     \* _active_workloads: the region of a workload, or Nowhere
    doing,      \* what each client is in the middle of
    finished,   \* _completed_workloads; _failed_workloads is kept in the same way
    submitted,  \* the submissions so far
    arrivals    \* the workloads that came into a region since a client's drain listed it

cpVars == <<placed, doing, finished, submitted, arrivals>>

Free_ == [act |-> "none"]
Doing == {Free_} \cup [act : {"submit"}, unit : Unit, to : Where]
    \cup [act : {"drain"}, from : Where, to : Where, todo : SUBSET Unit]
    \cup [act : {"count"}, read : BOOLEAN, seen : 0 .. MaxUnits]

ComputeFabricTypeOK ==
    /\ placed \in [Unit -> Where \cup {Nowhere}]
    /\ doing \in [Client -> Doing]
    /\ finished \in 0 .. MaxUnits /\ submitted \in 0 .. MaxUnits
    /\ arrivals \in [Client -> SUBSET Unit]

CpInit ==
    /\ placed = [u \in Unit |-> Nowhere] /\ doing = [c \in Client |-> Free_]
    /\ finished = 0 /\ submitted = 0 /\ arrivals = [c \in Client |-> {}]

Go_(c, step) == doing' = [doing EXCEPT ![c] = step]

\* Workload u comes into region r.
Arrives(u, r) ==
    arrivals' = [c \in Client |-> IF doing[c].act = "drain" /\ doing[c].from = r
                                  THEN arrivals[c] \cup {u} ELSE arrivals[c]]

\* submit_workload: the placement engine chooses a region, without this lock ...
ChoosePlace(c, u, r) ==
    /\ doing[c] = Free_ /\ submitted < MaxUnits
    /\ submitted' = submitted + 1
    /\ Go_(c, [act |-> "submit", unit |-> u, to |-> r])
    /\ UNCHANGED <<placed, finished, arrivals>>

\* ... and the workload is entered, in place of one of the same id.
EnterUnit(c) ==
    /\ doing[c].act = "submit"
    /\ placed' = [placed EXCEPT ![doing[c].unit] = doing[c].to]
    /\ Arrives(doing[c].unit, doing[c].to)
    /\ Go_(c, Free_)
    /\ UNCHANGED <<finished, submitted>>

\* complete_workload takes the workload out under the lock; one that is gone is ignored.
CompleteUnit(c, u) ==
    /\ doing[c] = Free_ /\ placed[u] # Nowhere
    /\ placed' = [placed EXCEPT ![u] = Nowhere]
    /\ Go_(c, [act |-> "count", read |-> FALSE, seen |-> 0])
    /\ UNCHANGED <<finished, submitted, arrivals>>

\* The counter is read ...
ReadCount(c) ==
    /\ doing[c].act = "count" /\ ~doing[c].read
    /\ Go_(c, [act |-> "count", read |-> TRUE, seen |-> finished])
    /\ UNCHANGED <<placed, finished, submitted, arrivals>>

\* ... and written: another client's count may be lost.
WriteCount(c) ==
    /\ doing[c].act = "count" /\ doing[c].read
    /\ finished' = doing[c].seen + 1
    /\ Go_(c, Free_)
    /\ UNCHANGED <<placed, submitted, arrivals>>

\* migrate_workload moves a workload that is active, wherever it is.
MigrateUnit(c, u, r) ==
    /\ doing[c] = Free_ /\ placed[u] # Nowhere
    /\ placed' = [placed EXCEPT ![u] = r]
    /\ Arrives(u, r)
    /\ UNCHANGED <<doing, finished, submitted>>

\* drain_region lists the workloads of the region ...
ListUnits(c, from, to) ==
    /\ doing[c] = Free_ /\ from # to
    /\ Go_(c, [act |-> "drain", from |-> from, to |-> to,
               todo |-> {u \in Unit : placed[u] = from}])
    /\ arrivals' = [arrivals EXCEPT ![c] = {}]
    /\ UNCHANGED <<placed, finished, submitted>>

\* ... moves each one that is still active ...
MoveListed(c) ==
    /\ doing[c].act = "drain"
    /\ \E u \in doing[c].todo :
          /\ Go_(c, [doing[c] EXCEPT !.todo = @ \ {u}])
          /\ IF placed[u] = Nowhere THEN UNCHANGED <<placed, arrivals>>
             ELSE placed' = [placed EXCEPT ![u] = doing[c].to] /\ Arrives(u, doing[c].to)
    /\ UNCHANGED <<finished, submitted>>

\* ... and returns how many it moved.
DrainEnds(c) ==
    /\ doing[c].act = "drain" /\ doing[c].todo = {}
    /\ Go_(c, Free_)
    /\ UNCHANGED <<placed, finished, submitted, arrivals>>

CpNext ==
    \/ \E c \in Client, u \in Unit, r \in Where : ChoosePlace(c, u, r) \/ MigrateUnit(c, u, r)
    \/ \E c \in Client, u \in Unit : CompleteUnit(c, u)
    \/ \E c \in Client, from, to \in Where : ListUnits(c, from, to)
    \/ \E c \in Client : \/ EnterUnit(c) \/ ReadCount(c) \/ WriteCount(c)
                         \/ MoveListed(c) \/ DrainEnds(c)

CpSpec == CpInit /\ [][CpNext]_cpVars

-----------------------------------------------------------------------------
(* Properties *)

\* However submissions, moves, completions and drains overlap: when a drain has moved what
\* it listed, the workloads left in its region came there after the list was made; and no
\* workload is counted twice, or counted while it is still active.
DrainLeavesLatecomers ==
    /\ \A c \in Client : doing[c].act = "drain" =>
          {u \in Unit : placed[u] = doing[c].from} \subseteq doing[c].todo \cup arrivals[c]
    /\ finished + Cardinality({u \in Unit : placed[u] # Nowhere})
         + Cardinality({c \in Client : doing[c].act = "submit"}) <= submitted
=============================================================================
