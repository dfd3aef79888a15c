------------------------------ MODULE Regions ------------------------------
(***************************************************************************)
(* The registry of the regions (regions/region_registry.py) and those who  *)
(* write to it: heartbeats and capacity updates (regions/                  *)
(* regional_capacity.py), the health monitor (regions/region_health.py),   *)
(* the failover monitor (routing/smart_failover.py), operators, and the    *)
(* global control plane, which registers and removes regions.              *)
(*                                                                         *)
(* Only single statements hold the lock.  Every update reads a row, and    *)
(* later writes the whole row it has changed, over whatever was written    *)
(* meanwhile: a heartbeat can undo a drain.  The two monitors work through *)
(* a list they read before.  A row keeps the status, whether the last      *)
(* heartbeat is recent, and the load the thresholds tell apart.            *)
(***************************************************************************)
EXTENDS Integers, FiniteSets, Sequences, SequencesExt, Lists

CONSTANTS
    Region,
    NoRegionRow,
    RegionOrder,   \* the regions in the order of their ids
    FailoverTo,    \* failover_target of a region: [Region -> Region]
    Load,          \* what heartbeats report: some of ok, slow, spike and full
    MaxRegionOps   \* bound: registrations, removals, heartbeats, operator calls, failover sweeps

ASSUME RegionsAssumption == /\ IsFiniteSet(Region) /\ FailoverTo \in [Region -> Region]
                            /\ RegionOrder \in Seq(Region) /\ IsInjective(RegionOrder)
                            /\ Region = Range(RegionOrder)
                            /\ Load \subseteq {"ok", "slow", "spike", "full"}
                            /\ MaxRegionOps \in Nat

Status == {"active", "degraded", "draining", "offline"}
\* Loads: slow is a latency over 500 ms, spike over 1000 ms, full saturated or out of GPUs.
RegionRow == [status : Status, fresh : BOOLEAN, load : Load \cup {"ok"}]

Monitor == {"health", "failover"}
Writer == Monitor \cup {"beat", "operator"}
NoWrite == <<>>

VARIABLES
    regionRow,  \* the table regions
    copy,       \* the row a writer has read and changed: [region, row], or NoWrite
    listed,     \* the rows a monitor has listed and not yet gone through: [region, row]
    regionOps

rgVars == <<regionRow, copy, listed, regionOps>>

Copy == [region : Region, row : RegionRow]

RegionsTypeOK ==
    /\ regionRow \in [Region -> RegionRow \cup {NoRegionRow}]
    /\ copy \in [Writer -> Copy \cup {NoWrite}]
    /\ \A m \in Monitor : listed[m] \in Seq(Copy)
    /\ regionOps \in 0 .. MaxRegionOps

NewRow == [status |-> "active", fresh |-> TRUE, load |-> "ok"]

RgInit ==
    /\ regionRow = [r \in Region |-> NewRow]
    /\ copy = [w \in Writer |-> NoWrite] /\ listed = [m \in Monitor |-> <<>>]
    /\ regionOps = 0

RegionOp == regionOps < MaxRegionOps /\ regionOps' = regionOps + 1
Rows == {r \in Region : regionRow[r] # NoRegionRow}
Serving == {r \in Rows : regionRow[r].status \in {"active", "degraded"}}

\* register inserts or replaces; remove deletes.
RegisterRegion(r) ==
    /\ RegionOp /\ regionRow' = [regionRow EXCEPT ![r] = NewRow]
    /\ UNCHANGED <<copy, listed>>

RemoveRegion(r) ==
    /\ RegionOp /\ regionRow' = [regionRow EXCEPT ![r] = NoRegionRow]
    /\ UNCHANGED <<copy, listed>>

\* heartbeat and update_capacity: the row as read, with a new time and load.
BeatReads(r, load) ==
    /\ RegionOp /\ copy["beat"] = NoWrite /\ r \in Rows
    /\ copy' = [copy EXCEPT !["beat"] = [region |-> r,
                    row |-> [regionRow[r] EXCEPT !.fresh = TRUE, !.load = load]]]
    /\ UNCHANGED <<regionRow, listed>>

\* The read of update_status.
StatusCopy(w, r, status) ==
    copy' = [copy EXCEPT ![w] = IF r \in Rows
                                THEN [region |-> r, row |-> [regionRow[r] EXCEPT !.status = status]]
                                ELSE NoWrite]

\* trigger_manual_failover drains a region, recover_region makes it active.
OperatorReads(r, status) ==
    /\ RegionOp /\ copy["operator"] = NoWrite /\ r \in Rows
    /\ StatusCopy("operator", r, status)
    /\ UNCHANGED <<regionRow, listed>>

\* Mutant of WriteRow: the statement inserts the row when it is gone.
WriteOrInsert(w) ==
    /\ copy[w] # NoWrite
    /\ regionRow' = [regionRow EXCEPT ![copy[w].region] = copy[w].row]
    /\ copy' = [copy EXCEPT ![w] = NoWrite]
    /\ UNCHANGED <<listed, regionOps>>

\* The UPDATE of heartbeat and update_status: no row, no write.
WriteRow(w) ==
    /\ copy[w] # NoWrite
    /\ LET r == copy[w].region IN
       regionRow' = [regionRow EXCEPT ![r] = IF @ = NoRegionRow THEN @ ELSE copy[w].row]
    /\ copy' = [copy EXCEPT ![w] = NoWrite]
    /\ UNCHANGED <<listed, regionOps>>

\* check_all of a monitor, its first line.
ListRegions(m) ==
    /\ listed[m] = <<>> /\ copy[m] = NoWrite /\ Rows # {}
    /\ LET ids == Selection(RegionOrder, Rows) IN
       listed' = [listed EXCEPT ![m] = [i \in DOMAIN ids |->
                                           [region |-> ids[i], row |-> regionRow[ids[i]]]]]
    /\ IF m = "failover" THEN RegionOp ELSE UNCHANGED regionOps
    /\ UNCHANGED <<regionRow, copy>>

\* Mutant of Evaluated: the load is looked at before the last heartbeat.
EvaluatedByLoad(row) ==
    IF row.status = "draining" THEN "draining"
    ELSE IF row.load # "ok" THEN "degraded"
    ELSE IF row.fresh THEN "active" ELSE "offline"

\* _evaluate of the health monitor; what drains is left alone.
Evaluated(row) ==
    IF row.status = "draining" THEN "draining"
    ELSE IF ~ row.fresh THEN "offline"
    ELSE IF row.load = "ok" THEN "active" ELSE "degraded"

HealthChecks ==
    LET c == Head(listed["health"]) IN
    /\ listed["health"] # <<>> /\ copy["health"] = NoWrite
    /\ listed' = [listed EXCEPT !["health"] = Tail(@)]
    /\ IF Evaluated(c.row) = c.row.status THEN UNCHANGED copy
       ELSE StatusCopy("health", c.region, Evaluated(c.row))
    /\ UNCHANGED <<regionRow, regionOps>>

\* _evaluate_region of the failover monitor, on the listed row.
Triggers(row) == row.status = "offline" \/ row.load \in {"spike", "full"}

\* _select_failover_target, on the rows of this moment.
Targets(r) ==
    IF FailoverTo[r] \in Rows /\ regionRow[FailoverTo[r]].status = "active" THEN {FailoverTo[r]}
    ELSE {t \in Serving \ {r} : regionRow[t].load # "full"}

\* The source drains, again when it does already; the event list is left out.
FailoverChecks ==
    LET c == Head(listed["failover"]) IN
    /\ listed["failover"] # <<>> /\ copy["failover"] = NoWrite
    /\ listed' = [listed EXCEPT !["failover"] = Tail(@)]
    /\ IF Triggers(c.row) /\ Targets(c.region) # {} THEN StatusCopy("failover", c.region, "draining")
       ELSE UNCHANGED copy
    /\ UNCHANGED <<regionRow, regionOps>>

\* The last heartbeat becomes too old.
BeatAges(r) ==
    /\ r \in Rows /\ regionRow[r].fresh
    /\ regionRow' = [regionRow EXCEPT ![r].fresh = FALSE]
    /\ UNCHANGED <<copy, listed, regionOps>>

RgNext ==
    \/ \E r \in Region : \/ RegisterRegion(r) \/ RemoveRegion(r) \/ BeatAges(r)
                         \/ \E load \in Load : BeatReads(r, load)
                         \/ \E status \in {"active", "draining"} : OperatorReads(r, status)
    \/ \E w \in Writer : WriteRow(w)
    \/ \E m \in Monitor : ListRegions(m)
    \/ HealthChecks \/ FailoverChecks

\* Calls under way return, and the loop of the health monitor runs.
RgFairness ==
    /\ \A w \in Writer : WF_rgVars(WriteRow(w))
    /\ WF_rgVars(ListRegions("health")) /\ WF_rgVars(HealthChecks)

RgSpec == RgInit /\ [][RgNext]_rgVars /\ RgFairness

-----------------------------------------------------------------------------
(* Properties *)

\* A heartbeat or a status that was on its way when its region was removed does not
\* bring the row back: only a registration does.
RemovedStaysRemoved ==
    [][\A r \in Region : regionRow[r] = NoRegionRow /\ regionRow'[r] # NoRegionRow
                             => RegisterRegion(r)]_rgVars

\* A region that falls silent for good stops serving for good, whatever the monitors,
\* the operators and late writes do to its row.
SilentIsLeft ==
    \A r \in Region :
        <>[](r \in Rows => ~ regionRow[r].fresh) => <>[](r \notin Serving)
=============================================================================
