------------------------- MODULE ContinentFailover -------------------------
(***************************************************************************)
(* Failover of continents (planetary/continental_failover.py): telemetry   *)
(* of the regions is turned into events, and each event is carried out     *)
(* once.  The manager takes its lock to enter the events and to look one   *)
(* up, works on the event without it, and takes it again to drop the       *)
(* entry and to count; several callers run it at the same time.            *)
(*                                                                         *)
(* An event's id is its trigger, its continent and the second it was       *)
(* detected in, and the table of active events holds the newest of an id.  *)
(* The histories of events and of the log are for display and left out.    *)
(***************************************************************************)
EXTENDS Integers, FiniteSets, Sequences, SequencesExt

CONSTANTS
    Land,         \* the continents
    Province,  \* the regions
    LandOf,       \* the continent of a region
    Telemetry,    \* the reports that arrive: what is wrong with each region
    Rerouter,     \* callers of failover and execute_failover
    MaxEvents,    \* bound: events detected
    MaxSeconds    \* bound: seconds

ASSUME ContinentAssumption ==
    /\ IsFiniteSet(Land) /\ LandOf \in [Province -> Land]
    /\ \A t \in Telemetry : t \in [Province -> SUBSET {"offline", "slow", "hot"}]
    /\ MaxEvents \in Nat /\ MaxSeconds \in Nat

VARIABLES
    outages,   \* the events: [id, affected, targets, status, runs]
    listed,    \* _active: the event of an id, 0 for none
    rerouting, \* each caller: the report, the ids to carry out, the event at hand and
               \* whether it has been rerouted
    second,    \* int(now_ts())
    failovers  \* _total_failovers

cfVars == <<outages, listed, rerouting, second, failovers>>

Triggers_ == {"outage", "latency_spike", "thermal_critical"}
OutageId == Triggers_ \X Land \X (0 .. MaxSeconds)
Resting == [report |-> [p \in Province |-> {}], todo |-> <<>>, at |-> 0, sent |-> FALSE]

ContinentTypeOK ==
    /\ outages \in Seq([id : OutageId, affected : SUBSET Province, targets : SUBSET Province,
                        status : {"detected", "isolating", "recovered"}])
    /\ Len(outages) <= MaxEvents
    /\ listed \in [OutageId -> 0 .. MaxEvents]
    /\ \A c \in Rerouter : /\ rerouting[c].report \in Telemetry \cup {Resting.report}
                           /\ rerouting[c].todo \in Seq(OutageId)
                           /\ rerouting[c].at \in 0 .. Len(outages) /\ rerouting[c].sent \in BOOLEAN
    /\ second \in 0 .. MaxSeconds /\ failovers \in Nat

CfInit ==
    /\ outages = <<>> /\ listed = [i \in OutageId |-> 0]
    /\ rerouting = [c \in Rerouter |-> Resting]
    /\ second = 0 /\ failovers = 0

Having(report, l, what) == {p \in Province : LandOf[p] = l /\ what \in report[p]}

\* What detect_failures makes of a continent: the first of its three tests that holds.
Trigger(report, l) ==
    LET all  == Cardinality({p \in Province : LandOf[p] = l})
        n(w) == Cardinality(Having(report, l, w))
    IN IF 2 * n("offline") > all /\ n("offline") >= 2 THEN "outage"
       ELSE IF 10 * n("slow") > 6 * all /\ n("slow") >= 2 THEN "latency_spike"
       ELSE IF 2 * n("hot") > all THEN "thermal_critical"
       ELSE "none"

Sign(trigger) == CASE trigger = "outage" -> "offline" [] trigger = "latency_spike" -> "slow"
                   [] OTHER -> "hot"

Outage(report, l) ==
    LET t == Trigger(report, l) IN
    [id |-> <<t, l, second>>, affected |-> Having(report, l, Sign(t)), targets |-> {},
     status |-> "detected"]

\* failover, first half: the events of all continents are entered under the lock.
DetectFailures(c, report) ==
    /\ rerouting[c] = Resting
    /\ LET hit == SetToSeq({l \in Land : Trigger(report, l) # "none"})
           new == [k \in DOMAIN hit |-> Outage(report, hit[k])]
       IN /\ hit # <<>> /\ Len(outages) + Len(new) <= MaxEvents
          /\ outages' = outages \o new
          /\ listed' = [i \in OutageId |->
                IF \E k \in DOMAIN new : new[k].id = i
                THEN Len(outages) + CHOOSE k \in DOMAIN new : new[k].id = i
                ELSE listed[i]]
          /\ rerouting' = [rerouting EXCEPT ![c] =
                [report |-> report, todo |-> [k \in DOMAIN new |-> new[k].id], at |-> 0, sent |-> FALSE]]
    /\ UNCHANGED <<second, failovers>>

\* A caller of execute_failover names any id that is listed.
AskFailover(c, i, report) ==
    /\ rerouting[c] = Resting /\ listed[i] # 0
    /\ rerouting' = [rerouting EXCEPT ![c] = [report |-> report, todo |-> <<i>>, at |-> 0,
                                               sent |-> FALSE]]
    /\ UNCHANGED <<outages, listed, second, failovers>>

\* execute_failover looks the id up under the lock and sets the event to isolating
\* after it; an id that is gone is skipped.
Isolate(c) ==
    LET todo == rerouting[c].todo IN
    /\ rerouting[c].at = 0 /\ todo # <<>>
    /\ rerouting' = [rerouting EXCEPT ![c].at = listed[Head(todo)], ![c].todo = Tail(todo)]
    /\ outages' = [k \in DOMAIN outages |->
          IF k = listed[Head(todo)] THEN [outages[k] EXCEPT !.status = "isolating"]
                                    ELSE outages[k]]
    /\ UNCHANGED <<listed, second, failovers>>

\* Without the lock: the regions of other continents that are not offline are the
\* targets, and the event is recovered.
RerouteTo(c) ==
    LET k == rerouting[c].at IN
    /\ k # 0 /\ ~rerouting[c].sent
    /\ outages' = [outages EXCEPT ![k].status = "recovered",
                                  ![k].targets = {p \in Province :
                                      /\ LandOf[p] # outages[k].id[2]
                                      /\ "offline" \notin rerouting[c].report[p]}]
    /\ rerouting' = [rerouting EXCEPT ![c].sent = TRUE]
    /\ UNCHANGED <<listed, second, failovers>>

\* Under the lock again: the entry of the id goes, whichever event it holds by now.
\* (Another caller may have set the event back to isolating in between.)
Count(c) ==
    LET k == rerouting[c].at IN
    /\ k # 0 /\ rerouting[c].sent
    /\ listed' = [listed EXCEPT ![outages[k].id] = 0]
    /\ failovers' = failovers + 1
    /\ rerouting' = [rerouting EXCEPT ![c].at = 0, ![c].sent = FALSE]
    /\ UNCHANGED <<outages, second>>

CallerRests(c) ==
    /\ rerouting[c].at = 0 /\ rerouting[c].todo = <<>> /\ rerouting[c] # Resting
    /\ rerouting' = [rerouting EXCEPT ![c] = Resting]
    /\ UNCHANGED <<outages, listed, second, failovers>>

NextSecondOfEvents ==
    /\ second < MaxSeconds /\ second' = second + 1
    /\ UNCHANGED <<outages, listed, rerouting, failovers>>

CfNext ==
    \/ \E c \in Rerouter, t \in Telemetry :
          DetectFailures(c, t) \/ \E i \in OutageId : AskFailover(c, i, t)
    \/ \E c \in Rerouter : Isolate(c) \/ RerouteTo(c) \/ Count(c) \/ CallerRests(c)
    \/ NextSecondOfEvents

CfSpec == CfInit /\ [][CfNext]_cfVars

-----------------------------------------------------------------------------
(* Properties *)

\* However callers overlap on an event: one that is not recovered is listed, in some
\* caller's hands, or shares its id with another one, so that only events of one
\* trigger, continent and second can be forgotten; and the count of failovers is never
\* behind the events that were recovered and let go.
OutagesAreCarriedOut ==
    LET held == {rerouting[c].at : c \in Rerouter} IN
    /\ \A k \in DOMAIN outages :
          \/ outages[k].status = "recovered"
          \/ listed[outages[k].id] = k
          \/ k \in held
          \/ \E l \in DOMAIN outages : l # k /\ outages[l].id = outages[k].id
    /\ failovers >= Cardinality({k \in DOMAIN outages \ held : outages[k].status = "recovered"})
=============================================================================
