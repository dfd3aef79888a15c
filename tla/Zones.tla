------------------------------- MODULE Zones -------------------------------
(***************************************************************************)
(* Infrastructure zones (planetary/infrastructure_zones.py): operators     *)
(* register, remove, drain and isolate zones, telemetry of the regions     *)
(* marks a zone offline or degraded, and failover_targets names the zones  *)
(* that take over.  Every operation is one critical section.               *)
(***************************************************************************)
EXTENDS Integers, FiniteSets

CONSTANTS
    ZoneId,       \* the zones
    ZoneRegion,   \* the regions
    RegionsOf,    \* the regions of a zone
    NoZone        \* no zone: not registered, or no failover target

ASSUME ZonesAssumption == RegionsOf \in [ZoneId -> SUBSET ZoneRegion] /\ NoZone \notin ZoneId

VARIABLES
    zones,   \* _zones: [status, target], or NoZone
    told     \* history: the report the last change came from, NoReport for an operator's

znVars == <<zones, told>>

ZoneStatus == {"active", "degraded", "draining", "isolated", "offline"}
ZoneRecord == [status : ZoneStatus, target : ZoneId \cup {NoZone}]
\* Telemetry names some of the regions and says which of them are offline.
Reported == UNION {[rs -> BOOLEAN] : rs \in SUBSET ZoneRegion}
NoReport == [r \in {} |-> FALSE]

ZonesTypeOK ==
    /\ \A z \in ZoneId : zones[z] = NoZone \/ zones[z] \in ZoneRecord
    /\ told \in Reported

ZnInit == zones = [z \in ZoneId |-> NoZone] /\ told = NoReport

\* A zone is registered again with whatever its new record says.
RegisterZone(z, record) ==
    /\ zones' = [zones EXCEPT ![z] = record]
    /\ told' = NoReport

RemoveZone(z) ==
    /\ zones[z] # NoZone
    /\ zones' = [zones EXCEPT ![z] = NoZone]
    /\ told' = NoReport

UpdateZoneStatus(z, status) ==
    /\ zones[z] # NoZone
    /\ zones' = [zones EXCEPT ![z].status = status]
    /\ told' = NoReport

\* What a report makes of a zone: regions it does not name are not counted, and a zone
\* with no offline majority keeps its status.
Judged(z, report) ==
    LET named   == RegionsOf[z] \cap DOMAIN report
        offline == {r \in named : report[r]}
    IN IF offline # {} /\ offline = named THEN "offline"
       ELSE IF Cardinality(offline) > Cardinality(named \ offline) THEN "degraded"
       ELSE zones[z].status

UpdateFromTelemetry(report) ==
    /\ told' = report
    /\ zones' = [z \in ZoneId |-> IF zones[z] = NoZone THEN NoZone
                                  ELSE [zones[z] EXCEPT !.status = Judged(z, report)]]

\* failover_targets of a registered zone; all zones here are of one continent.
FailoverTargets(z) ==
    LET t == zones[z].target IN
    IF t # NoZone /\ zones[t] # NoZone /\ zones[t].status \in {"active", "degraded"}
    THEN {t}
    ELSE {o \in ZoneId \ {z} : zones[o] # NoZone /\ zones[o].status = "active"}

ZnNext ==
    \/ \E z \in ZoneId, record \in ZoneRecord : RegisterZone(z, record)
    \/ \E z \in ZoneId : RemoveZone(z) \/ \E s \in ZoneStatus : UpdateZoneStatus(z, s)
    \/ \E report \in Reported : UpdateFromTelemetry(report)

ZnSpec == ZnInit /\ [][ZnNext]_znVars

-----------------------------------------------------------------------------
(* Properties *)

Takes(z) == \E o \in ZoneId \ {z} : zones[o] # NoZone /\ z \in FailoverTargets(o)

\* The regions of the zone that the last report calls offline, and those it calls up.
Down(z) == {r \in RegionsOf[z] \cap DOMAIN told : told[r]}
Up(z)   == (RegionsOf[z] \cap DOMAIN told) \ Down(z)

\* A report of telemetry makes a zone a failover target only when the zone was active
\* all along, and another target fell out - or when the zone is one that an operator
\* drains or isolated, or that went offline, and the report calls more of its regions
\* offline than up, but not all: it is then degraded, and named as a failover target it
\* takes work again.  That is the one way past an operator's word.
TargetsByOperatorsWord ==
    [][told' # NoReport => \A z \in ZoneId :
          ~Takes(z) /\ Takes(z)' =>
             \/ zones[z].status = "active"
             \/ /\ zones[z].status \in {"draining", "isolated", "offline"}
                /\ zones'[z].status = "degraded"
                /\ Cardinality(Down(z)') > Cardinality(Up(z)') /\ Up(z)' # {}]_znVars
=============================================================================
