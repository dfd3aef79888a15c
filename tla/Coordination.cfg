SPECIFICATION Spec
CONSTANTS
    Plane = {p1, p2}
    NoPlane = noPlane
    MaxLdFaults = 2
    GNode = {a, b}
    NoNode = noNode
    NodeTTL = 2
    MaxOnWay = 2
    MaxNodeStops = 2
    MaxWrites = 3
    MaxSrFaults = 2
    EdgeKey = {1, 2}
    MaxResults = 3
    KeyOf <- MCKeyOf
    CacheMax = 1
    OutboxLimit = 1
    MaxEdgeFaults = 2
    Region = {1, 2}
    NoRegionRow = noRegionRow
    RegionOrder <- MCRegionOrder
    FailoverTo <- MCFailoverTo
    Load = {"spike"}
    MaxRegionOps = 2
    Caller = {1, 2}
    ApiToken = {t}
    RpsLimit = 1
    FlightLimit = 1
    TokenQuota = 1
    MaxGwFaults = 1
    Member_ = {1, 2}
    MaxOutages = 2
INVARIANTS CoordinationTypeOK LeadersAreBacked NoChangeIsLost SyncedWasHanded InflightIsExact
PROPERTIES OneLeaderInTheEnd LeaderAndClustersReturn EverythingArrives RemovedStaysRemoved SilentIsLeft LimitClears
CHECK_DEADLOCK FALSE
