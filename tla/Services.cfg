SPECIFICATION Spec
CONSTANTS
    Site = {p1, p2}
    MeshJob = {j1}
    NoRow = noRow
    MaxForwards = 2
    MaxMeshFaults = 1
    Holder = {h1, h2, h3}
    Process = {proc}
    Home <- MCHome
    Nobody = nobody
    LeaseTTL = 2
    MaxNow = 3
    Proposal = {o1, o2}
    Pid = {1}
    IdOf <- MCIdOf
    NoProposal = noProposal
    QuorumSize = 2
    KeptHistory = 1
    MaxVotes = 3
    Member = {"a", "b", "c"}
    Round = {1}
    NoMember = noMember
    MaxBeat = 3
    MaxTerm = 2
    Evaluator = {e1, e2}
    Scaling = {s1}
    FailoverP = {f1}
    OtherP = {}
    MaxTriggers = 2
    Peer = {r1, r2}
    BatchSize = 2
    MaxEntries = 3
    MaxPeerChanges = 3
    Fabric = {1, 2}
    EdgeBox = {3}
    Key = {k1, k2}
    KeyType <- MCKeyType
    MaxBytes = 2
    MaxCached = 1
    MaxPuts = 2
    EdgeNode = {1, 2}
    Workload = {1, 2}
    Priority <- MCPriority
    Capacities = {1, 2}
    NoEdgeNode = noEdgeNode
    MaxSubmits = 3
    RtJob = {1, 2, 3}
    Stream = {1, 2}
    Rank <- MCRank
    MaxConcurrent = 1
    MaxQueue = 2
    MaxSessions = 1
    MaxRtSubmits = 3
    Execution = {1}
    MaxShards = 3
    Crew = {1, 2}
    RepairId = {1, 2}
    Urgency <- MCUrgency
    AtOnce = 1
    MaxRequests = 2
    Failure = {1, 2}
    Rescuer = {1, 2}
    RetryLimit = 2
    MaxFailures = 2
    Migrator = {1, 2, 3}
    MigrationId = {1, 2, 3}
    MigrationLimit = 2
    MaxMigrations = 3
    Scaler = {1, 2}
    Resource = {1}
    Reading = {1, 2}
    KeyOf <- MCKeyOf
    MaxScalings = 4
    Land = {"E", "W"}
    Province = {"e1", "e2", "w1"}
    LandOf <- MCLandOf
    Telemetry <- MCTelemetry
    Rerouter = {1, 2}
    MaxEvents = 2
    MaxSeconds = 1
    ZoneId = {1, 2}
    ZoneRegion = {1, 2, 3}
    RegionsOf <- MCRegionsOf
    NoZone = noZone
    ReplicaRegion = {1}
    Writer = {1, 2}
    NoReplica = noReplica
    Given <- MCGiven
    Reached = {"completed", "failed"}
    MaxAccesses = 2
    MaxReplicaAdds = 2
    GraphNode = {1, 2, 3}
    Wire <- MCWire
    LinkKind <- MCLinkKind
    NoLink = noLink
    Depot = {1, 2, 3}
    Offer <- MCOffer
    Ask <- MCAsk
    Distance <- MCDistance
    Millis = {100, 600}
    Unmeasured = unmeasured
    Link = {1, 2, 3}
    Service = {s}
    NotPooled = notPooled
    MaxConnections = 2
    Silence = 1
    Unit = {1, 2}
    Where = {1, 2}
    Nowhere = nowhere
    Client = {1, 2}
    MaxUnits = 2
    Hub = {1, 2, 3, 4}
    Cable <- MCCable
    CableKind <- MCCableKind
    NoCable = noCable
INVARIANTS ServicesTypeOK MeshJobsAreKept LeaseExclusive DecisionsAreEarned CheckpointIsNewest CacheAccounts WorkIsAccountedFor FailuresAreHandled LimitsHold PathsAreShortest RoutersFindTheBest
PROPERTIES VotesAgree LateDataStaysInBounds
CHECK_DEADLOCK FALSE
