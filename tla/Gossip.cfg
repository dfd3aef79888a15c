SPECIFICATION GossipSpec
CONSTANTS
    Cluster = {c1, c2, c3}
    Bootstrap = {c1, c2, c3}
    Seeds <- MCSeeds
    Fanout = 1
    TTL = 1
    Slack = 0
    Timeout = 0
    MaxStops = 1
    MaxSent = 1
    GossipFaults = {"partition"}
    NoPeer = noPeer
INVARIANTS GossipTypeOK HonestRecords
PROPERTY DeadIsSwept
SYMMETRY Symmetry
