SPECIFICATION GossipSpec
CONSTANTS
    Cluster = {c1, c2, c3}
    Bootstrap = {c1}
    Seeds <- MCSeeds
    Fanout = 2
    TTL = 1
    Slack = 0
    Timeout = 0
    MaxStops = 0
    MaxSent = 1
    GossipFaults = {"partition"}
    NoPeer = noPeer
INVARIANT PartsMeet
SYMMETRY Symmetry
