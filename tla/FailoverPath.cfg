SPECIFICATION Spec
CONSTANTS
    Job = {g1}
    Cluster = {c1, c2}
    MaxSweeps = 1
    MaxRestarts = 0
    NoCluster = noCluster
INVARIANT MigratedIsDelivered
CHECK_DEADLOCK FALSE
SYMMETRY Symmetry
