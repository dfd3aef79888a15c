SPECIFICATION Spec
CONSTANTS
    Job = {g1}
    Cluster = {c1, c2}
    MaxSweeps = 2
    MaxRestarts = 1
    NoCluster = noCluster
INVARIANTS TypeOK RoutedIsDelivered HoldersArePaidFor FailoverIsComplete
CHECK_DEADLOCK FALSE
SYMMETRY Symmetry
