SPECIFICATION Spec
CONSTANTS
    Job = {j1, j2}
    Node = {n1, n2}
    Handler = {h1}
    Loop = loop
    Gang = j1
    Need <- MCNeed
    Capable <- MCCapable
    MaxRetries = 2
    MaxGen = 2
    MaxRestarts = 1
    MaxDeaths = 1
    Faults = {"timeout", "refuse"}
    NoJob = noJob
    NoObject = noObject
INVARIANTS RunningIsAssigned RunningIsMoving ExecutionsArePaidFor
CONSTRAINT GangOrSingle
SYMMETRY Symmetry
CHECK_DEADLOCK FALSE
