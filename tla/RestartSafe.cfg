SPECIFICATION Spec
CONSTANTS
    Job = {j1}
    Node = {n1}
    Handler = {h1}
    Loop = loop
    Gang = noJob
    Need <- MCNeed
    Capable <- MCCapable
    MaxRetries = 3
    MaxGen = 1
    MaxRestarts = 1
    MaxDeaths = 0
    Faults = {}
    NoJob = noJob
    NoObject = noObject
INVARIANT RestartSafeQueue
CHECK_DEADLOCK FALSE
