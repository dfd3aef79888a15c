SPECIFICATION Spec
CONSTANTS
    Job = {j1}
    Node = {n1}
    Handler = {h1}
    Loop = loop
    Gang = noJob
    Need <- MCNeed
    Capable <- MCCapable
    MaxRetries = 3
    MaxGen = 1
    MaxRestarts = 0
    MaxDeaths = 1
    Faults = {"agentCrash"}
    NoJob = noJob
    NoObject = noObject
INVARIANT RecoverableOrMoving
CHECK_DEADLOCK FALSE
