SPECIFICATION Spec
CONSTANTS
    Job = {j1}
    Node = {n1}
    Handler = {h1}
    Loop = loop
    Gang = noJob
    Need <- MCNeed
    Capable <- MCCapable
    MaxRetries = 2
    MaxGen = 1
    MaxRestarts = 0
    MaxDeaths = 2
    Faults = {"refuse", "timeout", "lostResult", "agentCrash"}
    NoJob = noJob
    NoObject = noObject
INVARIANTS TypeOK AttemptsBounded QueuedIsTracked FailedIsExhausted QueueIsBounded
CHECK_DEADLOCK FALSE
