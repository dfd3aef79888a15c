SPECIFICATION Spec
CONSTANTS
    Job = {j1}
    Node = {n1}
    Handler = {h1}
    Loop = loop
    Gang = noJob
    Need <- MCNeed
    Capable <- MCCapable
    MaxRetries = 3
    MaxGen = 1
    MaxRestarts = 0
    MaxDeaths = 0
    Faults = {"timeout"}
    NoJob = noJob
    NoObject = noObject
INVARIANT RetryLimit
CHECK_DEADLOCK FALSE
