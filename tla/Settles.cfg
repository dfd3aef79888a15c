SPECIFICATION FairSpec
CONSTANTS
    Job = {j1}
    Node = {n1}
    Handler = {h1}
    Loop = loop
    Gang = noJob
    Need <- MCNeed
    Capable <- MCCapable
    MaxRetries = 2
    MaxGen = 1
    MaxRestarts = 0
    MaxDeaths = 1
    Faults = {"timeout"}
    NoJob = noJob
    NoObject = noObject
PROPERTY EventuallySettled
CHECK_DEADLOCK FALSE
