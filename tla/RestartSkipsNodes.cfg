\* Two workers, one job, one restart.
SPECIFICATION Spec
CONSTANTS
    v1 = v1
    v2 = v2
    Versions = {v1, v2}
    NoVersion = NoVersion
    InitVersion = v1
    Nodes <- TwoNodes
    Pools <- OnePool
    InitMembers <- AllInOne
    ControlPlane = {}
    SnapshotPools = {}
    MaxUnavailable = 0
    MaxJobs = 1
    MaxK8sJobs = 0
    MaxEdits = 0
    MaxCrashes = 1
    MaxFaults = 0
INVARIANTS DoneJobConverged
CHECK_DEADLOCK FALSE
