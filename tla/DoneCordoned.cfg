\* Two workers, two jobs, no restart and no fault of a node: a call may fail after the
\* drain, as the wait for a node that is slow to come back does.
SPECIFICATION Spec
CONSTANTS
    v1 = v1
    v2 = v2
    Versions = {v1, v2}
    NoVersion = NoVersion
    InitVersion = v1
    Nodes <- TwoNodes
    Pools <- OnePool
    InitMembers <- AllInOne
    ControlPlane = {}
    SnapshotPools = {}
    MaxUnavailable = 0
    MaxJobs = 2
    MaxK8sJobs = 0
    MaxEdits = 0
    MaxCrashes = 0
    MaxFaults = 0
INVARIANTS DoneUncordoned
CHECK_DEADLOCK FALSE
