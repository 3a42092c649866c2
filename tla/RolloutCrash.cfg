\* One control-plane pool of two nodes with the snapshot strategy, one job and one of
\* the Kubernetes version, two crashes or SIGTERMs at any point, one node failure.  The
\* system stops when the jobs have ended and nothing is left to boot.
SPECIFICATION FairSpec
CONSTANTS
    v1 = v1
    v2 = v2
    Versions = {v1, v2}
    NoVersion = NoVersion
    InitVersion = v1
    Nodes <- TwoNodes
    Pools <- OnePool
    InitMembers <- AllInOne
    ControlPlane <- OnePool
    SnapshotPools <- OnePool
    MaxUnavailable = 0
    MaxJobs = 1
    MaxK8sJobs = 1
    MaxEdits = 0
    MaxCrashes = 2
    MaxFaults = 1
INVARIANTS NoDoubleUpgrade SnapshotHeld DoneAtTarget HaltOnFailure NoNodeAbandoned
    ConvergedUnlessDeferred
PROPERTIES ImplementsLifecycle JobsEnd
CHECK_DEADLOCK FALSE
