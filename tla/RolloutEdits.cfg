\* Two jobs and one other request over a control-plane pool of one node and an empty
\* worker pool; the request may be to bind the second node to either.
SPECIFICATION Spec
CONSTANTS
    v1 = v1
    v2 = v2
    Versions = {v1, v2}
    NoVersion = NoVersion
    InitVersion = v1
    Nodes <- TwoNodes
    Pools <- TwoPools
    InitMembers <- SecondEmpty
    ControlPlane = {1}
    SnapshotPools = {1}
    MaxUnavailable = 0
    MaxJobs = 2
    MaxK8sJobs = 0
    MaxEdits = 1
    MaxCrashes = 1
    MaxFaults = 0
INVARIANTS DrainedBeforeUpgrade
PROPERTIES FinishedJobIsFinal
CHECK_DEADLOCK FALSE
