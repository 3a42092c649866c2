\* Two jobs with different targets, crashes, faults; the system stops when there is no job.
SPECIFICATION FairSpec
CONSTANTS
    v1 = v1
    v2 = v2
    v3 = v3
    Nodes <- ThreeNodes
    ControlPlane = {1, 2}
    Versions = {v1, v2, v3}
    NoVersion = NoVersion
    InitVersion = v1
    MaxJobs = 2
    MaxEdits = 2
    MaxCrashes = 1
    MaxFaults = 1
PROPERTIES K8sSnapshotFirst K8sDoneVerified K8sJobsEnd
CHECK_DEADLOCK FALSE
