\* A job fails half-way and the operator asks for the same target again.
SPECIFICATION Spec
CONSTANTS
    v1 = v1
    v2 = v2
    v3 = v3
    Nodes <- ThreeNodes
    ControlPlane = {1}
    Versions = {v1, v2}
    NoVersion = NoVersion
    InitVersion = v1
    MaxJobs = 2
    MaxEdits = 1
    MaxCrashes = 0
    MaxFaults = 1
PROPERTIES K8sDoneConverged
CHECK_DEADLOCK FALSE
