\* A node released by scale-in is taken for the next host's.
SPECIFICATION Spec
CONSTANTS
    Hosts <- ThreeHosts
    Pools <- OnePool
    Matching <- AnyHost
    InitReplicas <- TwoReplicas
    InitHosts <- AllButFirst
    Operations <- Scaling
    MaxReplicas = 2
    MaxEdits = 3
    MaxTimeouts = 0
    MaxFaults = 0
INVARIANTS
    BoundToOwn
CHECK_DEADLOCK FALSE
