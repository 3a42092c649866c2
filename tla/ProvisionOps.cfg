\* Every operation of the API between any two writes of a pass, a fault and a timeout.
SPECIFICATION FairSpec
CONSTANTS
    Hosts <- ThreeHosts
    Pools <- OnePool
    Matching <- AnyHost
    InitReplicas <- TwoReplicas
    InitHosts <- AllButOne
    Operations <- AllOperations
    MaxReplicas = 3
    MaxEdits = 2
    MaxTimeouts = 1
    MaxFaults = 1
INVARIANTS
    OneProvisioning
    AddrOnce
    MemberIsReady
    NeverRestaged
    BoundUntilGiven
PROPERTIES
    FailureHalts
    DrainedBeforeRelease
    Converges
CHECK_DEADLOCK FALSE
