\* Creating, deleting and creating a cluster again.
SPECIFICATION FairSpec
CONSTANTS
    Executors <- TwoExecutors
    Macs <- TwoMacs
    HostsOf <- OneEach
    Configs <- AnyConfig
    NoConfig = NoConfig
    NoSpec = NoSpec
    NAssets = 1
    NBlocks = 2
    CpMac = "cp"
    SpecsOf <- FirstThenOther
    FactoryHost <- Factory
    WorkerConfig <- AWorker
    Starts <- SomeStarts
INVARIANTS
    OneBundle
    CreatedComplete
    DeletedStaysGone
    MatchedIsStaged
    ServedComplete
PROPERTY BootstrapEnds
CHECK_DEADLOCK FALSE
