\* Two concurrent requests, deletions and crashes, and one subscriber from any cursor
\* with a buffer of two events, over the records of every kind.
SPECIFICATION WatchSpec
CONSTANTS
    c1 = c1
    c2 = c2
    w1 = w1
    DesiredKeys = {"cluster", "host"}
    RolloutKeys = {"job", "bootstrap"}
    BootstrapKeys = {"bootstrap"}
    ClusterKey = "cluster"
    DeletableKeys = {"host"}
    Clients = {c1, c2}
    Watchers = {w1}
    MaxWrites = 4
    SubBuffer = 2
SYMMETRY ClientSymmetry
INVARIANTS NoLostUpdate RevisionsUnique StreamOrdered NoGap DeletionsTold
PROPERTIES PinRespected
CHECK_DEADLOCK FALSE
