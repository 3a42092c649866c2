\* The server process, its cache of observed state, its clients, and a seed.
SPECIFICATION FairSpec
CONSTANTS
    Nodes = {n1, n2}
    ControlPlane = n1
    Watchers = {w1}
    Budgets <- SmallBudgets
INVARIANTS
    InventoryRooted
    ObservedKnown
PROPERTIES
    StopsUnlessWatched
    RefreshCatchesUp
CHECK_DEADLOCK FALSE
