\* A rollout and a scale-in on two nodes with two pods, one of which has to run, and a DaemonSet pod.
SPECIFICATION FairSpec
CONSTANTS
    Nodes = {n1, n2}
    Pods = {p1, p2, ds}
    Static = {ds}
    MinAvailable = 1
    NoNode = NoNode
INVARIANTS
    DrainedEmpty
PROPERTIES
    DrainEnds
CHECK_DEADLOCK FALSE
