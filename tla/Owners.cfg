\* Every chain over two ReplicaSets, a Deployment and a StatefulSet, with two
\* changes of the caches during the walk.  The walk ends, so it deadlocks.
SPECIFICATION Spec
CONSTANTS
    Pod = "pod"
    Intermediates = {"rs", "rs2"}
    Workloads = {"dep", "sts"}
    Others = {"job"}
    OwnerGraphs <- SmallGraphs
    MaxMoves = 2
    None = "none"
    Error = "error"
INVARIANTS
    FoundIsOwner
    MissedOnlyIfGone
PROPERTIES
    WalkEnds
CHECK_DEADLOCK FALSE
