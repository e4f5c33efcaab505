SPECIFICATION PageSpec
CONSTANTS
    N = 5
    MaxHandles = 3
    MaxIndexed = 2
    Ids = {"x"}
    NoId = "none"
    Page <- MCPage
    Frags <- MCFrags
INVARIANTS Acyclic HandlesKept FoundById StyleTrue SelectorsTrue
CHECK_DEADLOCK FALSE
