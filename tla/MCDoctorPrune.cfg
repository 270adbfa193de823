SPECIFICATION Spec
CONSTANTS
    a = a
    b = b
    k = k
    e = e
    None = None
    Outside = Outside
    Order <- MCOrder
    Parent <- MCParent
    Others = {e}
    RepoOf <- MCRepoOf
    Mounted <- MCMounted
    Names = 3
    Depth = 2
    MaxMoves = 2
    MaxFaults = 0
INVARIANT
    FoundCheckoutsStayUsable
CHECK_DEADLOCK FALSE
