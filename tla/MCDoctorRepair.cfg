SPECIFICATION Spec
CONSTANTS
    a = a
    b = b
    k = k
    e = e
    None = None
    Outside = Outside
    Order <- MCOrder
    Parent <- MCParent
    Others = {e}
    RepoOf <- MCRepoOf
    Mounted <- MCMounted
    Names = 3
    Depth = 2
    MaxMoves = 2
    MaxFaults = 2
INVARIANTS
    FixConverges
    FailureIsTrue
PROPERTIES
    EditsAreKept
CHECK_DEADLOCK FALSE
