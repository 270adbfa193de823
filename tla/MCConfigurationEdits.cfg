SPECIFICATION Spec
CONSTANTS
    p1 = p1
    p2 = p2
    b1 = b1
    b2 = b2
    h1 = h1
    h2 = h2
    Procs <- MCProcs
    Branches <- MCBranches
    Hooks <- MCHooks
    NoHooks = NoHooks
    User = User
    None = None
    FirstBranch = b1
    MaxEdits = 1
    MaxFaults = 1
    MaxCrashes = 1
    MaxEvents = 2
SYMMETRY MCSymmetry
INVARIANTS
    SplitIsReported
    CleanRollbackIsTrue
PROPERTIES
    NoLostEdit
CHECK_DEADLOCK FALSE
