SPECIFICATION Spec
CONSTANTS
    root = root
    child = child
    p1 = p1
    p2 = p2
    NoParent = NoParent
    Nobody = Nobody
    Repos <- MCRepos
    RepoOrder <- MCRepoOrder
    Parent <- MCParent
    Procs <- MCOneProc
    Companions <- MCCompanions
    Baselines <- MCNobodysBaseline
    Ops = {"create"}
    UserMoves <- MCNoUserMoves
    MaxUserMoves = 0
    MaxOps = 1
    MaxFaults = 1
    MaxCrashes = 0
    PartialCreates = TRUE
INVARIANTS
    FailureLeavesNothing
CHECK_DEADLOCK FALSE
