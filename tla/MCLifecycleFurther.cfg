SPECIFICATION Spec
CONSTANTS
    root = root
    child = child
    p1 = p1
    p2 = p2
    NoParent = NoParent
    Nobody = Nobody
    Repos <- MCRepos
    RepoOrder <- MCRepoOrder
    Parent <- MCParent
    Procs <- MCProcs
    Companions <- MCCompanions
    Baselines <- MCSharedBaseline
    Ops = {"create", "checkout", "remove", "delete"}
    UserMoves <- MCUserMoves
    MaxUserMoves = 1
    MaxOps = 2
    MaxFaults = 1
    MaxCrashes = 1
    PartialCreates = TRUE
INVARIANTS
    TypeOK
    SuccessIsWhole
PROPERTIES
    BaselineSurvives
    Terminates
CHECK_DEADLOCK FALSE
