SPECIFICATION Spec
CONSTANTS
    root = root
    child = child
    p1 = p1
    p2 = p2
    NoParent = NoParent
    Nobody = Nobody
    Repos <- MCRepos
    RepoOrder <- MCRepoOrder
    Parent <- MCParent
    Procs <- MCOneProc
    Companions <- MCCompanions
    Baselines <- MCNobodysBaseline
    Ops = {"create"}
    UserMoves <- MCUserMoves
    MaxUserMoves = 2
    MaxOps = 1
    MaxFaults = 1
    MaxCrashes = 0
    PartialCreates = FALSE
PROPERTIES
    CommittedWorkSurvives
CHECK_DEADLOCK FALSE
