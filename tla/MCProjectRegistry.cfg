SPECIFICATION Spec
CONSTANTS
    p1 = p1
    p2 = p2
    Procs <- MCProcs
    Ids = {a, b}
    Places = {base, group, empty}
    None = None
    ReleaseId = a
    BasePlace = base
    GroupPlace = group
    Cmds = {"init", "clone", "materialize", "mutate", "remove"}
    MaxCommands = 3
    MaxFaults = 1
    MaxUserMoves = 1
    MaxCrashes = 1
SYMMETRY MCSymmetry
INVARIANTS
    OnePlaceOneProject
PROPERTIES
    EntriesKept
    ForeignSurvives
    CleanLeavesNothing
CHECK_DEADLOCK FALSE
