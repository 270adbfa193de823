SPECIFICATION Spec
CONSTANTS
    p1 = p1
    p2 = p2
    Procs <- MCProcs
    Ids = {a, b}
    Places = {base, group, empty}
    None = None
    ReleaseId = a
    BasePlace = base
    GroupPlace = group
    Cmds = {"init", "clone", "materialize", "mutate", "remove"}
    MaxCommands = 3
    MaxFaults = 0
    MaxUserMoves = 0
    MaxCrashes = 0
SYMMETRY MCSymmetry
PROPERTIES
    MutationRegistersAgain
CHECK_DEADLOCK FALSE
