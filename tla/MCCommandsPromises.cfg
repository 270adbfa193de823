SPECIFICATION Spec
CONSTANTS
    base = base
    kit = kit
    Order <- MCOrder
    Companions = {kit}
    Workspaces <- MCWorkspaces
    Commands <- MCCommands
    None = None
    MaxEdits = 1
    MaxFaults = 1
INVARIANT WrittenRowsAreFinal
PROPERTY CanceledCommandEnds
CHECK_DEADLOCK FALSE
