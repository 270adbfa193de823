SPECIFICATION Spec
CONSTANTS
    base = base
    kit = kit
    Order <- MCOrder
    Companions = {kit}
    Workspaces <- MCWorkspaces
    Commands <- MCCommands
    None = None
    MaxEdits = 1
    MaxFaults = 1
INVARIANTS
    OutputIsTheResult
    ReportIsTrue
    ReadyWasPublished
PROPERTIES
    InterruptEnds
CHECK_DEADLOCK FALSE
