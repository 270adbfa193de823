SPECIFICATION HooksSpec
CONSTANTS
    p1 = p1
    p2 = p2
    Procs = {p1}
    Hooks = 2
    Sources = {s0, s1}
    Commits = {c0, c1}
    None = None
    FirstSource = s0
    FirstCommit = c0
    MaxCommands = 3
    MaxFailures = 1
    MaxCrashes = 0
    MaxChanges = 1
PROPERTIES
    HooksBelongToCheckout
CHECK_DEADLOCK FALSE
