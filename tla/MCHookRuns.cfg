SPECIFICATION HooksSpec
CONSTANTS
    p1 = p1
    p2 = p2
    Procs <- MCProcs
    Hooks = 2
    Sources = {s0, s1}
    Commits = {c0, c1}
    None = None
    FirstSource = s0
    FirstCommit = c0
    MaxCommands = 3
    MaxFailures = 2
    MaxCrashes = 1
    MaxChanges = 2
INVARIANTS
    RecordIsTrue
PROPERTIES
    ProgressIsKept
    CompletedRanAll
    HooksReturn
CHECK_DEADLOCK FALSE
