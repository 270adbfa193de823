SPECIFICATION PlanningSpec
CONSTANTS
    root = root
    kit = kit
    lib = lib
    app = app
    None = None
    Repositories = {root, kit, lib, app}
    Root = root
    Commits = {1, 2, 3, 4}
    Start0 = 1
    Tips = {2, 4}
    Order <- MCOrder
    Forward <- MCForward
    Tracked <- MCTracked
    Candidates <- MCCandidates
    MaxJobs = 1
    MaxChanges = 2
INVARIANT StateFollowsCheckouts
CHECK_DEADLOCK FALSE
