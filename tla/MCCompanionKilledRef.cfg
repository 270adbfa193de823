SPECIFICATION Spec
CONSTANTS
    default = default
    feature = feature
    old = old
    new = new
    mine = mine
    above = above
    Order <- MCOrder
    Base = Base
    Commits = {old, new, mine, above}
    Parent <- MCParent
    Old = old
    Fetched = {old, new}
    UserCommits = {mine, above}
    None = None
    MaxCommands = 2
    MaxFaults = 2
    MaxCrashes = 1
    MaxMoves = 1
INVARIANT MovementIsSurfaced
CHECK_DEADLOCK FALSE
