SPECIFICATION RemovalSpec
CONSTANTS
    MaxFaults = 2
    MaxMoves = 4
INVARIANTS
    WorkSurvives
    SuccessIsComplete
PROPERTIES
    TheirsSurvives
CHECK_DEADLOCK FALSE
