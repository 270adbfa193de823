SPECIFICATION Spec
CONSTANTS
    Effects <- MCEffects
    Additions <- MCAdditions
    Base = "root"
    Targets <- MCRegistry
    MaxFaults = 0
    MaxCrashes = 0
    MaxMoves = 1
CHECK_DEADLOCK FALSE
PROPERTY OthersGenerationKept
