SPECIFICATION Spec
CONSTANTS
    Effects <- MCEffects
    Additions <- MCAdditions
    Base = "root"
    Targets <- MCTargets
    MaxFaults = 0
    MaxCrashes = 1
    MaxMoves = 0
CHECK_DEADLOCK FALSE
INVARIANT RecoveredFilesAreWhole
