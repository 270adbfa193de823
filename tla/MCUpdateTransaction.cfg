SPECIFICATION Spec
CONSTANTS
    Effects <- MCEffects
    Additions <- MCAdditions
    Base = "root"
    Targets <- MCTargets
    MaxFaults = 2
    MaxCrashes = 1
    MaxMoves = 1
CHECK_DEADLOCK FALSE
INVARIANTS
    OutcomeIsTrue
    RepositoryEvidence
PROPERTIES
    SuccessIsNeverUndone
    TheirsKept
