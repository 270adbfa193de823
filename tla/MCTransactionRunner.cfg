SPECIFICATION Spec
CONSTANTS
    N = 5
    Reversible <- MCReversible
    CleansFailedExecute <- MCCleans
    PartialExecute <- MCPartial
    Overlooks <- MCOverlooks
INVARIANTS
    LeftoversAreNamed
PROPERTIES
    UndoneInReverse
    ImplementsPromise
CHECK_DEADLOCK FALSE
