SPECIFICATION Spec
CONSTANTS
    CURRENT_YEAR = 2026
    Instants <- EveryBoundary
    TwelveHour = {FALSE, TRUE}
    MaxTicks = 3
INVARIANTS
    ReadIsATime
PROPERTY ReadReturns
CHECK_DEADLOCK FALSE
