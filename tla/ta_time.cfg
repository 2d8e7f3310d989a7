CONSTANTS
    TAs = {a1, a2}
    Base = 3
    SecMod = 3
    SecMax = 20
    Timeouts = {1, 2, 4, 62}
    Infinite = 99
    Horizon = 12
SPECIFICATION PartSpec
INVARIANTS
    TimeIsRight
PROPERTIES
    WaitsUntilDue
    WaitReturns
CHECK_DEADLOCK FALSE
