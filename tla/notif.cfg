CONSTANTS
    AsyncMax = 3
    ItMax = 2
    ItNumbers = {0, 1}
    Threads = {t1, t2}
    Drivers = {d1, d2}
    NULL = NULL
SPECIFICATION PartSpec
INVARIANTS
    NothingLost
    DriversToldRight
PROPERTIES
    BottomHalfWhenStarted
    EverythingRetrieved
    WorkDone
CHECK_DEADLOCK FALSE
