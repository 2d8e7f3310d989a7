CONSTANTS
    Threads = {t1, t2, t3}
    Mobjs = {o1, o2}
    Cookies = {k1}
    NULL = NULL
SPECIFICATION FairSpec
INVARIANTS
    TypeOK
    RefCountExact
    NoUseAfterFree
    MappingStays
    NoMissedRelease
PROPERTIES
    ReleaseReturns
CHECK_DEADLOCK FALSE
