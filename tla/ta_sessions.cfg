CONSTANTS
    A = A
    B = B
    NULL = NULL
    Threads = {t1, t2}
    Sessions = {s1, s2}
    Ctxs = {c1, c2}
    TAs = {A, B}
    Single = {A}
    MultiSession = {A}
    KeepAlive = {}
    Concurrent = {}
    Clients = {A}
    TaMayPanic = FALSE
    AnyId = FALSE
    IdMax = 2
    MaxRecursion = 2
    Calls <- NoCalls
SPECIFICATION FairSpec
INVARIANTS
    CountersExact
    SessionExclusive
PROPERTIES
    CallsReturn
CHECK_DEADLOCK FALSE
