CONSTANTS
    A = A
    B = B
    NULL = NULL
    Threads = {t1, t2}
    Sessions = {s1, s2, s3}
    Ctxs = {c1, c2}
    TAs = {A, B}
    Single = {}
    MultiSession = {}
    KeepAlive = {}
    Concurrent = {B}
    Clients = {A}
    TaMayPanic = TRUE
    AnyId = FALSE
    IdMax = 1
    MaxRecursion = 2
    Calls <- AcyclicCalls
SPECIFICATION ScenarioSpec
SYMMETRY Symmetry
INVARIANTS
    
    IdsNameSessions
    LocksExactEach
    NoFaultEach
CHECK_DEADLOCK FALSE
