CONSTANTS
    Threads = {t1, t2, t3, t4}
    NULL = NULL
    NONE = NONE
    NIL = NIL
    MaxDepth = 3
    PgtThreads = {p1, p2}
    Ctxs = {a, b}
    Tables = {1, 2}
    NSlots = 2
    ParamSlots = {1}
    MaxNest = 2
    MaxPaged = 2
    LongCtxs = {a}
    Cores = {k1, k2}
    NumThreads = 2
    Cookies = {1, 2}
SPECIFICATION PartSpec
INVARIANTS
    RecursiveSafety
    PageTablesSafe
    ActiveIsRunning
    MemoryAccounted
    NothingKept
PROPERTIES
    EveryoneMaps
