CONSTANTS
    Threads = {t1, t2, t3}
    Condvars = {c1}
    NULL = NULL
    RpcFailures = {"wait", "send"}
SPECIFICATION Spec
SYMMETRY Symmetry
INVARIANTS
    TypeOK
    MutualExclusion
    NoDanglingElement
PROPERTIES
    ImplementsMonitor
CHECK_DEADLOCK FALSE
