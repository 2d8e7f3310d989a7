CONSTANTS
    Threads = {t1, t2, t3}
    Condvars = {c1}
    NULL = NULL
    RpcFailures = {}
SPECIFICATION FairSpec
INVARIANTS
    NoForgottenWaiter
    WakeupInFlight
    WaiterSignallable
PROPERTIES
    EveryWaiterSelected
    SelectedComesBack
CHECK_DEADLOCK FALSE
