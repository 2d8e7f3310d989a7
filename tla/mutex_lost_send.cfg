CONSTANTS
    Threads = {t1, t2}
    Condvars = {}
    NULL = NULL
    RpcFailures = {"send"}
SPECIFICATION FairSpec
PROPERTIES
    SelectedComesBack
CHECK_DEADLOCK FALSE
