CONSTANTS
    Threads = {t1, t2, t3}
    Mobjs = {o1, o2}
    Cookies = {k1, k2}
    NULL = NULL
SPECIFICATION Spec
SYMMETRY Symmetry
INVARIANTS LookupValid
CHECK_DEADLOCK FALSE
