CONSTANTS
    t1 = t1
    t2 = t2
    a1 = a1
    a2 = a2
    a3 = a3
    NULL = NULL
    Task <- MCTask
    Addr <- MCAddr
SPECIFICATION Spec
INVARIANTS
    WellFormed
PROPERTIES
    ImplementsFifo
