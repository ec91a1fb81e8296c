CONSTANTS
    p1 = p1
    p2 = p2
    p3 = p3
    NoProc = NoProc
    Proc <- MCProc
    NumResources <- MCNumResources
    Machines <- MCThreeCPUsKmallocFails
    MaxSignals = 2
SPECIFICATION Spec
INVARIANTS
    ListMatchesValue
    DequeuesSleeper
CHECK_DEADLOCK FALSE
