CONSTANTS
    p1 = p1
    p2 = p2
    p3 = p3
    NoProc = NoProc
    Proc <- MCProc
    NumResources <- MCNumResources
    Machines <- MCThreeCPUs
    MaxSignals = 1
SPECIFICATION Spec
INVARIANTS
    AtMostNumResources
