CONSTANTS
    p1 = p1
    p2 = p2
    p3 = p3
    NoProc = NoProc
    Proc <- MCProc
    NumResources <- MCNumResources
    Machines <- MCMachines
    MaxSignals = 0
SPECIFICATION FairSpec
INVARIANTS
    CritSectionExclusive
    ListMatchesValue
    SleeperIsListed
PROPERTIES
    EveryCallReturns
    ImplementsSemaphore
