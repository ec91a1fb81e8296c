CONSTANTS
    p1 = p1
    p2 = p2
    p3 = p3
    p4 = p4
    p5 = p5
    Proc <- MCProc
    NumResources <- MCNumResources
SPECIFICATION FairSpec
INVARIANTS
    ListHoldsSleepers
    ValueCounts
    AtMostNumResources
PROPERTIES
    FirstComeFirstServed
    SleeperIsServed
