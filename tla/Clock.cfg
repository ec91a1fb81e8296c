SPECIFICATION FairSpec
CONSTANTS
    NumFrames = 3
    Vpn <- MCVpn
    MaxAccesses = 6
INVARIANTS PagesDistinct OneFlushSuffices
PROPERTIES SecondChanceKept EveryAccessServed ImplementsPagedMemory
\* The program ends with its trace.
CHECK_DEADLOCK FALSE
