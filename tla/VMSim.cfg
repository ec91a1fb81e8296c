SPECIFICATION Spec
CONSTANTS
    NumFrames = 3
    Vpn <- MCVpn
    MaxAccesses = 6
    Traces <- MCTraces
INVARIANTS FastIndexAgrees
PROPERTIES WritesNotLost LeastRecentlyRead FarthestInFuture ImplementsPagedMemory
\* The program ends with its trace.
CHECK_DEADLOCK FALSE
