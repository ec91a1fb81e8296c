CONSTANTS
    BUFFER_MAX = 2
    LINE_LIMIT = 2
    MaxCars = 6
    ForkMayFail <- MCAnyForkFails
SPECIFICATION Spec
INVARIANTS
    RoadMutex
    TokensAccounted
    FullCoversLine
    LinesBounded
    CrossesOnlyCars
PROPERTIES
    MutexIsSemaphore
CHECK_DEADLOCK FALSE
