CONSTANTS
    BUFFER_MAX = 2
    LINE_LIMIT = 2
    MaxCars = 3
    ForkMayFail <- MCNoForkFails
SPECIFICATION FairSpec
PROPERTIES
    SouthProducerGoesOn
