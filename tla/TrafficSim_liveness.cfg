CONSTANTS
    BUFFER_MAX = 2
    LINE_LIMIT = 2
    MaxCars = 4
    ForkMayFail <- MCNoForkFails
SPECIFICATION FairSpec
PROPERTIES
    SouthIsBoundedLine
    CrossingsMatchArrivals
    HornWakesFlagperson
    NorthProducerGoesOn
