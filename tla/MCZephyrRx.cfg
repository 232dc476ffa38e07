SPECIFICATION BusySpec

CONSTANTS
    FifoSize = 2
    RingSize = 2
    MaxUrcs = 4

INVARIANTS
    TypeOK
    NoUrcIsLost

PROPERTIES
    EveryCommandReturns
    EveryUrcIsDelivered
