SPECIFICATION FairSpec

CONSTANTS
    FifoSize = 2
    RingSize = 2
    MaxUrcs = 2

PROPERTIES
    EveryUrcIsDelivered
