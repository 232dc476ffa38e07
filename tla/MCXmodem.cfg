\* Six blocks, the last one short. Block numbers wrap, but range over more than the
\* line holds in both directions.
SPECIFICATION FairSpec
CONSTANTS
    FileLen = 11
    BlockSize = 2
    NumRange = 5
    MaxRetries = 3
    MaxSends = 2
    LineCap = 2
    ShortReads = FALSE
INVARIANTS
    TypeOK
    ReceiverHasPrefix
    ProgressIsReal
PROPERTIES
    SuccessMeansComplete
    EverySendReturns
