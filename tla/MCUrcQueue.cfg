\* Two threads, a buffer for two to three short entries, four URCs.
CONSTANTS
    Threads = {t1, t2}
    NoThread = NoThread
    NoUrc = NoUrc
    BufferLen = 20
    LineLens = {1, 3}
    PayloadLens = {2, 5}
    LengthRange = 65536
    MaxUrcs = 4
    Recursive = FALSE
SPECIFICATION FairSpec
INVARIANTS
    TypeOK
    PointersFollowLocks
    BufferHoldsEntries
    CallbackSeesItsUrc
    AssertsHold
PROPERTY
    ImplementsUrcFifo
    EveryUrcLeaves
