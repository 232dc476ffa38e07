SPECIFICATION FairSpec

CONSTANTS
    connected = connected
    Callbacks = {connected}
    NoCallback = NoCallback
    ReplacesLate = FALSE
    Urcs = {"UEWSNU", "UEBTC", "UESODS"}
    MaxUrcs = 2

INVARIANTS
    TypeOK
    QuietAfterDeinit

PROPERTIES
    RegisteredIsCalled
    DeinitReturns
