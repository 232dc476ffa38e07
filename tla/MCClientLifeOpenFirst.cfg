SPECIFICATION Spec

CONSTANTS
    connected = connected
    Callbacks = {connected}
    NoCallback = NoCallback
    ReplacesLate = FALSE
    Urcs = {"UEWSNU"}
    MaxUrcs = 1

INVARIANT
    CallbackGetsHandle
