SPECIFICATION Spec

CONSTANTS
    app1 = app1
    app2 = app2
    rx = rx
    Callers = {app1, app2}
    Pollers = {rx}
    NoCall = NoCall
    NoUrc = NoUrc
    RspKinds = {"none"}
    UrcKinds = {}
    InCallback = {}
    PollInCmd = FALSE
    Split = {}
    Timeouts = FALSE
    MaxCmds = 2
    MaxUrcs = 2
    MaxIoErrors = 0

INVARIANTS
    ReturnsDecided
