SPECIFICATION Spec

CONSTANTS
    app = app
    rx = rx
    Callers = {app}
    Pollers = {rx}
    NoCall = NoCall
    NoUrc = NoUrc
    RspKinds = {"none", "line", "binary"}
    UrcKinds = {"binary"}
    InCallback = {}
    PollInCmd = FALSE
    Split = {"urc"}
    Timeouts = FALSE
    MaxCmds = 1
    MaxUrcs = 1
    MaxIoErrors = 0

INVARIANTS
    NoThreadWaitsForItself
