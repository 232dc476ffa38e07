SPECIFICATION FairSpec

CONSTANTS
    app = app
    rx = rx
    Callers = {app}
    Pollers = {rx}
    NoCall = NoCall
    NoUrc = NoUrc
    RspKinds = {"none"}
    UrcKinds = {"line"}
    InCallback = {"cmd"}
    PollInCmd = FALSE
    Split = {}
    Timeouts = TRUE
    MaxCmds = 2
    MaxUrcs = 1
    MaxIoErrors = 1

PROPERTIES
    EveryCommandReturns
    InputIsHandled
