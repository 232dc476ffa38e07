SPECIFICATION Spec

CONSTANTS
    app1 = app1
    app2 = app2
    rx = rx
    Callers = {app1, app2}
    Pollers = {rx}
    NoCall = NoCall
    NoUrc = NoUrc
    RspKinds = {"line", "binary"}
    UrcKinds = {"binary"}
    InCallback = {"cmd", "poll"}
    PollInCmd = FALSE
    Split = {"rsp"}
    Timeouts = FALSE
    MaxCmds = 2
    MaxUrcs = 2
    MaxIoErrors = 0

SYMMETRY Symmetry

INVARIANTS
    TypeOK
    OneCommandAtATime
    OneCallbackAtATime
    NoThreadWaitsForItself
    UrcsInOrder
    OwnAnswers
    ResponseBeforeStatus
