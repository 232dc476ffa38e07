SPECIFICATION FairSpec

CONSTANTS
    app1 = app1
    app2 = app2
    Threads = {app1, app2}
    Nobody = Nobody
    Functions <- SoundFunctions
    Forms = {"good", "bad", "none"}
    Echo = TRUE
    MaxEntries = 2

INVARIANTS
    TypeOK
    EveryCommandIsEnded
    OnlyTheOwnerEnds
    NoDanglingResult
    ReturnTellsOutcome

PROPERTIES
    EveryCallReturns
