\* Two services that wait; forceClear; a crash or a failed write.
SPECIFICATION FairSpec
CONSTANTS
    Caller = {c1, c2}
    Waits = {c1, c2}
    KeepsAlive = {}
    Extras = {"check", "update", "forceClear"}
    Interval = interval
    Nothing = nothing
    Torn = torn
    LockTimeout = 1
    CacheTTL = 0
    MaxTime = 1
    MaxFaults = 1
PROPERTIES
    WaitEnds
