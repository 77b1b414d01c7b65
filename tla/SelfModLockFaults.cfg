\* Two services, one of which waits and the other keeps its lock alive; a crash
\* or a failed write.  A lock renewed at 1 lasts beyond the timeout that it was
\* acquired with.
SPECIFICATION Spec
CONSTANTS
    Caller = {c1, c2}
    Waits = {c2}
    KeepsAlive = {c1}
    Extras = {"check"}
    Interval = interval
    Nothing = nothing
    Torn = torn
    LockTimeout = 2
    CacheTTL = 0
    MaxTime = 2
    MaxFaults = 1
INVARIANTS
    TypeOK ExcludesWhenSerial
