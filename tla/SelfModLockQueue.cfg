\* Three services, two of which wait; forceClear; nothing fails.
SPECIFICATION Spec
CONSTANTS
    Caller = {c1, c2, c3}
    Waits = {c2, c3}
    KeepsAlive = {}
    Extras = {"forceClear"}
    Interval = interval
    Nothing = nothing
    Torn = torn
    LockTimeout = 1
    CacheTTL = 0
    MaxTime = 1
    MaxFaults = 0
INVARIANTS
    WaitersAccounted HandedOn
PROPERTIES
    NoOvertaking
