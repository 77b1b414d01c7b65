\* Two jobs, one job a day: both pass the check before either claims.
SPECIFICATION Spec
CONSTANTS
    Job = {1, 2}
    MaxAttempts = 1
    MaxJobsPerDay = 1
    PollBatch = 2
    Offered = {"good"}
    MaxFaults = 0
    MaxPauses = 0
INVARIANTS
    DailyCap
