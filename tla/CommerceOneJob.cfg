\* One job of every kind, both attempts, two failures and two pauses.
SPECIFICATION FairSpec
CONSTANTS
    Job = {1}
    MaxAttempts = 2
    MaxJobsPerDay = 2
    PollBatch = 2
    Offered = {"good", "underpaid", "foreign"}
    MaxFaults = 2
    MaxPauses = 2
INVARIANTS
    TypeOK SubmitOnce NoWorkTwice DeliveredOnlyWhenPaid RevenueOnce
PROPERTIES
    ResumesToPayment LockReturned KeepsPromise
