SPECIFICATION FairSpec
CONSTANTS
    Jobs = {j1}
    MaxAttempts = 35
    Backoff = TRUE
    RequestTimeout = TRUE
    AppendMayFail = TRUE
    MaxLate = 1
INVARIANTS
    ProcessedOnce
    FailuresAccounted
PROPERTIES
    BackoffNeverShrinks
    DeliveryEnds
CHECK_DEADLOCK FALSE
