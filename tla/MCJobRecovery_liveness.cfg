SPECIFICATION FairRecoverySpec
CONSTANTS
    r1 = r1  r2 = r2  r3 = r3
    j1 = j1  j2 = j2  j3 = j3
    NoJob = NoJob
    Jobs = {j1, j2}
    Requests = {r1, r2}
    PagesOf <- TwoImages
    Pdf = {}
    CallerOwned = {j2}
    Workers = {w1, w2}
    QueueSize = 1
    JobRetentionLimit = 2
    Panicking = {j1, j2}
    JobTimeout = TRUE
    Faults = {"input", "drop"}
    MetadataRetentionLimit = 0
    MaxCrashes = 2
INVARIANT MetricsAcrossLives
PROPERTIES
    AcceptedJobEnds
    AcceptedJobCompletes
CHECK_DEADLOCK FALSE
