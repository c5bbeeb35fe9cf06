SPECIFICATION RecoverySpec
CONSTANTS
    r1 = r1  r2 = r2  r3 = r3
    j1 = j1  j2 = j2  j3 = j3
    NoJob = NoJob
    Jobs = {j1, j2}
    Requests = {r1, r2}
    PagesOf <- TwoImages
    Pdf = {}
    CallerOwned = {}
    Workers = {w1}
    QueueSize = 1
    JobRetentionLimit = 2
    Panicking = {}
    JobTimeout = FALSE
    Faults = {}
    MetadataRetentionLimit = 2
    MaxCrashes = 1
INVARIANT FinishedJobAnnounced
CHECK_DEADLOCK FALSE
