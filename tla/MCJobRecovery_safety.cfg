SPECIFICATION RecoverySpec
CONSTANTS
    r1 = r1  r2 = r2  r3 = r3
    j1 = j1  j2 = j2  j3 = j3
    NoJob = NoJob
    Jobs = {j1, j2, j3}
    Requests = {r1, r2, r3}
    PagesOf <- ThreeImages
    Pdf = {}
    CallerOwned = {}
    Workers = {w1}
    QueueSize = 1
    JobRetentionLimit = 1
    Panicking = {j1, j2, j3}
    JobTimeout = FALSE
    Faults = {"torn", "cleanup"}
    MetadataRetentionLimit = 1
    MaxCrashes = 2
INVARIANTS
    AnnouncedIsDurable
    ServedIsDurable
PROPERTIES
    HistoryKept
CHECK_DEADLOCK FALSE
