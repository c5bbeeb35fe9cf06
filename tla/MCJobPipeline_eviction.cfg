SPECIFICATION Spec
CONSTANTS
    doc = doc  img = img  loc = loc
    d1 = d1  d2 = d2  i1 = i1  l1 = l1
    NoJob = NoJob
    Jobs = {i1, l1}
    Requests = {img, loc}
    PagesOf <- ImageAndLocal
    Pdf = {}
    CallerOwned = {l1}
    Workers = {w1, w2}
    QueueSize = 2
    JobRetentionLimit = 1
    Panicking = {}
    JobTimeout = TRUE
    Faults = {}
INVARIANT FinishedJobCleanedUp
CHECK_DEADLOCK FALSE
