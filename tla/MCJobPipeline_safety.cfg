SPECIFICATION Spec
CONSTANTS
    doc = doc  img = img  loc = loc
    d1 = d1  d2 = d2  i1 = i1  l1 = l1
    NoJob = NoJob
    Jobs = {d1, d2, i1}
    Requests = {doc, img}
    PagesOf <- PdfAndImage
    Pdf = {doc}
    CallerOwned = {i1}
    Workers = {w1, w2}
    QueueSize = 2
    JobRetentionLimit = 1
    Panicking = {i1}
    JobTimeout = TRUE
    Faults = {"init", "append", "drop", "input"}
SYMMETRY WorkerSymmetry
INVARIANTS
    TypeOK
    OneOwner
    ImageAvailable
    OutcomesAgree
    ReadyNotOverstated
    MetricsBalance
    RecordsAccounted
PROPERTIES
    ImplementsLedger
CHECK_DEADLOCK FALSE
