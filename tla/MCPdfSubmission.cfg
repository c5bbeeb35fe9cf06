SPECIFICATION FairSpec
CONSTANTS
    Documents = {up, loc}
    Uploads = {up}
    PageCounts = {0, 1, 2, 3}
    MaxPdfPages = 2
    QueueSize = 3
    Workers = 2
    Faults = {"drop", "io", "render", "page", "append", "close", "evict", "remove"}
INVARIANTS
    TypeOK
    PagesInOrder
    WithinPageLimit
    QueuedPagesOnDisk
    FilesAccounted
PROPERTIES
    SubmissionCompletes
CHECK_DEADLOCK FALSE
