SPECIFICATION Spec
CONSTANTS
    c1 = c1  c2 = c2  c3 = c3  c4 = c4
    probe = probe  anon = anon
    Calls = {c1, c2, c3, c4, probe, anon}
    Probes = {probe}
    Unauthorized = {anon, probe}
    HandlerStatuses = {200, 404, 503}
    Limit = 1
    WindowSeconds = 2
    TicksPerSecond = 2
    MaxTime = 7
SYMMETRY CallSymmetry
INVARIANTS
    RequestsCounted
    RateLimitHolds
PROPERTY RetryAfterHonest
CHECK_DEADLOCK FALSE
