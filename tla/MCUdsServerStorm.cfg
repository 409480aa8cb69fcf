SPECIFICATION Spec
CONSTANTS
    c1 = c1
    w1 = w1
    r1 = r1
    r2 = r2
    Clients = {c1}
    MaxQueries = 3
    Stops <- OneStop
    Keys = {"valid"}
    Workers = {w1}
    Refreshers = {r1, r2}
    MaxFd = 2
    Backlog = 1
    Counts = {1}
    Failures = {"CurlPerformFailed"}
    MaxArrivals = 1
    BrokenPipeKills = FALSE
    None = None
    NoArrivals = NoArrivals
    FreshnessSeconds = 1
    StalenessSeconds = 2
    MaxTime = 2
SYMMETRY Symmetry
INVARIANT ThreadGrowthWithinConcurrency
CHECK_DEADLOCK FALSE
