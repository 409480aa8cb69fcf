SPECIFICATION FairSpec
CONSTANTS
    c1 = c1
    w1 = w1
    w2 = w2
    r1 = r1
    Clients = {c1}
    MaxQueries = 3
    Stops <- OneStop
    Keys = {"valid"}
    Workers = {w1, w2}
    Refreshers = {r1}
    MaxFd = 2
    Backlog = 2
    Counts = {1}
    Failures = {"CurlPerformFailed"}
    MaxArrivals = 1
    BrokenPipeKills = TRUE
    None = None
    NoArrivals = NoArrivals
    FreshnessSeconds = 1
    StalenessSeconds = 2
    MaxTime = 2
INVARIANTS TypeOK FdOwnership NoSilentClose 
PROPERTIES NothingAfterClose EveryQueryReturns EveryDescriptorCloses
CHECK_DEADLOCK FALSE
