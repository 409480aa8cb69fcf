SPECIFICATION Spec
CONSTANTS
    c1 = c1
    c2 = c2
    w1 = w1
    w2 = w2
    r1 = r1
    Clients = {c1, c2}
    MaxQueries = 1
    Stops <- ThreeSpellings
    Keys = {"valid", "rejected", "empty"}
    Workers = {w1, w2}
    Refreshers = {r1}
    MaxFd = 2
    Backlog = 1
    Counts = {1, 2}
    Failures = {"CurlPerformFailed"}
    MaxArrivals = 1
    BrokenPipeKills = TRUE
    None = None
    NoArrivals = NoArrivals
    FreshnessSeconds = 1
    StalenessSeconds = 2
    MaxTime = 3
SYMMETRY Symmetry
INVARIANTS AnswerIsForRequest NoFailedFetchCached AnswerShape
PROPERTY ImplementsTtlCache
CHECK_DEADLOCK FALSE
