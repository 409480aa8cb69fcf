SPECIFICATION Spec
CONSTANTS
    t1 = t1
    t2 = t2
    s1 = s1
    s2 = s2
    a1 = a1
    Threads = {t1, t2}
    Stops = {s1, s2}
    Answers = {a1}
    NoArrivals = NoArrivals
    FreshnessSeconds = 1
    StalenessSeconds = 2
    MaxCacheSize = 1
    MaxTime = 4
INVARIANT CacheWithinMaxSize
