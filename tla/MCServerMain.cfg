SPECIFICATION MainSpec
CONSTANTS
    NoArg = NoArg
    IntMax = 100
    LongMax = 200
    Argvs <- SomeArgvs
    s0 = s0
    s1 = s1
    s2 = s2
    Self = s0
    Instances = {s0, s1, s2}
    Clients = {c1, c2}
    Removable <- OwnUsers
    Concurrency = 1
SYMMETRY Symmetry
INVARIANTS
    MainTypeOK
    ResultIsForWholeLine
    OkMeansWindows
    ReachableUntilNextStart
    OnlyForeignLeftoverBlocks
    OnlyUnfinishedIsSpoiled
CHECK_DEADLOCK FALSE
