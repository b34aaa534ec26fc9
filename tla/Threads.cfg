SPECIFICATION TFairSpec
CONSTANTS
    NServers = 2
    NBuckets = 3
    BatchSize = 2
    NFrames = 2
    NThreads = 2
    MaxFileReqs = 1
    Faults <- ClientLinks
    Base = 2
    HeadSize = 2
    Messages <- TwoSizes
    MaxSends <- TwoAndOne
    NetCap = 2
    SplitHeads = FALSE
    Failures = TRUE
    NTasks = 3
    MaxN = 2
    Names = {t1, t2, t3}
    Broken = {t2}
    Missing = {t3}
    MaxLookups = 1
    Idle = none
INVARIANTS
    ImageComplete RendDoneBalance StreamInStep Outcome UsesLive FewCopies CountsExact
PROPERTIES
    ClientEnds RequestsAnswered Reliable SentArrives TasksEnd StableLookup ImplementsTasks
CHECK_DEADLOCK FALSE
