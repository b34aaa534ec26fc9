SPECIFICATION Spec
CONSTANTS
    NServers = 1
    NBuckets = 4
    BatchSize = 2
    NFrames = 2
    NThreads = 2
    MaxFileReqs = 0
    Faults <- ClientThrows
INVARIANT RangeInList
CHECK_DEADLOCK FALSE
