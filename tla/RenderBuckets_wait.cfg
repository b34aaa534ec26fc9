SPECIFICATION Spec
CONSTANTS
    NServers = 1
    NBuckets = 3
    BatchSize = 2
    NFrames = 1
    NThreads = 2
    MaxFileReqs = 1
    Faults <- NoFaults
INVARIANT AllServersComplete
CHECK_DEADLOCK FALSE
