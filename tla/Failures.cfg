SPECIFICATION FSpec
CONSTANTS
    NServers = 1
    NBuckets = 5
    BatchSize = 2
    NFrames = 2
    NThreads = 2
    MaxFileReqs = 1
    Faults <- AllFaults
    Vals = {v1, v2}
    Identity = v1
    Displays = {d1, d2}
    FallBack = TRUE
    Blocks = {"BASE", "FRAME", "WORLD", "ATTRIBUTE", "TRANSFORM", "SOLID", "OBJECT", "MOTION"}
    RiFaults = {"render", "params"}
    MaxModes = 4
    MaxRev = 2
    MaxPrims = 2
INVARIANTS
    QueueUnmixed BusyAccounts OneRangeAtATime OneRequestAtATime PeekedDataStays
    ImageAccounted FrameAgreement WellStacked PrimsShare OwnedDisplays
PROPERTY Restores
CHECK_DEADLOCK FALSE
