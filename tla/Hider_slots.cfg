SPECIFICATION HSpec
CONSTANTS
    BucketSize = 3
    Settings <- MCSettings
    Bounds <- MCBounds
    UvDim = 8
    MaxSplit = 2
    MaxParts = 1
    MaxObjs = 5
    MaxInserts = 2
    MaxWorlds = 2
INVARIANT SlotFound
CHECK_DEADLOCK FALSE
