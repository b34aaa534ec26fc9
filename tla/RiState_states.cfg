CONSTANTS
    Vals = {v1, v2}
    Identity = v1
    Displays = {}
    FallBack = FALSE
    Blocks = {"WORLD", "ATTRIBUTE"}
    RiFaults = {}
    MaxModes = 4
    MaxRev = 2
    MaxPrims = 2
SPECIFICATION RiSpec
INVARIANT PrimStates
CHECK_DEADLOCK FALSE
