SPECIFICATION TexSpec
CONSTANTS
    NTasks = 2
    MaxN = 2
    Names = {t1, t2}
    Broken = {}
    Missing = {t2}
    MaxLookups = 1
    Idle = none
INVARIANT TextureFound
CHECK_DEADLOCK FALSE
