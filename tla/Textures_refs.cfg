SPECIFICATION TexSpec
CONSTANTS
    NTasks = 2
    MaxN = 2
    Names = {t1}
    Broken = {}
    Missing = {}
    MaxLookups = 1
    Idle = none
INVARIANT SubRefAsserts
CHECK_DEADLOCK FALSE
