SPECIFICATION ESpec
CONSTANTS
    CodeBlocks <- MCCodeBlocks
    VarTypes <- MCVarTypes
    Numbers = {"1", "2"}
INVARIANT CodeByTable
CHECK_DEADLOCK FALSE
