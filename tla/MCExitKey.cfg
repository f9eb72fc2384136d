SPECIFICATION Spec
CONSTANTS
    Buffers = {1, 2}
    MaxOther = 0
INVARIANT KeyFreshAtExit
CHECK_DEADLOCK FALSE
