SPECIFICATION Spec
CONSTANTS
    Numbers = {1, 2}
    Sizes = {0, 6, 10, 14}
    MaxOptions = 2
    MaxOrder = 1
    MaxWrites = 0
INVARIANT TextModeWithoutGraphics
CHECK_DEADLOCK FALSE
