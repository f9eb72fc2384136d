SPECIFICATION Spec
CONSTANTS
    Numbers = {1, 2}
    Sizes = {0, 6, 10, 14}
    MaxOptions = 2
    MaxOrder = 3
    MaxWrites = 1
INVARIANTS
    SelectionInRange
    ReadsInsideBuffer
    ListFollowsOrder
    DescriptionWasRead
    BuffersFreed
    BootNextIsHighlighted
CHECK_DEADLOCK FALSE
