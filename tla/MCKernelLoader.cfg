SPECIFICATION Spec
CONSTANTS
    PageSize = 2
    MaxSize = 5
INVARIANTS
    NothingLeftOpen
    PagesFollowStatus
    ReadFitsPages
    SizeIsWhatWasRead
CHECK_DEADLOCK FALSE
