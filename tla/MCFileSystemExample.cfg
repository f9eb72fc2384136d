SPECIFICATION Spec
CONSTANTS
    ContentSize = 2
    ReadLimit = 3
    MaxSize = 4
    RootFiles = 2
    MaxResets = 2
INVARIANTS
    NothingLeftOpen
    ReadsBackWhatWasWritten
    FlushedWriteSurvives
CHECK_DEADLOCK FALSE
