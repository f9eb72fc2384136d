SPECIFICATION Spec
CONSTANTS
    Chars = {"a", "b"}
    LineLimit = 3
    MaxKeys = 6
INVARIANT LineIsWhatWasTyped
CHECK_DEADLOCK FALSE
