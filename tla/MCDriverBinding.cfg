SPECIFICATION FairSpec
CONSTANTS
    Images = {i1, i2}
    Controllers = {c1, c2}
    MaxLevel = 2
    MaxCalls = 4
INVARIANTS
    OpenIffManagedOrProbed
    ManagedIsPresent
PROPERTIES
    ImplementsOwnership
    CallsReturn
CHECK_DEADLOCK FALSE
