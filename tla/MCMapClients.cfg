SPECIFICATION Spec
CONSTANTS
    Buffers = {1, 2}
    MaxOther = 2
INVARIANTS
    QuietReadSucceeds
    WalksTheMap
    KeyFreshWhileHeld
    BufferReturned
CHECK_DEADLOCK FALSE
