SPECIFICATION ProtocolSpec
CONSTANTS
    MaxRuns = 3
    Values = {7}
INVARIANTS
    OutlivesOnlyIfRefused
    LocatesOwn
CHECK_DEADLOCK FALSE
