SPECIFICATION Spec
CONSTANTS
    Names <- VariableNames
    LongNames = {"LongName"}
    CountLimit = 2
    MaxWrites = 1
    Devices = 2
    ShownDevices = 1
    MaxSwaps = 2
    Resolutions <- Screens
    MaxMode = 2
    Word = 65536
    Interfaces = 2
INVARIANTS
    TypeOK
    NothingLeftInPool
    WalkIsComplete
    StoreAsFound
    VerdictIsOfOneMedium
    DrawnOnScreen
    BoxesApart
PROPERTY
    ProgramsEnd
CHECK_DEADLOCK FALSE
