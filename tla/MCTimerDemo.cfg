SPECIFICATION FairSpec
CONSTANT MaxTicks = 7
INVARIANTS
    NoCallbackIntoDeadFrame
    EventReleased
    FiveTicksSeen
    CriticalSectionUninterrupted
PROPERTIES
    NoNotificationStarves
    DemosEnd
