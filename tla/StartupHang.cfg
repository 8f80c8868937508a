SPECIFICATION FairSpec
CONSTANTS
    Memory = {0, 2, 4, 6}
    SlotCounts = {0}
    DialWorkers = {0}
    Faults = {"init"}
PROPERTIES
    ShutdownReturns
CHECK_DEADLOCK FALSE
