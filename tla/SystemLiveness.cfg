SPECIFICATION SystemSpec
CONSTANTS
    MaxRefusals = 3
    MaxStops = 3
    Absent = Absent
INVARIANTS
    ClosedWhileOpen
PROPERTIES
    Converges
    PaceSettles
    EveryByteBilled
    DeadExitLeft
    MainDials
    AllUp
