\* A pass that is cut off between the new file and the restart.
SPECIFICATION Spec
CONSTANTS
    Modes = {"native", "residential", "warp_ipv4", "warp_dual"}
    Native = "native"
    Down = "down"
    None = None
    MaxRevision = 2
    Faults = {"crash", "crashMid"}
PROPERTIES
    SavedModeRuns
