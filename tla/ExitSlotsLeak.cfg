SPECIFICATION Spec
CONSTANTS
    Slots = {s1}
    Nodes = {n1}
    Workers = {w1, w2}
    Users = {u1}
    Watchdog = wd
    Repaired = rp
    None = none
    Operations = {"disable"}
    FailureLimit = 1
    DialPermits = 1
    Stalls <- Slow
    Faults = {}
SYMMETRY Symmetry
INVARIANTS
    QuietFailClosed
CHECK_DEADLOCK FALSE
