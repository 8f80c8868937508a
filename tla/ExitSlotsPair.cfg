SPECIFICATION Spec
CONSTANTS
    Slots = {s1, s2}
    Nodes = {n1, n2}
    Workers = {w1, w2}
    Users = {}
    Watchdog = wd
    Repaired = rp
    None = none
    Operations = {}
    FailureLimit = 1
    DialPermits = 1
    Stalls <- Slow
    Faults = {}
SYMMETRY Symmetry
INVARIANTS
    DistinctEntries
    DialPermitsBalanced
CHECK_DEADLOCK FALSE
