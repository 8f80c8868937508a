SPECIFICATION Spec
CONSTANTS
    Slots = {s1, s2}
    Nodes = {n1}
    Workers = {w1, w2, w3}
    Users = {u1}
    Watchdog = wd
    Repaired = rp
    None = none
    Operations = {"redial"}
    FailureLimit = 1
    DialPermits = 2
    Stalls = {}
    Faults = {}
SYMMETRY Symmetry
INVARIANTS
    ReadyEntriesDistinct
CHECK_DEADLOCK FALSE
