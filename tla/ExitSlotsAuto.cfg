SPECIFICATION FairSpec
CONSTANTS
    Slots = {s1}
    Nodes = {n1}
    Workers = {w1, w2}
    Users = {}
    Watchdog = wd
    Repaired = rp
    None = none
    Operations = {}
    FailureLimit = 2
    DialPermits = 1
    Stalls <- Slow
    Faults = {"process", "listener"}
PROPERTIES
    EventuallyAttended
    StaleWorkersEnd
    AutoDisabledRevived
INVARIANTS
    TypeOK
    ReservationHeld
    PublishedFailClosed
    NoLostProcess
CHECK_DEADLOCK FALSE
