SPECIFICATION Spec
CONSTANTS
    Slots = {s1, s2}
    Permits = 2
    Validity = 1
    Retry = 2
    Interval = 3
    Backoff <- MCBackoff
    MaxFaults = 1
INVARIANTS
    NotEveryTunnel
