SPECIFICATION Spec
CONSTANTS
    Slots = {s1}
    Permits = 1
    Validity = 1
    Retry = 2
    Interval = 3
    Backoff <- MCBackoff
    MaxFaults = 2
INVARIANTS
    ReadyVerified
