SPECIFICATION Spec
CONSTANTS
    Requests = {r1}
    Children = {c1}
    None = none
    MaxVersion = 1
INVARIANTS
    ReportsRealState
