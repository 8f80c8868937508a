\* As it stands this checks ChainPublished, with an interval above the validity.
\* The other one:
\*   ReachedItself  with Interval = 2 and Workers = {w1, w2}
SPECIFICATION Spec
CONSTANTS
    Nodes = {a, b, c}
    Curlable = {c}
    Priority = {b}
    Workers = {w1}
    Ports = {p1, p2}
    Speeds = {}
    TopN = 1
    TestLimit = 2
    MaxAge = 3
    Interval = 5
    Faults = {}
    None = None
INVARIANTS
    ChainPublished
