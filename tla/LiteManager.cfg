\* As it stands this checks MainDials. The two others:
\*   EndNoticed     with MaxSwitches = 0 and Faults = {"exit"}
\*   DistinctNodes  (an invariant) with Faults = {}
SPECIFICATION FairSpec
CONSTANTS
    n1 = n1  n2 = n2
    p1 = p1  p2 = p2  p3 = p3
    d1 = d1  d2 = d2
    jp = jp  us = us
    Nodes = {n1, n2}
    Countries = {jp, us}
    Country <- MCCountry
    Tunnels = {tunA, tunB}
    First = tunA
    Procs = {p1, p2, p3}
    Dials = {d1, d2}
    Anywhere = anywhere
    None = none
    Start = {anywhere}
    MaxSwitches = 1
    Faults = {"probe"}
PROPERTIES
    MainDials
