SPECIFICATION Spec
CONSTANTS
    Settings <- MCOne
    Stored <- MCNothing
    Uuids = {1, 2, 3}
    Keys = {1, 2}
    Sids = {1, 2}
    Passwords = {1, 2}
    Ports = {7922}
    MaxFaults = 0
INVARIANTS
    ReachesOwnExit
