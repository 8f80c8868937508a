SPECIFICATION Spec
CONSTANTS
    Settings <- MCOne
    Stored <- MCStored
    Uuids = {1, 2, 3}
    Keys = {1, 2}
    Sids = {1, 2}
    Passwords = {1, 2}
    Ports = {}
    MaxFaults = 0
PROPERTIES
    LinksPreserved
