SPECIFICATION Spec
CONSTANTS
    MaxSlots = 4
    Counts = {2, 3, 4}
    Ports = {3}
    Countries = {"KR"}
    Allowed = {"JP", "KR", "US"}
    Template <- MCTemplate
    Columns = {"egress_status"}
    Databases <- MCDatabases
    Clients = {u1}
    None = None
PROPERTIES
    BeginsWithFirst
