SPECIFICATION ManagerSpec
CONSTANTS
    Slots = {s1, s2}
    Permits = 1
    Validity = 1
    Retry = 2
    Interval = 3
    Backoff <- MCBackoff
    MaxFaults = 2
    None = None
    Requests = {"r1", "r2"}
    Children = {"c1", "c2"}
    MaxVersion = 2
    Listeners = {"la", "lb"}
    Conns = {"c1", "c2", "c3"}
    MaxConnections = 1
    ListenerFaults = {"slow", "bind", "thread"}
    Nodes = {"n1", "n2"}
    Providers = {1, 2}
    Country <- MCCountry
    PoolSlots = {"s1"}
    Want <- MCWant
    Pings = {1}
    Blames = {0, 20}
    MaxPenalty = 30
    Cooldown = 2
    Fresh = 0
    Recent = 1
    History = 1
    Retention = 1
    AnyPings = {1, 9}
    AnyBlames = {0}
    MaxSlots = 4
    Counts = {2, 3, 4}
    Ports = {2, 3}
    Countries = {"KR", "ANY"}
    Allowed = {"JP", "KR", "US"}
    Template <- MCTemplate
    Columns = {"egress_status", "last_fetched_at"}
    Databases <- MCDatabases
    Clients = {"u1", "u2"}
    Memory <- MCMemory
    SlotCounts <- MCSlotCounts
    DialWorkers <- MCDialWorkers
    StartFaults = {"init"}
INVARIANTS
    AllTyped
    PermitsConserved
    RepairWakes
    OneForwarder
    RestartApplies
    ClientsAccounted
    CleanExit
PROPERTIES
    OutageKeepsTunnels
    PeersChosen
    RecordsSound
