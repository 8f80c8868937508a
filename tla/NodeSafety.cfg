SPECIFICATION NodeSpec
CONSTANTS
    MaxSockets = 3
    MaxBoots = 2
    MaxSeq = 2
    Absent = Absent
    Nodes = {"n1", "n2"}
    Ids = {"i1", "i2", "i3", "i4"}
    Handlers = {"h1", "h2"}
    MaxBytes = 1
    TrafficFaults = {"crash", "unreadable", "disk"}
    FewNodes = {"n1"}
    MoreBytes = 2
    Modes = {"native", "socks5", "residential", "warp_ipv4", "warp_dual"}
    Native = "native"
    Down = "down"
    MaxRevision = 2
    MoreRevisions = 2
    EgressFaults = {"crash", "crashMid", "reject", "restart", "expire", "data"}
    Settings <- MCSettings
    Stored <- MCStored
    Uuids = {1, 2, 3}
    Keys = {1, 2}
    Sids = {1, 2}
    Passwords = {1, 2}
    NewPorts = {}
    MaxFaults = 1
    BridgeNodes = {"a", "b", "c"}
    Curlable = {"c"}
    Priority = {"b"}
    Workers = {"w"}
    Ports = {"p1", "p2"}
    Speeds = {1, 2}
    TopN = 1
    TestLimit = 2
    MaxAge = 2
    Interval = 2
    BridgeFaults = {}
    LiteNodes = {"n1"}
    Countries = {"JP", "US"}
    Country <- MCCountry
    Tunnels = {"tunA", "tunB"}
    FirstTunnel = "tunA"
    Procs = {"p1", "p2"}
    Dials = {"d1", "d2"}
    Anywhere = "ANY"
    Start = {"ANY"}
    MaxSwitches = 1
    LiteFaults = {"exit", "probe"}
    SpareNodes = {"n1", "n2"}
    SpareCountry <- MCSpareCountry
    SpareProcs = {"p1", "p2", "p3"}
INVARIANTS
    AllTyped
    NothingFreshDropped
    BilledOnce
    NothingLost
    CloudFollowsAgent
    ReportedModeRuns
    FilesAgree
    ChainPublished
    TunnelsInOrder
PROPERTIES
    VerifiedWhenSaved
    UuidsKept
