\* One or two of everything that can race, and every limit one or two.
SPECIFICATION ServicesSpec
CONSTANTS
    Injectors = {i1}
    Capturers = {c1}
    QueueCapacity = 1
    MaxForwarded = 1
    Streams = {s1}
    MaxStarts = 2
    Punchers = {u, v}
    MaxPunches = 2
    PunchRetries = 2
    Attempts = {k1}
    RelayNodes = {u}
    RelayCapacity = 1
    MaxSwitches = 2
    Incidents = {e1}
    MaxRequests = 1
    Requests = {r1, r2}
    MaxRequested = 3
    Mobiles = {m1}
    Places = {a1}
    MaxSeq = 3
    MaxJump = 1
    ResyncBudget = 1
    ColdBudget = 1
    EpochLength = 1
    EpochNames = 3
    SyncInterval = 2
    MaxSecond = 2
    AnchorDebt = 1
    Calls = {g1, g2}
    Callers = {d1}
    Slots = 2
    Limit = 1
    MaxTicks = 5
    Gateways = {x1, x2}
    GatewayScores = {3, 4}
    MinObservation = 1
    MaxEgressTime = 2
    Members = {n1, n2}
    HeartbeatTimeout = 1
    RecoveryWindow = 2
    MaxClock = 6
    IDLen = 3
    Self <- MCSelf
    Known <- MCKnown
    KBucketSize = 2
    ReplacementCacheSize = 1
    MaxVersions = 2
    NodeCount = 7
    GridDim = 3
    HopFactor = 3
    MaxFailures = 1
    Partners = {n1}
    CourtesyBytes = 1
    CourtesyPackets = 1
    Amounts = {1, 3}
    MaxPackets = 3
    Reporters = {p1, p2}
    Signatures = {f1, f2}
    Deltas = {2}
    NoReporter = NoReporter
    MaxEvents = 3
    Principals = {"r", "u"}
    RootDID = "r"
    Offered <- MCOffered
    MaxLinks = 3
    MaxToday = 1
    BindingKeys = {k1, k2}
    Validators = {v1}
    Validity = 1
    Devices = {h1, h2, h3}
    Hosts = {a1}
    Ports = {80}
    FirstAddress = 10
    LastAddress = 11
    Forwards = {s1}
    Resolvers = {g1, g2}
    HostNames = {a1, a2}
    MaxDNSCacheEntries = 1
    CacheTTL = 2
    MaxDNSClock = 3
    Tags = {p1, p2, p3}
    MaxCacheSize = 2
    TagLife = 2
    MaxOnionClock = 4
    MaxStartsOfPadding = 2
    Receivers = {g1, g2}
    TagLengths = {1, 2, 3}
    PayloadLengths = {0}
    LengthBase = 2
    ContainerMTU = 10
INVARIANTS
    ServicesTypeOK
    CountersAgree
    
    TablesAgree
    ReportsAreTrue
PROPERTIES
    EarnedStandingLasts
    EverythingEnds
CHECK_DEADLOCK FALSE
