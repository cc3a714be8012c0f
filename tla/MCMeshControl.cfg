SPECIFICATION MeshSpec
CONSTANTS
    LocalDID = "self"
    KeyOf <- MCKeyOf
    KeyBits = 6
    NumRings = 2
    Alpha = 35
    Addresses <- MCAddresses
    Peers <- Crowd
    PeersPerRing = 2
    MaxTotalPeers = 2
    Homes <- MCHomes
    MinPeerTripThreshold = 2
    Hours = 1
    Trusted <- MCTrusted
    Beacons <- MCBeacons
    Measures <- MCMeasures
    MaxConsecutiveLosses = 2
    RecoverySuccesses = 2
    DegradedLatency = 0
    FlapWindow = 1
    PenaltyStep = 1
    PenaltyMax = 1
    MaxRTT = 1
    MaxInFlight = 1
    Nodes <- MCNodes
    Strangers = {"p4"}
    Pessimists = {"p1"}
    MaxPackets = 2
INVARIANTS
    MeshTypeOK
    PeerTableHolds
    PurgedUpToFailures
    TrustIsExplicit
    HoldDownHolds
    CountsAgree
    LocatorsChain
PROPERTIES
    GoodPeersYieldLast
    IsolationEndsSilence
    NumberedPacketsEnd
CHECK_DEADLOCK FALSE
