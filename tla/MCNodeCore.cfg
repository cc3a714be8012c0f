\* Two workers share two buffers; two subscribers and one component; a window of six in three
\* words of two bits; three overlapping attempts of two nodes and a restart of each.
SPECIFICATION CoreSpec
CONSTANTS
    Workers = {w1, w2}
    Buffers = {b1, b2}
    Origins = {o1}
    Sizes = {1, 3}
    NoBuffer = NoBuffer
    MaxRetained = 1
    MaxHistory = 2
    Components = {c1}
    Subscribers = {s1, s2}
    Self = self
    Capacity = 1
    MaxChannels = 2
    Senders = {p1}
    Burst = 4
    Rate = 1
    Lifetime = 2
    Lengths = {1, 3}
    MaxTime = 4
    MaxChallenges = 2
    SeqNo <- MCSeqNo
    Words = 3
    WordBits = 2
    a = a
    b = b
    Node = {a, b}
    Allowed <- MCAllowed
    HandshakeLifetime = 1
    MaxHandshakes = 3
    MaxRestarts = 1
    MaxNow = 2
    Pushers = {g1, g2, g3}
    MaxBatch = 2
    MaxPushed = 4
    Limit <- MCLimit
    TotalLimit = 8
    UnknownNames = {"spare"}
    Amounts = {1, 2, 3}
    Sealers = {g1, g2}
    MaxPackets = 2
    KeyLifetime = 2
    Grace = 1
    MaxEpoch = 3
    MaxAge = 2
    MaxSealed = 5
    Guests = {g1, g2}
    NumBuckets = 1
    CookieBurst = 1
    ProofBurst = 1
    CookieEpoch = 1
    MaxSeconds = 2
    MaxCalls = 4
INVARIANTS
    CoreTypeOK
    BuffersHaveHolders
    AdmissionIsRationed
    RegistersAreHonest
    WindowIsExact
    KeyConfirmed
    NothingCountedTwice
PROPERTIES
    StepsAreLegal
    ImplementsPromises
SYMMETRY CoreSymmetry
CHECK_DEADLOCK FALSE
