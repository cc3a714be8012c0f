\* Three sessions of one origin for two trackers, numbers that leave a gap and
\* overrun the window, the clock running past the freshness horizon, and two
\* goroutines evaluating duplicates of the same packet.
CONSTANTS
    Worker = {w1, w2}
    Origin = {o1}
    SessionID = {0, 1, 2}
    SeqNo = {0, 1, 3}
    WindowSize = 2
    MaxJitter = 1
    MaxSkew = 0
    TrackerQuota = 2
    MaxNow = 2
SPECIFICATION Spec
INVARIANTS DeliveredOnce WindowExact
PROPERTIES StreamsAreWindows NoLateOldSession
