CONSTANTS
    MaxAttempts = 2
    MaxData = 2
    MaxTxRestarts = 1
    MaxRxRestarts = 0
SPECIFICATION Spec
INVARIANTS HandshakeInitOnce
CHECK_DEADLOCK FALSE
