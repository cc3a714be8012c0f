CONSTANTS
    MaxAttempts = 2
    MaxData = 2
    MaxTxRestarts = 1
    MaxRxRestarts = 1
SPECIFICATION Spec
INVARIANTS OpenedOnce 
PROPERTY NumbersHandledOnce
CHECK_DEADLOCK FALSE
