\* A daemon and one administrator.
CONSTANTS
    MaxProcesses = 2
    MaxFallos = 2
SPECIFICATION Spec
INVARIANTS PauseIsHot
CHECK_DEADLOCK FALSE
