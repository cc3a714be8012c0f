\* Any three commands: two daemons and an administrator, a daemon and two administrators, and so
\* on. A count that another process left at the limit, and one below it, are both met. Two updates
\* of one process, or one of each of two, with two failing calls.
SPECIFICATION MaintenanceSpec
CONSTANTS
    MaxProcesses = 3
    MaxFallos = 1
    MaxVersion = 3
    MaxApplies = 3
    MaxFaults = 2
    MaxCrashes = 3
INVARIANTS
    Exclusion
    GivesUp
    UpdateCanBeUndone
PROPERTIES
    StopEnds
    NeverOlder
CHECK_DEADLOCK FALSE
