\* One goroutine asks for the summary while the other records.
CONSTANTS
    Reporters = {p1, p2}
    Signatures = {f1}
    Deltas = {2}
    NoReporter = NoReporter
    MaxEvents = 3
SPECIFICATION TableSpec
PROPERTIES RecordingEnds
CHECK_DEADLOCK FALSE
