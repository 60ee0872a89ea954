SPECIFICATION Spec
CONSTANTS
    ConnectTimeout = 2
    ReadTimeout = 3
    Lateness = 1
    MaxChunks = 3
INVARIANTS
    ExactlyOneGuard
    ErrorIsHeard
    TimeoutMeansSilence
PROPERTY EveryCallEnds
CHECK_DEADLOCK FALSE
