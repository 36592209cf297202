SPECIFICATION FairSpec
CONSTANTS
    NFds = 4
    NConns = 3
    Cap = 2
    Backlog = 1
    NThreads = 3
    NSocks = 5
    ZHwm = 1
    Confs <- MCConfs
CHECK_DEADLOCK FALSE
INVARIANTS
    ObjectsOwn
    StreamsIntact
    EofMeansAll
    PadsIntact
    ZmqWakes
PROPERTIES
    CallsEnd
