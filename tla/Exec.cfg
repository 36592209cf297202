CONSTANTS
    Procs = {c1, c2, c3, w1, w2, w3}
    Programs = {{c1, c2}, {c3}, {w1, w2, w3}, {c1, w2}}
    Communicators = {c1, c2, c3}
    Silent = {}
    Noisy = {c1, c3}
    Binary = {c3}
    Twice = {w3}
    Timed = {w1, w2}
    Killed = {c2, w1}
    Quitters = {c2}
    Daemons = {w2}
    MaxData = 4
    MaxErr = 1
    Cap = 1
    None = None
SPECIFICATION FairSpec
CHECK_DEADLOCK FALSE
INVARIANTS
    OutputComplete
    InputComplete
    StatusOwn
PROPERTIES
    CommunicateEnds
    TimedWaitEnds
    SignalWakes
