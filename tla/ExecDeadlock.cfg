CONSTANTS
    Procs = {c1}
    Programs = {{c1}}
    Communicators = {c1}
    Silent = {}
    Noisy = {}
    Binary = {}
    Twice = {}
    Timed = {}
    Killed = {}
    Quitters = {}
    Daemons = {}
    MaxData = 4
    MaxErr = 0
    Cap = 1
    None = None
SPECIFICATION FairSpec
PROPERTY CommunicateFinishes

CHECK_DEADLOCK FALSE
