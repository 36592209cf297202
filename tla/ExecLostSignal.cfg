CONSTANTS
    Procs = {w1}
    Programs = {{w1}}
    Communicators = {}
    Silent = {}
    Noisy = {}
    Binary = {}
    Twice = {}
    Timed = {}
    Killed = {}
    Quitters = {}
    Daemons = {}
    MaxData = 0
    MaxErr = 0
    Cap = 1
    None = None
SPECIFICATION FairSpec
PROPERTY WaitReturns

CHECK_DEADLOCK FALSE
