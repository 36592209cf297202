CONSTANTS
    Procs = {c1}
    Programs = {{c1}}
    Communicators = {}
    Silent = {c1}
    Noisy = {c1}
    Binary = {}
    Twice = {}
    Timed = {}
    Killed = {}
    Quitters = {}
    Daemons = {}
    MaxData = 0
    MaxErr = 1
    Cap = 1
    None = None
SPECIFICATION Spec
INVARIANT OutputComplete

CHECK_DEADLOCK FALSE
