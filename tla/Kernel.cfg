SPECIFICATION FairSpec
CONSTANTS
    t1 = t1
    t2 = t2
    t3 = t3
    Threads = {t1, t2, t3}
    Entry = t1
    NoThread = NoThread
    Programs <- KernelPrograms
CHECK_DEADLOCK FALSE
INVARIANTS
    NoLostThread
    NoInternalError
PROPERTIES
    WaitAllComplete
    EndedStaysEnded
    RunnableRuns
    DeadlockDetected
    TimerReturns
