SPECIFICATION Spec
CONSTANTS
    t1 = t1
    t2 = t2
    t3 = t3
    Threads = {t1, t2, t3}
    Entry = t1
    NoThread = NoThread
    Programs <- KillReadyPrograms
PROPERTY KillIsFinal
