SPECIFICATION FairSpec
CONSTANTS
    Answers <- MCAnswers
    Confs <- MCConfs
    QLen = 2
    MaxQueue = 2
    QIds = {1, 2, 3, 4, 5, 6, 7, 8, 9, 10, 11, 12}
    MaxDepth = 3
    GlueRoom = 3
    HostsRoom = 2
    MaxTries = 5
CHECK_DEADLOCK FALSE
INVARIANTS
    AnswerOwn
    GivesUpAfterAll
    FailsOnlyLate
    EndsInTime
PROPERTIES
    EveryNsTried
    QueryEnds
