SPECIFICATION Spec
CONSTANTS
    DictSize = 3
    Scenarios <- MCScenarios
    Shuffle16 <- MCShuffle
    ShuffleSeeds <- MCShuffleSeeds
    Ranges <- MCRanges
    RoundKeys <- MCKeys
    F <- MCF
    BitXor <- MCXor
    MaxSteps = 34
    HalfBits = 2
    Boxes <- MCBoxes
    Hostnames <- MCHostnames
    Files <- MCFiles
    MaxFiles = 2
    HostsRoom = 3
    MaxHints = 16
    Seeds <- MCSeeds
    Calls <- MCCalls
    RRs <- MCRRs
CHECK_DEADLOCK FALSE
INVARIANTS
    ReadsBack
    AnswersCombined
    QidsDistinct
    
    HostsBothWays
    AnswersGiven
