SPECIFICATION LoadingSpec
CONSTANTS
    NumProc = 3
    CheaperCount = 0
    NeedApp = FALSE
    Idle = FALSE
    Recycle = FALSE
    FifoCommands = {"chain"}
    UnixCommands = {}
    MaxCommands = 1
    MaxFaults = 0
PROPERTIES ChainOneAtATime ChainEnds
