SPECIFICATION FairSpec
CONSTANTS
    NumProc = 2
    CheaperCount = 0
    NeedApp = FALSE
    Idle = FALSE
    Recycle = FALSE
    FifoCommands = {"reload", "kill", "workers_reload"}
    UnixCommands = {}
    MaxCommands = 2
    MaxFaults = 1
PROPERTIES ShutdownEnds ReloadEnds WorkerComesBack
