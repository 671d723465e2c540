SPECIFICATION Spec
CONSTANTS
    NumProc = 2
    CheaperCount = 1
    NeedApp = TRUE
    Idle = TRUE
    Recycle = TRUE
    FifoCommands = {"chain", "workers_brutal", "graceful_kill", "go_cheap"}
    UnixCommands = {"brutal_reload"}
    MaxCommands = 1
    MaxFaults = 1
INVARIANTS TypeOK NoOrphans SlotInv
PROPERTIES OneProcessPerSlot ChainReplacesAll
