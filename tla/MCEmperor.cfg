CONSTANTS
    Name = {1, 2}
    Pid = {1, 2, 3}
    Kinds <- MCKinds
    StopHook = FALSE
    MaxFaults = 1
    MaxChanges = 1
SPECIFICATION FairSpec
INVARIANTS
    OneInstance
PROPERTIES
    RemovedStops
    VassalRecovers
CHECK_DEADLOCK FALSE
