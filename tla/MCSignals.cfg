SPECIFICATION FairSpec
CONSTANTS
    NumProc = 2
    NumMules = 1
    Sig = {"s"}
    Receivers = {"", "workers", "active-workers", "worker1", "mule", "mules", "mule1"}
    Iterations = {2}
    Capacity = 1
    MaxTimers = 1
    MaxSends = 1
    MaxKills = 1
INVARIANTS OwnHandler 
PROPERTIES SignalsReach
