SPECIFICATION FairSpec
CONSTANTS
    Task = {t1}
    Spooler = {s1, s2}
    MaxTasks = 2
    CheapModes = {FALSE, TRUE}
    MaxFaults = 2
INVARIANTS OneRunner DoneOnce WholeTask
PROPERTIES SpooledRuns
