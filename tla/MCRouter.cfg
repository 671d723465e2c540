SPECIFICATION Spec
CONSTANTS
    Key = {"k"}
    Addr = {"a1", "a2"}
    Vassal = {"v"}
    Node = {1, 2}
    Weight <- Weights
    Level <- Flat
    Session = {s1, s2}
    Algos = {"wrr", "lrc", "wlrc", "iphash"}
    MaxRetries = 2
    MaxRequests = 3
    MaxNews = 3
SYMMETRY Sym
INVARIANTS ReferencesCounted
PROPERTIES TurnedAway LeastReferences
CHECK_DEADLOCK FALSE
