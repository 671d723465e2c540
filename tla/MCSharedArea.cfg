SPECIFICATION Spec
CONSTANTS
    Proc = {p1, p2, p3}
    Modulus = 3
    MaxUpdates = 2
    MaxFaults = 2
SYMMETRY Symmetry
INVARIANTS Exclusion AreaConsistent 
CHECK_DEADLOCK FALSE
