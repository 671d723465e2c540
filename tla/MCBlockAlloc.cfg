SPECIFICATION Spec
CONSTANTS
    Item = {i1, i2, i3}
    Blocks = 12
    Needed = {1, 3, 5}
INVARIANTS BitsExact Disjoint ScanExact
SYMMETRY ItemSymmetry
