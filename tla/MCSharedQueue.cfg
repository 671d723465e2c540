SPECIFICATION Spec
CONSTANTS
    Proc = {p1, p2}
    Msg = {m1, m2, m3}
    QueueSize = 2
    NoMsg = NoMsg
    NoProc = NoProc
SYMMETRY Symmetry
INVARIANTS   Fifo
