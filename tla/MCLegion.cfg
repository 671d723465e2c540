SPECIFICATION Spec
CONSTANTS
    Node = {1, 2, 3}
    Valor <- ValorOf
    Quorum = 2
    HooksMayFail = TRUE
    MaxEvents = 1
INVARIANTS  StuckOnlyWhenSettled
