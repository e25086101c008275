SPECIFICATION Spec
CONSTANTS
    Pages = {p}
    Strangers = {s}
    Turns <- TwoTurns
    Backends = {"memory", "redis"}
    Nodes = 1
    KeptTurns = 1
    KeptEvents = 3
    MaxRequests = 3
    Faults = {"cut", "abort", "error", "restart", "expire"}
    MaxFaults = 2
CHECK_DEADLOCK FALSE
INVARIANTS TypeOK IInv DoneInv MessageInv ForeignStaysHidden NothingSkipped DoneIsLast OneTurnPerMessage NoPartPassesForWhole
