SPECIFICATION FairSpec
CONSTANTS
    Pages = {p}
    Strangers = {s}
    Turns <- TwoTurns
    Backends = {"memory", "redis"}
    Nodes = 1
    KeptTurns = 1
    KeptEvents = 3
    MaxRequests = 4
    Faults = {"cut", "abort", "error", "restart", "expire"}
    MaxFaults = 1
CHECK_DEADLOCK FALSE
INVARIANTS ForeignStaysHidden NothingSkipped NoPartPassesForWhole
PROPERTY NeverWaitsForever
