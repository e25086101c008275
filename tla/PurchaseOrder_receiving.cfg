SPECIFICATION Spec
CONSTANTS
    l1 = l1
    l2 = l2
    l3 = l3
    Handlers = {h1}
    Workers = {w1, w2}
    Lines = {l1, l2, l3}
    OrderQty <- ThreeLineQty
    Events = {e1, e2, e3}
    MaxAttempts = 1
    Overlap = TRUE
INVARIANTS
    ReceivedOnlyInFull
    StockConserved
    RecoveryKeyExclusive
CHECK_DEADLOCK FALSE
