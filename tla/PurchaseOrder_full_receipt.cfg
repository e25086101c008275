SPECIFICATION Spec
CONSTANTS
    l1 = l1
    l2 = l2
    l3 = l3
    Handlers = {h1, h2}
    Workers = {w1}
    Lines = {l1, l2, l3}
    OrderQty <- ThreeLineQty
    Events = {e1, e2, e3}
    MaxAttempts = 3
    Overlap = FALSE
INVARIANTS
    IInv
    StockConserved
    SerialInv
CHECK_DEADLOCK FALSE
