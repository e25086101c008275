SPECIFICATION Spec
CONSTANTS
    p1 = p1
    p2 = p2
    Workers = {w1, w2}
    Admins = {}
    Products = {p1, p2}
    StartInputs <- AnyInputs
    Crons <- Twice
    AdminKeys = {k1}
    MaxTime = 2
    MaxQueue = 1
    MaxManual = 1
    Faults = {"crash", "error"}
    MaxFaults = 1
    Changing = {}
CHECK_DEADLOCK FALSE
INVARIANT IInv
