SPECIFICATION Spec
CONSTANTS
    p1 = p1
    p2 = p2
    Workers = {w1}
    Admins = {}
    Products = {p1, p2}
    StartInputs <- OneBroken
    Crons <- Once
    AdminKeys = {k1}
    MaxTime = 1
    MaxQueue = 1
    MaxManual = 1
    Faults = {}
    MaxFaults = 1
    Changing = {}
CHECK_DEADLOCK FALSE
INVARIANT ScannedWhenDue
