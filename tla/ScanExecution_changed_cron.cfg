SPECIFICATION FairSpec
CONSTANTS
    p1 = p1
    p2 = p2
    Workers = {w1}
    Admins = {}
    Products = {p1, p2}
    StartInputs <- OneBroken
    Crons <- SparseAndDense
    AdminKeys = {k1}
    MaxTime = 3
    MaxQueue = 1
    MaxManual = 1
    Faults = {}
    MaxFaults = 1
    Changing = {"schedule"}
CHECK_DEADLOCK FALSE
PROPERTY ChangeIsFollowed
