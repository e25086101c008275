\* Each of these is violated: leave one uncommented.
SPECIFICATION Spec
CONSTANTS
    p1 = p1
    p2 = p2
    Workers = {w1}
    Admins = {a1}
    Products = {p1, p2}
    StartInputs <- OneBroken
    Crons <- Once
    AdminKeys = {k1}
    MaxTime = 1
    MaxQueue = 1
    MaxManual = 2
    Faults = {}
    MaxFaults = 1
    Changing = {}
CHECK_DEADLOCK FALSE
INVARIANT OncePerKey
\* INVARIANT FailedIsAlerted
