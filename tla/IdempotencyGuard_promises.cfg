\* Each of these is violated: leave one uncommented.
SPECIFICATION Spec
CONSTANTS
    Requests = {r1, r2}
    Keys = {k1}
    Payloads = {a}
    Commands = {"decide", "close", "place"}
    MaxFaults = 1
CHECK_DEADLOCK FALSE
PROPERTY RepeatGetsResult
\* INVARIANT PlacedOncePerKey
