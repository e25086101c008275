SPECIFICATION Spec
CONSTANTS
    Requests = {r1, r2, r3}
    Keys = {k1, k2}
    Payloads = {a, b}
    Commands = {"draft", "create", "decide", "close", "import", "place"}
    MaxFaults = 2
SYMMETRY Interchangeable
CHECK_DEADLOCK FALSE
INVARIANTS IInv OneCallPerKey
