SPECIFICATION FairSpec
CONSTANTS
    p1 = p1
    p2 = p2
    Workers = {w1, w2}
    Admins = {a1}
    Products = {p1, p2}
    StartInputs <- OneBroken
    Crons <- Once
    AdminKeys = {k1}
    MaxTime = 1
    MaxQueue = 1
    MaxManual = 1
    Faults = {"crash", "error"}
    MaxFaults = 1
    Changing = {p2, "schedule"}
CHECK_DEADLOCK FALSE
INVARIANTS OncePerSlot SuggestionHasItem FailureIsIsolated
PROPERTY EverySlotScanned
