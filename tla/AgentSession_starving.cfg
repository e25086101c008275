SPECIFICATION FairSpec
CONSTANTS
    Plans = {p1, p2}
    Scopes = {s1, s2}
    Threads = {t1, t2}
    Clients = {c1}
    Workers = {w1}
    Inputs <- PoisonInputs
    DuplicateLimit = 2
    MaxSteps = 5
    MaxTurns = 2
    Batch = 1
    Faults = {}
    MaxFaults = 1
    Overlap = FALSE
CHECK_DEADLOCK FALSE
PROPERTY DecisionEndsWait
