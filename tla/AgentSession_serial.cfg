SPECIFICATION FairSpec
CONSTANTS
    Plans = {p1, p2}
    Scopes = {s1}
    Threads = {t1}
    Clients = {c1}
    Workers = {w1}
    Inputs <- AllInputs
    DuplicateLimit = 1
    MaxSteps = 5
    MaxTurns = 3
    Batch = 1
    Faults = {"error", "crash", "lost"}
    MaxFaults = 1
    Overlap = FALSE
CHECK_DEADLOCK FALSE
INVARIANTS DraftCallsBounded BlockedOnlyByRepetition LiveInterruptMeansWaiting
PROPERTY DecisionEndsWait
