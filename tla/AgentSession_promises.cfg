\* Each of these is violated: leave one uncommented.
SPECIFICATION Spec
CONSTANTS
    Plans = {p1, p2}
    Scopes = {s1}
    Threads = {t1}
    Clients = {c1}
    Workers = {w1}
    Inputs <- AllInputs
    DuplicateLimit = 2
    MaxSteps = 5
    MaxTurns = 2
    Batch = 1
    Faults = {"error"}
    MaxFaults = 1
    Overlap = FALSE
CHECK_DEADLOCK FALSE
INVARIANT ResumeNeverDrafts
\* INVARIANT ExplainedAsDecided
\* INVARIANT ReportsMeanWaiting
