\* Each of these is violated: leave one uncommented.
SPECIFICATION Spec
CONSTANTS
    Pages = {p}
    Strangers = {}
    Turns <- TwoTurns
    Backends = {"memory", "redis"}
    Nodes = 1
    KeptTurns = 2
    KeptEvents = 3
    MaxRequests = 4
    Faults = {"cut", "abort"}
    MaxFaults = 2
CHECK_DEADLOCK FALSE
INVARIANT EveryPathEndsWithDone
\* INVARIANT AnswersOwnTurn
\* INVARIANT DoneEnds
\* INVARIANT BrokenIsResumed
