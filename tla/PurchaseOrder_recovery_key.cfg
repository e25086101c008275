SPECIFICATION FairSpec
CONSTANTS
    l1 = l1
    l2 = l2
    l3 = l3
    Handlers = {h1, h2}
    Workers = {w1}
    Lines = {l1}
    OrderQty <- OneLineQty
    Events = {}
    MaxAttempts = 2
    Overlap = TRUE
CONSTRAINT EarlyVersions
PROPERTIES
    UnknownIsSettled
CHECK_DEADLOCK FALSE
