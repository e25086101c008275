\* Each of these is violated: leave one uncommented.
SPECIFICATION Spec
CONSTANTS
    l1 = l1
    l2 = l2
    l3 = l3
    Handlers = {h1, h2}
    Workers = {}
    Lines = {l1}
    OrderQty <- OneLineQty
    Events = {e1}
    MaxAttempts = 2
    Overlap = TRUE
CHECK_DEADLOCK FALSE
PROPERTY NewKeyOnlyAfterSettled
\* PROPERTY LegalTransitions
\* INVARIANT CancelledIsNotOrdered
\* INVARIANT FullyReceivedIsReceived
\* INVARIANT AtMostOneExternalOrder
