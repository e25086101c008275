SPECIFICATION Spec
CONSTANTS
    l1 = l1
    l2 = l2
    l3 = l3
    Handlers = {h1, h2}
    Workers = {w1}
    Lines = {l1}
    OrderQty <- OneLineQty
    Events = {e1}
    MaxAttempts = 2
    Overlap = TRUE
SYMMETRY HandlerSymmetry
INVARIANTS
    StaleReadsSound
    TypeOK
    AttemptOnRecordBeforeCall
    AttemptEvidenceSound
    OrderedHasExternalOrder
CHECK_DEADLOCK FALSE
