\* Each of these is violated: leave one uncommented.
SPECIFICATION Spec
CONSTANTS
    Worlds <- PromiseWorlds
    Window = 2
    Scale = 100
    MaxQty = 20
    MaxOnHand = 12
    Windows = {2, 3}
    Kinds = {"draft"}
    Changes = {}
    MaxChanges = 0
CHECK_DEADLOCK FALSE
INVARIANT CheapestIsChosen
\* INVARIANT NoPackTooMany
\* INVARIANT ForecastIsCurrent
