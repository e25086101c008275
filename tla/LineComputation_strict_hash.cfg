\* Violated for a scan, and for a draft with Kinds = {"draft"} and
\* Changes = {"cancel"}; with Kinds = {"draft"} and Changes = {"receive", "place"}
\* it holds, for Worlds <- AllWorlds too.
SPECIFICATION Spec
CONSTANTS
    Worlds <- PlainWorld
    Window = 2
    Scale = 100
    MaxQty = 20
    MaxOnHand = 12
    Windows = {2, 3}
    Kinds = {"scan"}
    Changes = {"receive", "place"}
    MaxChanges = 2
CHECK_DEADLOCK FALSE
INVARIANT HashAlwaysVouches
