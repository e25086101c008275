SPECIFICATION Spec
CONSTANTS
    Worlds <- AllWorlds
    Window = 2
    Scale = 100
    MaxQty = 20
    MaxOnHand = 12
    Windows = {2, 3}
    Kinds = {"draft", "scan"}
    Changes = {"receive", "place", "cancel"}
    MaxChanges = 2
CHECK_DEADLOCK FALSE
INVARIANTS TypeOK IInv
