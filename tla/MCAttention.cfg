SPECIFICATION Spec
CONSTANTS
    Sessions = {"s", "t"}
    Initial = {"s", "none"}
    Local = TRUE
    None = "none"
    MaxOps = 2
    MaxDrops = 1
    Requests = {"q", "p"}
    Owner <- MCOwner
    Parts <- MCParts
    Options <- MCOptions
    Policies = {0, 3}
    MaxMade <- MCMade
CHECK_DEADLOCK FALSE

INVARIANTS
    TypeOK

PROPERTIES
    ActsOnTheNewest
    AutoAckRests
