SPECIFICATION Spec
CONSTANTS
    NoSession = "none"
    Sessions = {"s", "t"}
    Past <- MCPast
    Talking = {"s"}
    MaxFrames = 2
    SnapSize = 2
    PageSize = 1
    Limit = 2
    Target = 1
CHECK_DEADLOCK FALSE

INVARIANTS
    TypeOK
    WindowHolds

PROPERTIES
    ReadingSettles
