SPECIFICATION LifetimesSpec

CONSTANTS
    MaxGenerations = 4
    MaxTasks = 2
    Replies <- MCReplies
CHECK_DEADLOCK FALSE

INVARIANTS
    LifetimesTypeOK
    GenerationsApart

PROPERTIES
    StopStartsNothing
    VerdictsHold
    LifetimesEnd
