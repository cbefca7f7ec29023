\* Once every message is recorded the session rests.
CHECK_DEADLOCK FALSE

CONSTANTS
    m1 = m1
    m2 = m2
    l1 = l1
    Typed <- One
    Internal <- Nothing
    MaxRequests = 3
    MaxFaults = 0
    MaxFrames = 2

SPECIFICATION Spec

INVARIANT
    IdleIsLeftAlone
