\* Once every message is recorded the session rests.
CHECK_DEADLOCK FALSE

CONSTANTS
    m1 = m1
    m2 = m2
    l1 = l1
    Typed <- One
    Internal <- MCInternal
    MaxRequests = 5
    MaxFaults = 1
    MaxFrames = 2

SPECIFICATION FairSpec

INVARIANTS
    TypeOK
    MessagesCounted

PROPERTIES
    CancelFollowsPrompts
    WritesSettle
