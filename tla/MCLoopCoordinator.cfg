\* A run that is over and was not replaced rests.
CHECK_DEADLOCK FALSE

CONSTANTS
    LastStep = 2
    Tries = 2
    Pass = 2
    StallStreak = 1
    VerifierRetries = 1
    Setups <- MCSetups
    MaxRuns = 2
    MaxReplays = 1

SPECIFICATION FairSpec

INVARIANTS
    TypeOK
    ExecutionHolds

PROPERTIES
    DecisionsStand
    RunsDecide
