SPECIFICATION FairSpec

CONSTANT MaxGenerations = 4

INVARIANT CountsUnstable

CHECK_DEADLOCK FALSE
