SPECIFICATION TerminalSpec
CONSTANTS
    Short <- MCShort
    Lines <- MCLines
    Conversations = {s1, s2}
    Home = s1
    MaxDrafts = 2
    MaxEvents = 2
    BlockLimit = 1
INVARIANT TerminalTypeOK
PROPERTIES OwnDraftOnly StartsQuiet Settles
CHECK_DEADLOCK FALSE
