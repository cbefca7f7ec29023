SPECIFICATION RescansSpec
CONSTANTS
    Keys = {"inbox", "title", "other"}
    Retained = {"inbox", "title"}
    Inbox = "inbox"
    Values = {"a", "b"}
    Absent = "absent"
    MaxSeq = 3
    MaxFollows = 2
    MaxResets = 1
    MaxQueue = 2
    Verifiers = {"v", "w"}
    Child = "child"
    Run = "run"
    Sessions = {"s", "t"}
    None = "none"
    SourceLimit = 1
    MaxOpens = 3
    MaxDrops = 1
    MaxVersions = 2
    MaxGens = 2
    MaxReads = 3
INVARIANT EntriesInOrder
CHECK_DEADLOCK FALSE
