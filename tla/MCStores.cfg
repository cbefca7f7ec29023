SPECIFICATION StoresSpec
CONSTANTS
    c1 = c1
    c2 = c2
    a = a
    b = b
    Clients <- MCClients
    Listed <- MCListed
    Selected <- MCSelected
    Aged = {b}
    Busy = {a}
    MaxLog = 1
    MaxFaults = 1
    Processes = {p1}
    Releases = {1, 2, 3}
    Superseded = 1
    Records <- MCRecords
    RecordsOf <- MCRecordsOf
    PromptsOf <- MCPromptsOf
    Legacy <- MCLegacy
    Typed = {"x", "tb"}
    NewIds = {"n1", "n2"}
    Rollback = FALSE
    None = None
    Torn = Torn
    Mine = Mine
    Missing = Missing
    MaxStarts = 3
    MaxEdits = 2
    MaxCrashes = 1
    MaxSaved = 4
INVARIANTS
    StoresTypeOK
    SkippedIsCurrent
    UpgradesKeep
PROPERTIES
    CostsCatchUp
CHECK_DEADLOCK FALSE
