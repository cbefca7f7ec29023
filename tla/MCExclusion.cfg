\* Every call and every claim is made once: when all have returned the system rests.
CHECK_DEADLOCK FALSE

CONSTANTS
    None = None
    Admissions <- MCAdmissions
    Sessions = {"session", "other"}
    Target <- MCTarget
    LaneOf <- MCLaneOf
    Claims = {1, 2, 3, 4}
    Nobody = Nobody

SPECIFICATION ExclusionSpec

INVARIANTS
    ExclusionTypeOK
    SectionsGuarded
    SlotGuarded

PROPERTIES
    AdmissionsInOrder
    StartsUnderLiveOperation
    WaitersGoOn
