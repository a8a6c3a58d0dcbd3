CONSTANTS
    Ids = {i1, i2}
    Editions = {1, 2}
    Overlap = FALSE
    Faults = {"crash", "db"}
    MaxEvents = 4
SPECIFICATION FairSpec
INVARIANTS TypeOK
PROPERTIES OnlyDroppedLeave HeldChangesWait ChangesReachRows DroppedLeave
CHECK_DEADLOCK FALSE
