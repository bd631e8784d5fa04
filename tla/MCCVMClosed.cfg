SPECIFICATION Spec
CONSTANTS
    PathNames <- MCPathNames
    Programs <- MCPrograms
    Schedule <- MCLockSchedule
    Substring <- MCSubstring
    Batches <- MCBatches
    ActiveAt = 0
    ExpiresAt = 6
    StopTimes = {3, 5}
    MCStamps = {1, 4}
PROPERTIES
    ClosedIsFinal
CHECK_DEADLOCK FALSE
