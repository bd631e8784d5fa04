SPECIFICATION Spec
CONSTANTS
    PathNames <- MCPathNames
    Programs <- MCPrograms
    Schedule <- MCSchedule
    Substring <- MCSubstring
    Batches <- MCBatches
    ActiveAt = 0
    ExpiresAt = 6
    StopTimes = {2, 5}
    MCStamps = {1, 4}
INVARIANTS
    TypeOK
    DisputedOnlyResolved
    TasksRunOnce
PROPERTIES
    KeepsPromise
    CallsAreFunctions
CHECK_DEADLOCK FALSE
