SPECIFICATION FairSpec
CONSTANTS
    PathNames <- MCPathNames
    Programs <- MCPrograms
    Schedule <- MCSchedule
    Substring <- MCSubstring
    Batches <- MCBatches
    ActiveAt = 0
    ExpiresAt = 6
    StopTimes = {3, 5}
    MCStamps = {2, 3, 5}
INVARIANTS
    OnlyOutputSpent
    QuorumBacked
    PendingTasksTimely
    ScheduleDecides
PROPERTIES
    KeepsPromise
    ScheduleSettles
CHECK_DEADLOCK FALSE
