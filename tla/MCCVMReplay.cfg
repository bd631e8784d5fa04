SPECIFICATION Spec
CONSTANTS
    PathNames <- MCPathNames
    Programs <- MCPrograms
    Schedule <- MCSchedule
    Substring <- MCSubstring
    Members <- MCMembers
    Templates <- MCTemplates
    ActiveAt = 0
    ExpiresAt = 6
    RunTimes = {3, 5}
    MaxAccepted = 2
    MaxSigs = 2
    Stamps = {2, 3, 5}
INVARIANTS
    ExecutionVerifies
CHECK_DEADLOCK FALSE
