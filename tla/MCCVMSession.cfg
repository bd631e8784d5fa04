SPECIFICATION Spec
CONSTANTS
    PathNames <- MCPathNames
    Programs <- MCPrograms
    Schedule <- MCSchedule
    Substring <- MCSubstring
    Members <- MCMembers
    Templates <- MCTemplates
    ActiveAt = 0
    ExpiresAt = 6
    RunTimes = {3, 5}
    MaxAccepted = 3
    MaxSigs = 2
    Stamps = {2, 4}
INVARIANTS
    TypeOK
    ReplayDecides
    StatementsVerify
    BatchReplays
    CommittedOnce
    ReceiptsReplay
CHECK_DEADLOCK FALSE
