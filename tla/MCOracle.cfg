SPECIFICATION FairSpec
CONSTANTS
    Null = Null
    Outputs = {o1, o2}
    Retries = 3
INVARIANTS
    TypeOK
    RecordFollowsChain
PROPERTIES
    FundsFound
CHECK_DEADLOCK FALSE
