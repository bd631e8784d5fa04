SPECIFICATION Spec
CONSTANTS
    Null = Null
    Subtotal = 9
    Feerate = 2
    BaseSize = 1
    SPEND_TXIN_SIZE = 1
    dep1 = dep1
    dep2 = dep2
    Deposits <- MCDeposits
    Value <- MCValue
    Covenants = {cov1, cov2}
    Paths = {payout, return}
    Blocks = {block1, block2}
    MaxCommits = 3
INVARIANTS
    CancellationVerifies
CHECK_DEADLOCK FALSE
