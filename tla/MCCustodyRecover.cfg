SPECIFICATION FairSpec
CONSTANTS
    Null = Null
    Subtotal = 2000
    Feerate = 1
    BaseSize = 100
    SPEND_TXIN_SIZE = 59
    LOCKTIME_MIN = 1
    LOCKTIME_MAX = 2
    RETURN_TX_VSIZE = 112
    RECOVERY_TXSIZE = 118
    DUST_LIMIT = 520
    alice = alice
    wallet = wallet
    u1 = u1
    u2 = u2
    c1 = c1
    c2 = c2
    payout = payout
    refund = refund
    Device = device
    Funders = {alice}
    ReturnAddr <- WalletAddr
    Locktime = 1
    TokenIds = {1}
    Rates = {1}
    Utxos = {u1, u2}
    Owner <- MCOwner
    Value <- MCValue
    Contracts = {c1, c2}
    Outputs <- MCOutputs
PROPERTIES
    FundsComeBack
CHECK_DEADLOCK FALSE
