SPECIFICATION PublicationSpec
CONSTANTS
    Null = Null
    alice = alice
    bob = bob
    outsider = outsider
    host = host
    buyer = buyer
    seller = seller
    Signers = {alice, bob}
    Roles <- MCRoles
    Policy <- MCPolicy
    Template <- MCTemplate
    MaxSigs = 1
    ProposalPolicy <- MCProposalPolicy
    DEADLINE_DEFAULT = 2
    SPEND_TX_BASE_SIZE = 10
    OutputSize = 43
    ProgramTerms <- MCProgramTerms
    Terms <- MCTerms
    Fees <- MCFees
    Feerate = 1
    Stamps = {101, 103}
INVARIANTS
    DeadlineIsStamp
SYMMETRY MCSymmetry
CHECK_DEADLOCK FALSE
