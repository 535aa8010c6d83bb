CONSTANTS
    a1 = a1
    a2 = a2
    a3 = a3
    Addr <- MC_Addr2
    Escrow = Escrow
    None = None
    U64_MAX = 2
    BPS_DENOM = 2
    MaxTrades = 2
    MaxPayouts = 2
    Amounts = {2}
    FeeChoices = {1}
    InitBalance = 2
SPECIFICATION Spec
SYMMETRY Symmetry2
INVARIANTS
    TypeOK
PROPERTIES
    EscrowMovesAccounted
