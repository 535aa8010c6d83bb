CONSTANTS
    a1 = a1
    a2 = a2
    a3 = a3
    Addr <- MC_Addr
    Escrow = Escrow
    None = None
    U64_MAX = 1
    BPS_DENOM = 1
    MaxTrades = 2
    MaxPayouts = 2
    Amounts = {1}
    FeeChoices = {0, 1}
    InitBalance = 1
SPECIFICATION Spec
SYMMETRY Symmetry
INVARIANT
    EscrowSolvent
