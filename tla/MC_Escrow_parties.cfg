CONSTANTS
    a1 = a1
    a2 = a2
    a3 = a3
    Addr <- MC_Addr
    Escrow = Escrow
    None = None
    U64_MAX = 5
    BPS_DENOM = 2
    MaxTrades = 1
    MaxPayouts = 2
    Amounts = {0, 1, 3}
    FeeChoices = {1, 2, 4}
    InitBalance = 3
SPECIFICATION Spec
SYMMETRY Symmetry
INVARIANT
    PartiesDistinct
