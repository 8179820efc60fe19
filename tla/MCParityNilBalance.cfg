\* A genesis account without a balance (a nil *big.Int): does the Parity builder fail only with a declared error?
CONSTANTS
    Nil = Nil
    Blocks = {0, 5}
    ChainIDs = {1}
    Addresses = {1}
    Balances = {100, Nil}
    Nonces = {0}
    Headers = {h1}
    UintWidth = 4
    ForkSchedules <- MCBaseForksSet

SPECIFICATION Spec

INVARIANT
    OnlyDeclaredErrors

CHECK_DEADLOCK FALSE
