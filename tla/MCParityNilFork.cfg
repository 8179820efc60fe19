\* A genesis with no Homestead block: does the Parity builder fail only with a declared error?
CONSTANTS
    Nil = Nil
    Blocks = {0, 5}
    ChainIDs = {1}
    Addresses = {1}
    Balances = {100}
    Nonces = {0}
    Headers = {h1}
    UintWidth = 4
    ForkSchedules <- MCForkSchedules

SPECIFICATION Spec

INVARIANT
    OnlyDeclaredErrors

CHECK_DEADLOCK FALSE
