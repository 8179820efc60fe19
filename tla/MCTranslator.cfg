CONSTANTS
    Nil = Nil
    Blocks = {0, 5}
    ChainIDs = {1, Nil}
    Addresses = {1, 30}
    Balances = {100, Nil}
    Nonces = {0}
    Headers = {h1}
    UintWidth = 4
    ForkSchedules <- MCSchedules

SPECIFICATION Spec

INVARIANTS
    ErrorsAgree
    PrecompileActivationAgrees
    ForkActivationAgrees

CHECK_DEADLOCK FALSE
