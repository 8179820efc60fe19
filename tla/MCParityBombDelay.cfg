\* Does the bomb-delay map delay the bomb as go-ethereum does, forks at one block included?
CONSTANTS
    Nil = Nil
    Blocks = {0, 5}
    ChainIDs = {1}
    Addresses = {1}
    Balances = {100}
    Nonces = {0}
    Headers = {h1}
    UintWidth = 4
    ForkSchedules <- MCBaseForksSet

SPECIFICATION Spec

INVARIANT
    BombDelayFaithful

CHECK_DEADLOCK FALSE
