\* A fork block of 2^UintWidth or more (17 at width 4): do the two documents still activate each fork at the same block?
CONSTANTS
    Nil = Nil
    Blocks = {0, 17}
    ChainIDs = {1, Nil}
    Addresses = {1, 30}
    Balances = {100}
    Nonces = {0}
    Headers = {h1}
    UintWidth = 4
    ForkSchedules <- MCSchedules

SPECIFICATION Spec

INVARIANT
    ForkActivationAgrees

CHECK_DEADLOCK FALSE
