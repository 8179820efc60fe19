\* Do the per-EIP transitions activate features only for scheduled forks?
CONSTANTS
    Nil = Nil
    Blocks = {0, 5}
    ChainIDs = {1}
    Addresses = {1}
    Balances = {100}
    Nonces = {0}
    Headers = {h1}
    UintWidth = 4
    ForkSchedules <- MCBaseForksSet

SPECIFICATION Spec

INVARIANT
    ForkFeaturesFaithful

CHECK_DEADLOCK FALSE
