CONSTANTS
    Nil = Nil
    Blocks = {0, 5}
    ChainIDs = {1, Nil}
    Addresses = {1, 8, 30}
    Balances = {100, Nil}
    Nonces = {0}
    Headers = {h1}
    UintWidth = 4
    ForkSchedules <- MCForkSchedules

SPECIFICATION Spec

INVARIANTS
    TypeOK
    AllocPreserved
    RewardScheduleFaithful

PROPERTIES
    ParityRefinesAbstract

CHECK_DEADLOCK FALSE
