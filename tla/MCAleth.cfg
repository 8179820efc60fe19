CONSTANTS
    Nil = Nil
    Blocks = {0, 5}
    ChainIDs = {1, Nil}
    Addresses = {1, 6, 30}
    Balances = {100}
    Nonces = {0, 3}
    Headers = {h1}
    UintWidth = 4
    ForkSchedules <- MCForkSchedules

SPECIFICATION Spec

INVARIANTS
    TypeOK
    AllocPreserved

PROPERTIES
    AccountsOnlyGrow
    AlethRefinesAbstract

CHECK_DEADLOCK FALSE
