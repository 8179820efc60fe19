\* Do the versioned pricing tables have distinct JSON keys, Istanbul at genesis included?
CONSTANTS
    Nil = Nil
    Blocks = {0, 5}
    ChainIDs = {1}
    Addresses = {1}
    Balances = {100}
    Nonces = {0}
    Headers = {h1}
    UintWidth = 4
    ForkSchedules <- MCBaseForksSet

SPECIFICATION Spec

INVARIANT
    VersionKeysDistinct

CHECK_DEADLOCK FALSE
