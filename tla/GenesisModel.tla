---------------------------- MODULE GenesisModel ----------------------------
(***************************************************************************)
(* The canonical genesis model that every chain-spec builder of            *)
(* cmd/puppeth/genesis.go reads: the parts of core.Genesis and             *)
(* params.ChainConfig that the builders look at.  The builders never       *)
(* mutate it; a behaviour picks one genesis in Init and keeps it.          *)
(*                                                                         *)
(* Data is abstracted to what the properties tell apart: block numbers,    *)
(* chain ids, balances and nonces are small naturals, addresses are the    *)
(* integer value of the 20-byte address, header fields are one opaque      *)
(* value.  A nil big.Int pointer is the model value Nil.                          *)
(***************************************************************************)
EXTENDS Naturals

CONSTANTS
    Nil,        \* a nil pointer (big.Int or map pointer) in the Go code
    Blocks,     \* fork activation block numbers a config may hold
    ChainIDs,   \* values of Config.ChainID (Nil allowed: a nil big.Int pointer)
    Addresses,  \* addresses that may be prefunded in genesis.Alloc
    Balances,   \* values of GenesisAccount.Balance (Nil allowed: a nil *big.Int)
    Nonces,     \* values of GenesisAccount.Nonce
    Headers,    \* the genesis header fields, copied verbatim by all builders
    UintWidth   \* bit width of the Uint64() conversions (64 in the code)

ASSUME BlocksAssumption    == Blocks \subseteq Nat
ASSUME ChainIDsAssumption  == ChainIDs \subseteq Nat \cup {Nil}
ASSUME AddressesAssumption == Addresses \subseteq Nat
ASSUME BalancesAssumption  == Balances \subseteq Nat \cup {Nil}
ASSUME NoncesAssumption    == Nonces \subseteq Nat
ASSUME WidthAssumption     == UintWidth \in Nat \ {0}
(* The two powers of two the conversions use are positive naturals.        *)
ASSUME PowerAssumption     == /\ 2 ^ UintWidth \in Nat \ {0}
                              /\ 2 ^ (UintWidth - 1) \in Nat \ {0}
ASSUME NilAssumption       == Nil \notin Nat

(***************************************************************************)
(* The optional fork blocks of params.ChainConfig that the builders read.  *)
(* Absent (nil) means the fork is not scheduled.                           *)
(***************************************************************************)
ForkNames == {"Homestead", "EIP150", "EIP155", "EIP158", "Byzantium",
              "Constantinople", "Petersburg", "Istanbul"}

ForkSchedules == [ForkNames -> Blocks \cup {Nil}]

(* genesis.Config: Ethash /= nil is the one supported consensus engine.    *)
Configs == [ethash : BOOLEAN, chainID : ChainIDs, forks : ForkSchedules]

(* core.GenesisAccount, and core.GenesisAlloc: a map from address to it.   *)
GenesisAccounts == [balance : Balances, nonce : Nonces]

Allocs == UNION {[A -> GenesisAccounts] : A \in SUBSET Addresses}

GenesisModels == [config : Configs, alloc : Allocs, header : Headers]

(* big.Int.Uint64(): the low UintWidth bits of a non-negative integer.  *)
Uint64(n) == n % (2 ^ UintWidth)

(* math.MaxInt64 at this width.                                            *)
MaxInt == 2 ^ (UintWidth - 1) - 1
=============================================================================
