-------------------------------- MODULE Aleth --------------------------------
(***************************************************************************)
(* newAlethGenesisSpec (cmd/puppeth/genesis.go): the Format A builder, as  *)
(* a sequence of steps over a program counter.  One action per block of    *)
(* the function; the range over genesis.Alloc visits the addresses in any  *)
(* order, as Go's map iteration does.  The registry operations             *)
(* setPrecompile and setAccount are operators on the accounts map, which   *)
(* is nil (reads as empty) until one of them lazily makes it.              *)
(***************************************************************************)
EXTENDS AlethBuiltins

VARIABLES
    genesis,    \* the *core.Genesis argument (read only)
    pc,         \* the next block of newAlethGenesisSpec to run
    err,        \* the error returned, or "none"; "panic" for a nil dereference
    params,     \* spec.Params (and spec.SealEngine)
    header,     \* spec.Genesis, the copied header fields
    accounts,   \* spec.Accounts: a map from address to account
    accountsNil, \* spec.Accounts == nil: the map has not been made yet
    pending     \* the addresses the range over genesis.Alloc has not visited

vars == <<genesis, pc, err, params, header, accounts, accountsNil, pending>>

Steps == {"check", "params", "alloc", "base", "byzantium", "istanbul", "done"}

Errors == {"none", "unsupported", "invalidFork", "panic"}

(* The fork fields of alethGenesisSpec.Params, by the config fork they copy *)
(* (ConstantinopleFixForkBlock copies PetersburgBlock; Aleth has no EIP155). *)
AlethForks == ForkNames \ {"EIP155"}

AlethAccountRecs ==
    [balance : Balances \cup {Nil}, nonce : Nonces \cup {0},
     precompiled : AlethBuiltinRecs \cup {Nil}]

Account(balance, nonce, precompiled) ==
    [balance |-> balance, nonce |-> nonce, precompiled |-> precompiled]

(* &alethGenesisSpecAccount{}: no balance, nonce 0, no precompile.         *)
ZeroAccount == Account(Nil, 0, Nil)

(* make(map[common.Address]*alethGenesisSpecAccount)                       *)
EmptyMap == [a \in {} |-> ZeroAccount]

(* Mutant of MapOf: the map is made on every call (nil check dropped).     *)
MapOfRemade(accts, isNil) == EmptyMap

(* The map the registry writes into: made on first use.                    *)
MapOf(accts, isNil) == IF isNil THEN EmptyMap ELSE accts

(* Mutant of SetPrecompiles: a fresh account replaces an existing one.     *)
SetPrecompilesReplacing(accts, isNil, phase) ==
    LET m == MapOf(accts, isNil)
    IN  [a \in DOMAIN m \cup DOMAIN phase |->
            IF a \in DOMAIN phase
            THEN Account(Nil, 0, phase[a])
            ELSE m[a]]

(* setPrecompile(address, data) for every address of a phase.  The         *)
(* addresses of one phase are distinct, so the calls commute.  An          *)
(* existing account keeps its balance and nonce; only Precompiled is set.  *)
SetPrecompiles(accts, isNil, phase) ==
    LET m == MapOf(accts, isNil)
    IN  [a \in DOMAIN m \cup DOMAIN phase |->
            IF a \in DOMAIN phase
            THEN LET old == IF a \in DOMAIN m THEN m[a] ELSE ZeroAccount
                 IN  Account(old.balance, old.nonce, phase[a])
            ELSE m[a]]

(* Mutant of SetAccountIn: the genesis account is stored as it is.        *)
SetAccountInVerbatim(accts, isNil, addr, acc) ==
    LET m == MapOf(accts, isNil)
    IN  [a \in DOMAIN m \cup {addr} |-> IF a = addr THEN acc ELSE m[a]]

(* setAccount(address, account): Balance and Nonce of the (possibly new)   *)
(* entry are overwritten, Precompiled is kept.                             *)
SetAccountIn(accts, isNil, addr, acc) ==
    LET m == MapOf(accts, isNil)
    IN  [a \in DOMAIN m \cup {addr} |->
            IF a = addr
            THEN LET old == IF a \in DOMAIN m THEN m[a] ELSE ZeroAccount
                 IN  Account(acc.balance, acc.nonce, old.precompiled)
            ELSE m[a]]

ZeroParams ==
    [sealEngine |-> "", accountStartNonce |-> 0, tieBreakingGas |-> FALSE,
     allowFutureBlocks |-> FALSE, daoHardforkBlock |-> 0,
     forks |-> [f \in AlethForks |-> Nil], networkID |-> 0, chainID |-> 0,
     maxGasLimit |-> 0]

Byz(g) == g.config.forks["Byzantium"]
Ist(g) == g.config.forks["Istanbul"]

Init ==
    /\ genesis \in GenesisModels
    /\ pc = "check"
    /\ err = "none"
    /\ params = ZeroParams
    /\ header = Nil
    /\ accounts = EmptyMap
    /\ accountsNil = TRUE
    /\ pending = {}

Goto(from, to) == pc = from /\ pc' = to

(* Only ethash is supported: return the "unsupported consensus engine"     *)
(* error, or go on.                                                        *)
CheckEngine ==
    /\ pc = "check"
    /\ \/ /\ ~genesis.config.ethash
          /\ pc' = "done"
          /\ err' = "unsupported"
       \/ /\ genesis.config.ethash
          /\ pc' = "params"
          /\ UNCHANGED err
    /\ UNCHANGED <<genesis, params, header, accounts, accountsNil, pending>>

(* The defaults, the fork fields (a nil fork stays nil), the chain id and  *)
(* the header.  ChainID.Uint64() dereferences a nil ChainID: a panic.      *)
SetParams ==
    /\ pc = "params"
    /\ \/ /\ genesis.config.chainID = Nil
          /\ pc' = "done"
          /\ err' = "panic"
          /\ UNCHANGED <<params, header, pending>>
       \/ /\ genesis.config.chainID /= Nil
          /\ pc' = "alloc"
          /\ params' =
               [sealEngine |-> "Ethash", accountStartNonce |-> 0,
                tieBreakingGas |-> FALSE, allowFutureBlocks |-> FALSE,
                daoHardforkBlock |-> 0,
                forks |-> [f \in AlethForks |-> genesis.config.forks[f]],
                networkID |-> Uint64(genesis.config.chainID),
                chainID |-> Uint64(genesis.config.chainID),
                maxGasLimit |-> MaxInt]
          /\ header' = genesis.header
          /\ pending' = DOMAIN genesis.alloc
          /\ UNCHANGED err
    /\ UNCHANGED <<genesis, accounts, accountsNil>>

(* One iteration of: for address, account := range genesis.Alloc.         *)
SetAccount(a) ==
    /\ pc = "alloc"
    /\ a \in pending
    /\ accounts' = SetAccountIn(accounts, accountsNil, a, genesis.alloc[a])
    /\ accountsNil' = FALSE
    /\ pending' = pending \ {a}
    /\ UNCHANGED <<genesis, pc, err, params, header>>

EndAlloc ==
    /\ pending = {}
    /\ Goto("alloc", "base")
    /\ UNCHANGED <<genesis, err, params, header, accounts, accountsNil, pending>>

(* setPrecompile 1..4, unconditionally.                                    *)
SetBasePrecompiles ==
    /\ Goto("base", "byzantium")
    /\ accounts' = SetPrecompiles(accounts, accountsNil, AlethBasePhase)
    /\ accountsNil' = FALSE
    /\ UNCHANGED <<genesis, err, params, header, pending>>

(* if genesis.Config.ByzantiumBlock != nil: setPrecompile 5..8.            *)
SetByzantiumPrecompiles ==
    /\ Goto("byzantium", "istanbul")
    /\ accounts' = IF Byz(genesis) /= Nil
                   THEN SetPrecompiles(accounts, accountsNil,
                                       AlethByzantiumPhase(Byz(genesis)))
                   ELSE accounts
    /\ accountsNil' = (accountsNil /\ Byz(genesis) = Nil)
    /\ UNCHANGED <<genesis, err, params, header, pending>>

(* Mutant of SetIstanbulPrecompiles: the Byzantium dependency check is    *)
(* dropped.                                                                *)
SetIstanbulPrecompilesUnchecked ==
    /\ Goto("istanbul", "done")
    /\ \/ /\ Ist(genesis) = Nil
          /\ UNCHANGED <<err, accounts, accountsNil>>
       \/ /\ Ist(genesis) /= Nil
          /\ accounts' = SetPrecompiles(accounts, accountsNil,
                            AlethIstanbulPhase(Byz(genesis), Ist(genesis)))
          /\ accountsNil' = FALSE
          /\ UNCHANGED err
    /\ UNCHANGED <<genesis, params, header, pending>>

(* if genesis.Config.IstanbulBlock != nil: fail when Byzantium is nil,     *)
(* else overwrite 6 and 7 and add 9; then return.                          *)
SetIstanbulPrecompiles ==
    /\ Goto("istanbul", "done")
    /\ \/ /\ Ist(genesis) = Nil
          /\ UNCHANGED <<err, accounts, accountsNil>>
       \/ /\ Ist(genesis) /= Nil
          /\ Byz(genesis) = Nil
          /\ err' = "invalidFork"
          /\ UNCHANGED <<accounts, accountsNil>>
       \/ /\ Ist(genesis) /= Nil
          /\ Byz(genesis) /= Nil
          /\ accounts' = SetPrecompiles(accounts, accountsNil,
                            AlethIstanbulPhase(Byz(genesis), Ist(genesis)))
          /\ accountsNil' = FALSE
          /\ UNCHANGED err
    /\ UNCHANGED <<genesis, params, header, pending>>

Next ==
    \/ CheckEngine
    \/ SetParams
    \/ \E a \in Addresses : SetAccount(a)
    \/ EndAlloc
    \/ SetBasePrecompiles
    \/ SetByzantiumPrecompiles
    \/ SetIstanbulPrecompiles

(* The builder is sequential code that runs until it returns.              *)
Spec == Init /\ [][Next]_vars /\ WF_vars(Next)

-----------------------------------------------------------------------------
(* What newAlethGenesisSpec has returned: "pending" until it returns,     *)
(* then the document, or nil and the error.                                *)
Returned ==
    IF pc = "done" /\ err = "none"
    THEN [err |-> "none", forks |-> params.forks, chainID |-> params.chainID,
          header |-> header,
          accounts |-> IF accountsNil THEN Nil ELSE accounts]
    ELSE [err |-> IF pc = "done" THEN err ELSE "pending",
          forks |-> Nil, chainID |-> Nil, header |-> Nil, accounts |-> Nil]

AlethParamsRecs ==
    [sealEngine : {"", "Ethash"}, accountStartNonce : {0},
     tieBreakingGas : BOOLEAN, allowFutureBlocks : BOOLEAN,
     daoHardforkBlock : {0}, forks : [AlethForks -> Blocks \cup {Nil}],
     networkID : Nat, chainID : Nat, maxGasLimit : Nat]

(* A made spec.Accounts map: addresses to well-typed accounts.             *)
AccountMap(m) ==
    /\ m = [a \in DOMAIN m |-> m[a]]
    /\ DOMAIN m \subseteq Nat
    /\ \A a \in DOMAIN m : m[a] \in AlethAccountRecs

(* Type correctness of the builder's state.                                *)
TypeOK ==
    /\ genesis \in GenesisModels
    /\ pc \in Steps
    /\ err \in Errors
    /\ params \in AlethParamsRecs
    /\ header \in Headers \cup {Nil}
    /\ AccountMap(accounts)
    /\ accountsNil \in BOOLEAN
    /\ pending \subseteq DOMAIN genesis.alloc

(* Every prefunded account of genesis.Alloc, at a precompile address too,  *)
(* is in the returned document with its balance and nonce: setPrecompile  *)
(* must not replace the account setAccount wrote, and the lazily made map  *)
(* must not be made twice.                                                 *)
AllocPreserved ==
    (pc = "done" /\ err = "none") =>
        \A a \in DOMAIN genesis.alloc :
            /\ ~accountsNil
            /\ a \in DOMAIN accounts
            /\ accounts[a].balance = genesis.alloc[a].balance
            /\ accounts[a].nonce = genesis.alloc[a].nonce

(* Registry promise: no step removes an account from spec.Accounts or      *)
(* changes the balance or nonce of one already there.                      *)
AccountsOnlyGrow ==
    [][~accountsNil =>
        /\ ~accountsNil'
        /\ DOMAIN accounts \subseteq DOMAIN accounts'
        /\ \A a \in DOMAIN accounts :
              /\ accounts'[a].balance = accounts[a].balance
              /\ accounts'[a].nonce = accounts[a].nonce]_vars

(* newAlethGenesisSpec implements the abstract translator: mapping the     *)
(* result to "pending" until the function returns and to what it returned  *)
(* after, every behaviour of the builder, over every order of the range    *)
(* over genesis.Alloc, is a behaviour of AlethAbstract.                    *)
Abs == INSTANCE AlethAbstract
         WITH result <- Returned

AlethRefinesAbstract == Abs!AbsSpec
=============================================================================
