----------------------------- MODULE AlethProofs -----------------------------
(***************************************************************************)
(* Proofs about the Aleth builder (newAlethGenesisSpec), for every value   *)
(* of the constants.                                                       *)
(***************************************************************************)
EXTENDS Aleth, PhaseProofs, TLAPS

(* A genesis model's allocation is a map from addresses to accounts.       *)
LEMMA AllocType ==
    ASSUME NEW g \in GenesisModels
    PROVE  /\ DOMAIN g.alloc \subseteq Addresses
           /\ \A a \in DOMAIN g.alloc : g.alloc[a] \in GenesisAccounts
BY DEF GenesisModels, Allocs

(* The map the registry writes into is a well-typed accounts map.          *)
LEMMA MapOfType ==
    ASSUME NEW accts, NEW isNil, AccountMap(accts)
    PROVE  AccountMap(MapOf(accts, isNil))
BY DEF MapOf, EmptyMap, AccountMap

(* setPrecompile keeps the accounts map well typed.                        *)
LEMMA SetPrecompilesType ==
    ASSUME NEW accts, NEW isNil, AccountMap(accts),
           NEW phase, IsPhase(phase)
    PROVE  AccountMap(SetPrecompiles(accts, isNil, phase))
<1>1. AccountMap(MapOf(accts, isNil))
  BY MapOfType
<1>2. ZeroAccount \in AlethAccountRecs
  BY DEF ZeroAccount, AlethAccountRecs, Account
<1>3. QED
  BY <1>1, <1>2 DEF SetPrecompiles, AccountMap, AlethAccountRecs, Account,
                    IsPhase

(* setAccount keeps the accounts map well typed.                           *)
LEMMA SetAccountInType ==
    ASSUME NEW accts, NEW isNil, AccountMap(accts),
           NEW addr \in Nat, NEW acc \in GenesisAccounts
    PROVE  AccountMap(SetAccountIn(accts, isNil, addr, acc))
<1>1. AccountMap(MapOf(accts, isNil))
  BY MapOfType
<1>2. ZeroAccount \in AlethAccountRecs
  BY DEF ZeroAccount, AlethAccountRecs, Account
<1>3. QED
  BY <1>1, <1>2 DEF SetAccountIn, AccountMap, AlethAccountRecs,
                    GenesisAccounts, Account

(* Every step of the builder keeps its state well typed.                   *)
LEMMA TypeOKStep ==
    ASSUME TypeOK, [Next]_vars
    PROVE  TypeOK'
<1>0. /\ genesis \in GenesisModels
      /\ DOMAIN genesis.alloc \subseteq Addresses
      /\ \A a \in DOMAIN genesis.alloc : genesis.alloc[a] \in GenesisAccounts
  BY AllocType DEF TypeOK
<1>1. CASE CheckEngine
  BY <1>1 DEF CheckEngine, TypeOK, Steps, Errors
<1>2. CASE SetParams
  <2>1. CASE genesis.config.chainID = Nil
    BY <1>2, <2>1 DEF SetParams, TypeOK, Steps, Errors
  <2>2. CASE genesis.config.chainID /= Nil
    <3>1. genesis.config.chainID \in Nat
      BY <1>0, <2>2, ChainIDsAssumption, Zenon DEF GenesisModels, Configs
    <3>2. Uint64(genesis.config.chainID) \in Nat /\ MaxInt \in Nat
      BY <3>1, PowerAssumption DEF Uint64, MaxInt
    <3>3. [f \in AlethForks |-> genesis.config.forks[f]]
            \in [AlethForks -> Blocks \cup {Nil}]
      BY <1>0 DEF GenesisModels, Configs, ForkSchedules, AlethForks
    <3>4. params' =
            [sealEngine |-> "Ethash", accountStartNonce |-> 0,
             tieBreakingGas |-> FALSE, allowFutureBlocks |-> FALSE,
             daoHardforkBlock |-> 0,
             forks |-> [f \in AlethForks |-> genesis.config.forks[f]],
             networkID |-> Uint64(genesis.config.chainID),
             chainID |-> Uint64(genesis.config.chainID),
             maxGasLimit |-> MaxInt]
      BY <1>2, <2>2 DEF SetParams
    <3>5. params' \in AlethParamsRecs
      BY <3>2, <3>3, <3>4 DEF AlethParamsRecs
    <3>6. QED
      BY <1>0, <1>2, <2>2, <3>5 DEF SetParams, TypeOK, Steps, GenesisModels
  <2>3. QED
    BY <2>1, <2>2
<1>3. ASSUME NEW a \in Addresses, SetAccount(a) PROVE TypeOK'
  <2>1. a \in Nat /\ genesis.alloc[a] \in GenesisAccounts
    BY <1>0, <1>3, AddressesAssumption DEF SetAccount, TypeOK
  <2>2. AccountMap(accounts')
    BY <2>1, <1>3, SetAccountInType DEF SetAccount, TypeOK
  <2>3. QED
    BY <1>3, <2>2, Zenon DEF SetAccount, TypeOK
<1>4. CASE EndAlloc
  BY <1>4 DEF EndAlloc, Goto, TypeOK, Steps
<1>5. CASE SetBasePrecompiles
  <2>1. AccountMap(accounts')
    BY <1>5, BasePhaseType, SetPrecompilesType DEF SetBasePrecompiles, TypeOK
  <2>2. QED
    BY <1>5, <2>1, Zenon DEF SetBasePrecompiles, Goto, TypeOK, Steps
<1>6. CASE SetByzantiumPrecompiles
  <2>1. CASE Byz(genesis) /= Nil
    <3>1. Byz(genesis) \in Blocks
      BY <1>0, <2>1 DEF Byz, GenesisModels, Configs, ForkSchedules, ForkNames
    <3>2. IsPhase(AlethByzantiumPhase(Byz(genesis)))
      BY <3>1, ByzantiumPhaseType
    <3>3. accounts' = SetPrecompiles(accounts, accountsNil,
                                    AlethByzantiumPhase(Byz(genesis)))
      BY <1>6, <2>1 DEF SetByzantiumPrecompiles
    <3>4. AccountMap(accounts')
      BY <3>2, <3>3, SetPrecompilesType DEF TypeOK
    <3>5. QED
      BY <1>6, <3>4 DEF SetByzantiumPrecompiles, Goto, TypeOK, Steps
  <2>2. CASE Byz(genesis) = Nil
    BY <1>6, <2>2 DEF SetByzantiumPrecompiles, Goto, TypeOK, Steps
  <2>3. QED
    BY <2>1, <2>2
<1>7. CASE SetIstanbulPrecompiles
  <2>1. CASE Ist(genesis) /= Nil /\ Byz(genesis) /= Nil
    <3>1. Byz(genesis) \in Blocks /\ Ist(genesis) \in Blocks
      BY <1>0, <2>1 DEF Byz, Ist, GenesisModels, Configs, ForkSchedules,
                        ForkNames
    <3>2. IsPhase(AlethIstanbulPhase(Byz(genesis), Ist(genesis)))
      BY <3>1, IstanbulPhaseType
    <3>3. accounts' = SetPrecompiles(accounts, accountsNil,
                        AlethIstanbulPhase(Byz(genesis), Ist(genesis)))
      BY <1>7, <2>1 DEF SetIstanbulPrecompiles
    <3>4. AccountMap(accounts')
      BY <3>2, <3>3, SetPrecompilesType DEF TypeOK
    <3>5. QED
      BY <1>7, <2>1, <3>4, Zenon DEF SetIstanbulPrecompiles, Goto, TypeOK, Steps,
                              Errors
  <2>2. CASE ~(Ist(genesis) /= Nil /\ Byz(genesis) /= Nil)
    BY <1>7, <2>2 DEF SetIstanbulPrecompiles, Goto, TypeOK, Steps, Errors
  <2>3. QED
    BY <2>1, <2>2
<1>8. CASE UNCHANGED vars
  BY <1>8 DEF vars, TypeOK
<1>9. QED
  BY <1>1, <1>2, <1>3, <1>4, <1>5, <1>6, <1>7, <1>8 DEF Next

(* The builder starts in a well-typed state.                              *)
LEMMA TypeOKInit == Init => TypeOK
<1>1. ZeroParams \in AlethParamsRecs
  BY DEF ZeroParams, AlethParamsRecs
<1>2. QED
  BY <1>1 DEF Init, TypeOK, Steps, Errors, AccountMap, EmptyMap

(* The builder's state is always well typed.                               *)
THEOREM TypeCorrect == Spec => []TypeOK
<1>1. Init => TypeOK
  BY TypeOKInit
<1>2. TypeOK /\ [Next]_vars => TypeOK'
  BY TypeOKStep
<1>3. QED
  BY <1>1, <1>2, PTL DEF Spec

-----------------------------------------------------------------------------
(* The genesis account at a is in spec.Accounts with its balance and nonce. *)
Prefunded(a) ==
    /\ ~accountsNil
    /\ a \in DOMAIN accounts
    /\ accounts[a].balance = genesis.alloc[a].balance
    /\ accounts[a].nonce = genesis.alloc[a].nonce

(* Inductive strengthening of AllocPreserved: the range over genesis.Alloc *)
(* has written every address it visited, the precompile phases keep them,  *)
(* and the builder has no error before it returns.                         *)
AllocInv ==
    /\ pc /= "done" => err = "none"
    /\ pc = "alloc" => \A a \in DOMAIN genesis.alloc \ pending : Prefunded(a)
    /\ pc \in {"base", "byzantium", "istanbul", "done"} /\ err = "none" =>
          \A a \in DOMAIN genesis.alloc : Prefunded(a)

(* setPrecompile keeps every account already in the made map, with its     *)
(* balance and nonce.                                                      *)
LEMMA SetPrecompilesKeeps ==
    ASSUME NEW accts, NEW phase, NEW a \in DOMAIN accts
    PROVE  /\ a \in DOMAIN SetPrecompiles(accts, FALSE, phase)
           /\ SetPrecompiles(accts, FALSE, phase)[a].balance = accts[a].balance
           /\ SetPrecompiles(accts, FALSE, phase)[a].nonce = accts[a].nonce
BY DEF SetPrecompiles, MapOf, Account

(* setAccount writes the balance and nonce of its address.                *)
LEMMA SetAccountInWrites ==
    ASSUME NEW accts, NEW isNil, NEW addr, NEW acc
    PROVE  /\ addr \in DOMAIN SetAccountIn(accts, isNil, addr, acc)
           /\ SetAccountIn(accts, isNil, addr, acc)[addr].balance = acc.balance
           /\ SetAccountIn(accts, isNil, addr, acc)[addr].nonce = acc.nonce
BY DEF SetAccountIn, MapOf, Account

(* A precompile step keeps every prefunded account.                        *)
LEMMA PrecompileStepKeeps ==
    ASSUME NEW phase,
           accounts' = SetPrecompiles(accounts, accountsNil, phase),
           accountsNil \in BOOLEAN, accountsNil' = FALSE,
           genesis' = genesis,
           NEW a, Prefunded(a)
    PROVE  Prefunded(a)'
<1>1. accounts' = SetPrecompiles(accounts, FALSE, phase)
  BY Zenon DEF Prefunded
<1>2. a \in DOMAIN accounts
  BY DEF Prefunded
<1>3. /\ a \in DOMAIN accounts'
      /\ accounts'[a].balance = accounts[a].balance
      /\ accounts'[a].nonce = accounts[a].nonce
  <2>1. /\ a \in DOMAIN SetPrecompiles(accounts, FALSE, phase)
        /\ SetPrecompiles(accounts, FALSE, phase)[a].balance = accounts[a].balance
        /\ SetPrecompiles(accounts, FALSE, phase)[a].nonce = accounts[a].nonce
    BY <1>2, SetPrecompilesKeeps, Zenon
  <2>2. QED
    BY <1>1, <2>1, Zenon
<1>4. QED
  BY <1>3 DEF Prefunded

(* Every prefunded account of genesis.Alloc, at a precompile address too,  *)
(* is in the document newAlethGenesisSpec returns, with its balance and    *)
(* nonce, whatever order the range over genesis.Alloc takes.               *)
THEOREM AllocPreservedHolds == Spec => []AllocPreserved
<1>1. Init => AllocInv
  BY DEF Init, AllocInv
<1>2. AllocInv /\ TypeOK /\ [Next]_vars => AllocInv'
  <2> SUFFICES ASSUME AllocInv, TypeOK, [Next]_vars PROVE AllocInv'
    OBVIOUS
  <2>1. CASE CheckEngine
    BY <2>1 DEF CheckEngine, AllocInv
  <2>2. CASE SetParams
    BY <2>2 DEF SetParams, AllocInv
  <2>3. ASSUME NEW a \in Addresses, SetAccount(a) PROVE AllocInv'
    <3>1. SUFFICES ASSUME NEW b \in DOMAIN genesis.alloc \ pending'
                   PROVE  Prefunded(b)'
      BY <2>3 DEF SetAccount, AllocInv
    <3>2. CASE b = a
      BY <2>3, <3>2, SetAccountInWrites DEF SetAccount, Prefunded
    <3>3. CASE b /= a
      <4>1. b \in DOMAIN genesis.alloc \ pending /\ pc = "alloc"
        BY <2>3, <3>3 DEF SetAccount
      <4>2. Prefunded(b)
        BY <4>1 DEF AllocInv
      <4>3. accounts' = SetAccountIn(accounts, FALSE, a, genesis.alloc[a])
        BY <2>3, <4>2, Zenon DEF SetAccount, Prefunded, TypeOK
      <4>4. b \in DOMAIN accounts' /\ accounts'[b] = accounts[b]
        <5>1. b \in DOMAIN accounts
          BY <4>2 DEF Prefunded
        <5>2. /\ b \in DOMAIN SetAccountIn(accounts, FALSE, a, genesis.alloc[a])
              /\ SetAccountIn(accounts, FALSE, a, genesis.alloc[a])[b] = accounts[b]
          BY <3>3, <5>1 DEF SetAccountIn, MapOf
        <5>3. QED
          BY <4>3, <5>2, Zenon
      <4>5. QED
        BY <2>3, <4>2, <4>4 DEF SetAccount, Prefunded
    <3>4. QED
      BY <3>2, <3>3
  <2>4. CASE EndAlloc
    BY <2>4 DEF EndAlloc, Goto, AllocInv, Prefunded
  <2>5. CASE SetBasePrecompiles
    <3>1. \A a \in DOMAIN genesis.alloc : Prefunded(a)
      BY <2>5 DEF SetBasePrecompiles, Goto, AllocInv
    <3>2. \A a \in DOMAIN genesis.alloc : Prefunded(a)'
      BY <2>5, <3>1, PrecompileStepKeeps, Zenon DEF SetBasePrecompiles, TypeOK
    <3>3. QED
      BY <2>5, <3>2 DEF SetBasePrecompiles, Goto, AllocInv
  <2>6. CASE SetByzantiumPrecompiles
    <3>1. \A a \in DOMAIN genesis.alloc : Prefunded(a)
      BY <2>6 DEF SetByzantiumPrecompiles, Goto, AllocInv
    <3>2. CASE Byz(genesis) /= Nil
      <4>1. \A a \in DOMAIN genesis.alloc : Prefunded(a)'
        BY <2>6, <3>1, <3>2, PrecompileStepKeeps, Zenon DEF SetByzantiumPrecompiles, TypeOK
      <4>2. QED
        BY <2>6, <4>1 DEF SetByzantiumPrecompiles, Goto, AllocInv
    <3>3. CASE Byz(genesis) = Nil
      BY <2>6, <3>1, <3>3, Zenon DEF SetByzantiumPrecompiles, Goto, AllocInv, Prefunded
    <3>4. QED
      BY <3>2, <3>3
  <2>7. CASE SetIstanbulPrecompiles
    <3>1. \A a \in DOMAIN genesis.alloc : Prefunded(a)
      BY <2>7 DEF SetIstanbulPrecompiles, Goto, AllocInv
    <3>2. CASE Ist(genesis) /= Nil /\ Byz(genesis) /= Nil
      <4>1. \A a \in DOMAIN genesis.alloc : Prefunded(a)'
        BY <2>7, <3>1, <3>2, PrecompileStepKeeps, Zenon DEF SetIstanbulPrecompiles, TypeOK
      <4>2. QED
        BY <2>7, <3>2, <4>1 DEF SetIstanbulPrecompiles, Goto, AllocInv
    <3>3. CASE ~(Ist(genesis) /= Nil /\ Byz(genesis) /= Nil)
      BY <2>7, <3>1, <3>3 DEF SetIstanbulPrecompiles, Goto, AllocInv, Prefunded
    <3>4. QED
      BY <3>2, <3>3
  <2>8. CASE UNCHANGED vars
    BY <2>8 DEF vars, AllocInv, Prefunded
  <2>9. QED
    BY <2>1, <2>2, <2>3, <2>4, <2>5, <2>6, <2>7, <2>8 DEF Next
<1>3. AllocInv => AllocPreserved
  BY DEF AllocInv, AllocPreserved, Prefunded
<1>4. QED
  BY <1>1, <1>2, <1>3, TypeCorrect, PTL DEF Spec
-----------------------------------------------------------------------------
(* The step from accounts to accounts' keeps every account of the made map *)
(* with its balance and nonce, and the map stays made.                     *)
Kept ==
    ~accountsNil =>
        /\ ~accountsNil'
        /\ DOMAIN accounts \subseteq DOMAIN accounts'
        /\ \A a \in DOMAIN accounts :
              /\ accounts'[a].balance = accounts[a].balance
              /\ accounts'[a].nonce = accounts[a].nonce

(* Inductive fact AccountsOnlyGrow needs: the map is empty before the      *)
(* range over genesis.Alloc, and during it no address still to visit is in *)
(* the map (setAccount never overwrites an account already written).       *)
GrowInv ==
    /\ pc \in {"check", "params"} => DOMAIN accounts = {}
    /\ pc = "alloc" => DOMAIN accounts \cap pending = {}

(* setAccount on a made map adds its address and keeps every other entry.  *)
LEMMA SetAccountInKeeps ==
    ASSUME NEW accts, NEW addr, NEW acc, NEW a \in DOMAIN accts, a /= addr
    PROVE  /\ a \in DOMAIN SetAccountIn(accts, FALSE, addr, acc)
           /\ SetAccountIn(accts, FALSE, addr, acc)[a] = accts[a]
BY DEF SetAccountIn, MapOf

(* setAccount writes its address and no other one.                         *)
LEMMA SetAccountInDomain ==
    ASSUME NEW accts, NEW isNil \in BOOLEAN, NEW addr, NEW acc
    PROVE  DOMAIN SetAccountIn(accts, isNil, addr, acc) \subseteq
               DOMAIN accts \cup {addr}
BY DEF SetAccountIn, MapOf, EmptyMap

(* A precompile step on a made map keeps it made and keeps its accounts.   *)
LEMMA PrecompileStepKept ==
    ASSUME NEW phase,
           accounts' = SetPrecompiles(accounts, accountsNil, phase),
           accountsNil \in BOOLEAN, accountsNil' = FALSE
    PROVE  Kept
<1> SUFFICES ASSUME ~accountsNil PROVE Kept
  BY DEF Kept
<1>1. accounts' = SetPrecompiles(accounts, FALSE, phase)
  BY Zenon
<1>2. ASSUME NEW a \in DOMAIN accounts
      PROVE  /\ a \in DOMAIN accounts'
             /\ accounts'[a].balance = accounts[a].balance
             /\ accounts'[a].nonce = accounts[a].nonce
  <2>1. /\ a \in DOMAIN SetPrecompiles(accounts, FALSE, phase)
        /\ SetPrecompiles(accounts, FALSE, phase)[a].balance = accounts[a].balance
        /\ SetPrecompiles(accounts, FALSE, phase)[a].nonce = accounts[a].nonce
    BY SetPrecompilesKeeps, Zenon
  <2>2. QED
    BY <1>1, <2>1, Zenon
<1>3. QED
  BY <1>2 DEF Kept

(* Every step keeps GrowInv.                                               *)
LEMMA GrowInvStep ==
    ASSUME TypeOK, GrowInv, [Next]_vars
    PROVE  GrowInv'
<1>1. CASE CheckEngine
  BY <1>1 DEF CheckEngine, GrowInv
<1>2. CASE SetParams
  BY <1>2 DEF SetParams, GrowInv
<1>3. ASSUME NEW a \in Addresses, SetAccount(a) PROVE GrowInv'
  <2>1. DOMAIN accounts' \subseteq DOMAIN accounts \cup {a}
    BY <1>3, SetAccountInDomain DEF SetAccount, TypeOK
  <2>2. QED
    BY <1>3, <2>1 DEF SetAccount, GrowInv
<1>4. CASE EndAlloc
  BY <1>4 DEF EndAlloc, Goto, GrowInv
<1>5. CASE SetBasePrecompiles
  BY <1>5 DEF SetBasePrecompiles, Goto, GrowInv
<1>6. CASE SetByzantiumPrecompiles
  BY <1>6 DEF SetByzantiumPrecompiles, Goto, GrowInv
<1>7. CASE SetIstanbulPrecompiles
  BY <1>7 DEF SetIstanbulPrecompiles, Goto, GrowInv
<1>8. CASE UNCHANGED vars
  BY <1>8 DEF vars, GrowInv
<1>9. QED
  BY <1>1, <1>2, <1>3, <1>4, <1>5, <1>6, <1>7, <1>8 DEF Next

(* Every step keeps the accounts of a made map.                            *)
LEMMA KeptStep ==
    ASSUME TypeOK, GrowInv, [Next]_vars
    PROVE  Kept
<1>1. CASE CheckEngine
  BY <1>1 DEF CheckEngine, Kept
<1>2. CASE SetParams
  BY <1>2 DEF SetParams, Kept
<1>3. ASSUME NEW a \in Addresses, SetAccount(a) PROVE Kept
  <2> SUFFICES ASSUME ~accountsNil PROVE Kept
    BY <1>3 DEF SetAccount, Kept
  <2>1. a \notin DOMAIN accounts
    BY <1>3 DEF SetAccount, GrowInv
  <2>2. accounts' = SetAccountIn(accounts, FALSE, a, genesis.alloc[a])
    BY <1>3, Zenon DEF SetAccount, TypeOK
  <2>3. ASSUME NEW b \in DOMAIN accounts
        PROVE  b \in DOMAIN accounts' /\ accounts'[b] = accounts[b]
    <3>1. b /= a
      BY <2>1
    <3>2. /\ b \in DOMAIN SetAccountIn(accounts, FALSE, a, genesis.alloc[a])
          /\ SetAccountIn(accounts, FALSE, a, genesis.alloc[a])[b] = accounts[b]
      BY <3>1 DEF SetAccountIn, MapOf
    <3>3. QED
      BY <2>2, <3>2, Zenon
  <2>4. QED
    BY <1>3, <2>3 DEF SetAccount, Kept
<1>4. CASE EndAlloc
  BY <1>4 DEF EndAlloc, Kept
<1>5. CASE SetBasePrecompiles
  BY <1>5, PrecompileStepKept, Zenon DEF SetBasePrecompiles, TypeOK
<1>6. CASE SetByzantiumPrecompiles
  <2>1. CASE Byz(genesis) /= Nil
    BY <1>6, <2>1, PrecompileStepKept, Zenon DEF SetByzantiumPrecompiles, TypeOK
  <2>2. CASE Byz(genesis) = Nil
    BY <1>6, <2>2, Zenon DEF SetByzantiumPrecompiles, Kept
  <2>3. QED
    BY <2>1, <2>2
<1>7. CASE SetIstanbulPrecompiles
  <2>1. CASE Ist(genesis) /= Nil /\ Byz(genesis) /= Nil
    BY <1>7, <2>1, PrecompileStepKept, Zenon DEF SetIstanbulPrecompiles, TypeOK
  <2>2. CASE ~(Ist(genesis) /= Nil /\ Byz(genesis) /= Nil)
    BY <1>7, <2>2 DEF SetIstanbulPrecompiles, Kept
  <2>3. QED
    BY <2>1, <2>2
<1>8. CASE UNCHANGED vars
  BY <1>8 DEF vars, Kept
<1>9. QED
  BY <1>1, <1>2, <1>3, <1>4, <1>5, <1>6, <1>7, <1>8 DEF Next

(* Registry promise, for every value of the constants and every alloc      *)
(* order: once setAccount or setPrecompile has made spec.Accounts, no step *)
(* of newAlethGenesisSpec makes it again, removes an account or changes    *)
(* the balance or nonce of one.                                            *)
THEOREM AccountsOnlyGrowHolds == Spec => AccountsOnlyGrow
<1>1. Init => GrowInv
  BY DEF Init, GrowInv, EmptyMap
<1>2. TypeOK /\ GrowInv /\ [Next]_vars => GrowInv'
  BY GrowInvStep
<1>3. TypeOK /\ GrowInv /\ [Next]_vars => Kept
  BY KeptStep
<1>4. [][Kept]_vars => AccountsOnlyGrow
  BY DEF AccountsOnlyGrow, Kept
<1>5. QED
  BY <1>1, <1>2, <1>3, <1>4, TypeCorrect, PTL DEF Spec
=============================================================================
