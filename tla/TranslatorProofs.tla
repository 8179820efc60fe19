--------------------------- MODULE TranslatorProofs ---------------------------
(***************************************************************************)
(* Proof that the three builders of cmd/puppeth/genesis.go agree on their  *)
(* errors, for every value of the constants.  Each builder's error is a    *)
(* function of the genesis alone (its Outcome below), whatever the order   *)
(* of the alloc loop and however the builders' steps interleave; the       *)
(* three outcomes agree when the base forks and chain id are set.          *)
(***************************************************************************)
EXTENDS Translator, PhaseProofs, TLAPS

Ethash(g)  == g.config.ethash
ChainID(g) == g.config.chainID
IstWithoutByz(g) ==
    g.config.forks["Istanbul"] /= Nil /\ g.config.forks["Byzantium"] = Nil

(* What newAlethGenesisSpec returns as error: the engine check (99), the   *)
(* nil ChainID dereference (137), the Istanbul dependency check (182).     *)
AOutcome(g) ==
    IF ~Ethash(g) THEN "unsupported"
    ELSE IF ChainID(g) = Nil THEN "panic"
    ELSE IF IstWithoutByz(g) THEN "invalidFork"
    ELSE "none"

(* newParityChainSpec: the engine check (367), the nil base fork and       *)
(* ChainID dereferences (385-418), the nil balance dereference (437), the  *)
(* dependency check (487).                                                 *)
BOutcome(g) ==
    IF ~Ethash(g) THEN "unsupported"
    ELSE IF ~BaseScheduled(g) THEN "panic"
    ELSE IF ~BalancesSet(g) THEN "panic"
    ELSE IF IstWithoutByz(g) THEN "invalidFork"
    ELSE "none"

COutcome(g) == IF ~Ethash(g) THEN "unsupported" ELSE "none"

Middle == {"alloc", "base", "byzantium", "istanbul"}

(* Where each builder is, what it has checked so far, and that its error   *)
(* is set only by returning, and then to its outcome.                      *)
AInv ==
    /\ aPc \in A!Steps
    /\ aPc /= "done" => aErr = "none"
    /\ aPc \in {"params"} \cup Middle => Ethash(genesis)
    /\ aPc \in Middle => ChainID(genesis) /= Nil
    /\ aPc = "done" => aErr = AOutcome(genesis)

BInv ==
    /\ bPc \in B!Steps
    /\ bPc /= "done" => bErr = "none"
    /\ bPc \in {"params"} \cup Middle => Ethash(genesis)
    /\ bPc \in Middle => BaseScheduled(genesis)
    /\ bPc = "alloc" =>
          /\ bPending \subseteq DOMAIN genesis.alloc
          /\ \A a \in DOMAIN genesis.alloc \ bPending :
                genesis.alloc[a].balance /= Nil
    /\ bPc \in Middle \ {"alloc"} => BalancesSet(genesis)
    /\ bPc = "done" => bErr = BOutcome(genesis)

CInv ==
    /\ cPc \in {"check", "done"}
    /\ cPc = "check" => cErr = "none"
    /\ cPc = "done" => cErr = COutcome(genesis)

Inv == genesis \in A!GenesisModels /\ AInv /\ BInv /\ CInv

(* A genesis model's engine flag is a Boolean.                             *)
LEMMA EthashBoolean ==
    ASSUME NEW g \in A!GenesisModels
    PROVE  Ethash(g) \in BOOLEAN
BY DEF A!GenesisModels, A!Configs, Ethash

(* Every step of the Aleth builder keeps AInv and the genesis.             *)
LEMMA AStep ==
    ASSUME Inv, A!Next
    PROVE  AInv' /\ genesis' = genesis
<1>0. Ethash(genesis) \in BOOLEAN
  BY EthashBoolean DEF Inv
<1>1. CASE A!CheckEngine
  BY <1>0, <1>1 DEF A!CheckEngine, Inv, AInv, AOutcome, A!Steps, Ethash, Middle
<1>2. CASE A!SetParams
  BY <1>2 DEF A!SetParams, Inv, AInv, AOutcome, A!Steps, Middle, Ethash,
              ChainID
<1>3. ASSUME NEW a \in Addresses, A!SetAccount(a)
      PROVE  AInv' /\ genesis' = genesis
  BY <1>3 DEF A!SetAccount, Inv, AInv
<1>4. CASE A!EndAlloc
  BY <1>4 DEF A!EndAlloc, A!Goto, Inv, AInv, A!Steps, Middle
<1>5. CASE A!SetBasePrecompiles
  BY <1>5 DEF A!SetBasePrecompiles, A!Goto, Inv, AInv, A!Steps, Middle
<1>6. CASE A!SetByzantiumPrecompiles
  BY <1>6 DEF A!SetByzantiumPrecompiles, A!Goto, Inv, AInv, A!Steps, Middle
<1>7. CASE A!SetIstanbulPrecompiles
  BY <1>0, <1>7 DEF A!SetIstanbulPrecompiles, A!Goto, A!Ist, A!Byz, Inv, AInv,
                    AOutcome, IstWithoutByz, A!Steps, Middle
<1>8. QED
  BY <1>1, <1>2, <1>3, <1>4, <1>5, <1>6, <1>7 DEF A!Next

(* Every step of the Parity builder keeps BInv and the genesis.            *)
LEMMA BStep ==
    ASSUME Inv, B!Next
    PROVE  BInv' /\ genesis' = genesis
<1>0. Ethash(genesis) \in BOOLEAN
  BY EthashBoolean DEF Inv
<1>1. CASE B!CheckEngine
  BY <1>0, <1>1 DEF B!CheckEngine, Inv, BInv, BOutcome, B!Steps, Ethash, Middle
<1>2. CASE B!SetParams
  BY <1>2 DEF B!SetParams, B!BaseForks, Inv, BInv, BOutcome, BaseScheduled,
              B!Steps, Middle, Ethash
<1>3. ASSUME NEW a \in Addresses, B!SetAccount(a)
      PROVE  BInv' /\ genesis' = genesis
  <2>1. bPc = "alloc" /\ a \in bPending /\ a \in DOMAIN genesis.alloc
    BY <1>3 DEF B!SetAccount, Inv, BInv
  <2>2. CASE genesis.alloc[a].balance = Nil
    <3>1. ~BalancesSet(genesis)
      BY <2>1, <2>2 DEF BalancesSet
    <3>2. QED
      BY <1>0, <1>3, <2>1, <2>2, <3>1 DEF B!SetAccount, Inv, BInv, BOutcome,
                                         B!Steps, Middle
  <2>3. CASE genesis.alloc[a].balance /= Nil
    BY <1>3, <2>1, <2>3 DEF B!SetAccount, Inv, BInv
  <2>4. QED
    BY <2>2, <2>3
<1>4. CASE B!EndAlloc
  BY <1>4 DEF B!EndAlloc, B!Goto, Inv, BInv, B!Steps, Middle, BalancesSet
<1>5. CASE B!SetBasePrecompiles
  BY <1>5 DEF B!SetBasePrecompiles, B!Goto, Inv, BInv, B!Steps, Middle
<1>6. CASE B!SetByzantiumPrecompiles
  BY <1>6 DEF B!SetByzantiumPrecompiles, B!Goto, Inv, BInv, B!Steps, Middle
<1>7. CASE B!SetIstanbulPrecompiles
  BY <1>0, <1>7 DEF B!SetIstanbulPrecompiles, B!Goto, B!Ist, B!Byz, Inv, BInv,
                    BOutcome, IstWithoutByz, B!Steps, Middle
<1>8. QED
  BY <1>1, <1>2, <1>3, <1>4, <1>5, <1>6, <1>7 DEF B!Next

(* The pyethereum builder's one step keeps CInv and the genesis.           *)
LEMMA CStep ==
    ASSUME Inv, C!Build
    PROVE  CInv' /\ genesis' = genesis
<1>0. Ethash(genesis) \in BOOLEAN
  BY EthashBoolean DEF Inv
<1>1. QED
  BY <1>0 DEF C!Build, Inv, CInv, COutcome, Ethash

(* Inv holds when the three builders are entered.                          *)
LEMMA InvInit == Init => Inv
BY DEF Init, A!Init, B!Init, C!Init, Inv, AInv, BInv, CInv, A!Steps, B!Steps,
       Middle

(* Every step of any of the three builders keeps Inv.                      *)
LEMMA InvStep == ASSUME Inv, [Next]_vars PROVE Inv'
<1>1. CASE A!Next /\ UNCHANGED <<bvars, cvars>>
  <2>1. AInv' /\ genesis' = genesis
    BY <1>1, AStep
  <2>2. QED
    BY <1>1, <2>1 DEF Inv, BInv, CInv, bvars, cvars
<1>2. CASE B!Next /\ UNCHANGED <<avars, cvars>>
  <2>1. BInv' /\ genesis' = genesis
    BY <1>2, BStep
  <2>2. QED
    BY <1>2, <2>1 DEF Inv, AInv, CInv, avars, cvars
<1>3. CASE C!Build /\ UNCHANGED <<avars, bvars>>
  <2>1. CInv' /\ genesis' = genesis
    BY <1>3, CStep
  <2>2. QED
    BY <1>3, <2>1 DEF Inv, AInv, BInv, avars, bvars
<1>4. CASE UNCHANGED vars
  BY <1>4 DEF vars, avars, bvars, cvars, Inv, AInv, BInv, CInv
<1>5. QED
  BY <1>1, <1>2, <1>3, <1>4 DEF Next

(* On one genesis, with the base forks and the chain id set, the Aleth and *)
(* Parity builders return the same error, and the pyethereum builder fails *)
(* exactly when the engine is unsupported, for every value of the          *)
(* constants, every alloc order and every interleaving of the builders.    *)
THEOREM ErrorsAgreeHolds == Spec => []ErrorsAgree
<1>1. Init => Inv
  BY InvInit
<1>2. Inv /\ [Next]_vars => Inv'
  BY InvStep
<1>3. Inv => ErrorsAgree
  <2> SUFFICES ASSUME Inv, AllDone PROVE ErrorsAgree
    BY DEF ErrorsAgree
  <2>1. /\ aErr = AOutcome(genesis)
        /\ bErr = BOutcome(genesis)
        /\ cErr = COutcome(genesis)
    BY DEF Inv, AInv, BInv, CInv, AllDone
  <2>2. Ethash(genesis) \in BOOLEAN
    BY EthashBoolean DEF Inv
  <2>3. QED
    BY <2>1, <2>2 DEF ErrorsAgree, AOutcome, BOutcome, COutcome, BaseScheduled,
           ChainID
<1>4. QED
  BY <1>1, <1>2, <1>3, PTL DEF Spec

-----------------------------------------------------------------------------
(* The precompile definitions an accounts map holds: each address whose    *)
(* account has a builtin, with that builtin (Aleth's "precompiled",        *)
(* Parity's "builtin").                                                    *)
ADefs(m) == [a \in {x \in DOMAIN m : m[x].precompiled /= Nil} |->
                m[a].precompiled]
BDefs(m) == [a \in {x \in DOMAIN m : m[x].builtin /= Nil} |-> m[a].builtin]

ByzOf(g) == g.config.forks["Byzantium"]
IstOf(g) == g.config.forks["Istanbul"]

(* The definitions each builder has written at each block: none before     *)
(* its base block, then the phases in order.                                *)
APrecInv ==
    /\ aPc \in {"check", "params", "alloc", "base"} => ADefs(aAccounts) = NoDefs
    /\ aPc \in {"byzantium", "istanbul"} => ~aAccountsNil
    /\ aPc = "byzantium" =>
          ADefs(aAccounts) = Override(NoDefs, AlethBasePhase)
    /\ aPc = "istanbul" =>
          ADefs(aAccounts) = Override(Override(NoDefs, AlethBasePhase),
                                      AlethByzDefs(ByzOf(genesis)))
    /\ aPc = "done" /\ aErr = "none" =>
          ADefs(aAccounts) =
            Override(Override(Override(NoDefs, AlethBasePhase),
                              AlethByzDefs(ByzOf(genesis))),
                     AlethIstDefs(ByzOf(genesis), IstOf(genesis)))

BPrecInv ==
    /\ bPc \in {"check", "params", "alloc", "base"} => BDefs(bAccounts) = NoDefs
    /\ bPc = "byzantium" =>
          BDefs(bAccounts) = Override(NoDefs, ParityBasePhase)
    /\ bPc = "istanbul" =>
          BDefs(bAccounts) = Override(Override(NoDefs, ParityBasePhase),
                                      ParityByzDefs(ByzOf(genesis)))
    /\ bPc = "done" /\ bErr = "none" =>
          BDefs(bAccounts) =
            Override(Override(Override(NoDefs, ParityBasePhase),
                              ParityByzDefs(ByzOf(genesis))),
                     ParityIstDefs(ByzOf(genesis), IstOf(genesis)))

(* setPrecompile writes a phase's definitions over those of the map; the   *)
(* lazy make of a nil map changes nothing when the map holds none.         *)
LEMMA ADefsSetPrecompiles ==
    ASSUME NEW m, NEW isNil, isNil => ADefs(m) = NoDefs,
           NEW ph, \A n \in DOMAIN ph : ph[n] /= Nil
    PROVE  ADefs(A!SetPrecompiles(m, isNil, ph)) = Override(ADefs(m), ph)
<1>1. ADefs(A!MapOf(m, isNil)) = ADefs(m)
  BY DEF ADefs, A!MapOf, A!EmptyMap, NoDefs
<1>2. ADefs(A!SetPrecompiles(m, isNil, ph))
        = Override(ADefs(A!MapOf(m, isNil)), ph)
  BY Zenon DEF ADefs, A!SetPrecompiles, A!Account, A!ZeroAccount, Override
<1>3. QED
  BY <1>1, <1>2

(* setAccount keeps the definition an address had: none during the alloc  *)
(* loop.                                                                    *)
LEMMA ADefsSetAccountIn ==
    ASSUME NEW m, NEW isNil, ADefs(m) = NoDefs, NEW addr, NEW acc
    PROVE  ADefs(A!SetAccountIn(m, isNil, addr, acc)) = NoDefs
<1>1. ADefs(A!MapOf(m, isNil)) = NoDefs
  BY DEF ADefs, A!MapOf, A!EmptyMap, NoDefs
<1>2. \A x \in DOMAIN A!MapOf(m, isNil) : A!MapOf(m, isNil)[x].precompiled = Nil
  BY <1>1 DEF ADefs, NoDefs
<1>3. QED
  BY <1>2, Zenon DEF ADefs, A!SetAccountIn, A!Account, A!ZeroAccount, NoDefs

(* Parity's setPrecompile writes a phase's definitions over the map's.     *)
LEMMA BDefsSetPrecompiles ==
    ASSUME NEW m, NEW ph, \A n \in DOMAIN ph : ph[n] /= Nil
    PROVE  BDefs(B!SetPrecompiles(m, ph)) = Override(BDefs(m), ph)
BY Zenon DEF BDefs, B!SetPrecompiles, B!PAccount, Override

(* The alloc loop writes accounts with no builtin.                         *)
LEMMA BDefsPut ==
    ASSUME NEW m, BDefs(m) = NoDefs, NEW addr, NEW bal, NEW nonce
    PROVE  BDefs(B!Put(m, addr, B!PAccount(bal, nonce, Nil))) = NoDefs
<1>1. \A x \in DOMAIN m : m[x].builtin = Nil
  BY DEF BDefs, NoDefs
<1>2. QED
  BY <1>1, Zenon DEF BDefs, B!Put, B!PAccount, NoDefs

(* The builders' phase tables are the ones of the builtins modules.        *)
LEMMA PhasesSame ==
    ASSUME NEW b, NEW i
    PROVE  /\ A!AlethBasePhase = AlethBasePhase
           /\ A!AlethByzantiumPhase(b) = AlethByzantiumPhase(b)
           /\ A!AlethIstanbulPhase(b, i) = AlethIstanbulPhase(b, i)
           /\ B!ParityBasePhase = ParityBasePhase
           /\ B!ParityByzantiumPhase(b) = ParityByzantiumPhase(b)
           /\ B!ParityIstanbulPhase(b, i) = ParityIstanbulPhase(b, i)
<1>1. /\ A!AlethBasePhase = AlethBasePhase
      /\ A!AlethByzantiumPhase(b) = AlethByzantiumPhase(b)
      /\ A!AlethIstanbulPhase(b, i) = AlethIstanbulPhase(b, i)
  BY DEF A!AlethBasePhase, AlethBasePhase, A!AlethByzantiumPhase,
         AlethByzantiumPhase, A!AlethIstanbulPhase, AlethIstanbulPhase,
         A!Builtin, Builtin, A!Linear, Linear
<1>2. /\ B!ParityBasePhase = ParityBasePhase
      /\ B!ParityByzantiumPhase(b) = ParityByzantiumPhase(b)
      /\ B!ParityIstanbulPhase(b, i) = ParityIstanbulPhase(b, i)
  BY DEF B!ParityBasePhase, ParityBasePhase, B!ParityByzantiumPhase,
         ParityByzantiumPhase, B!ParityIstanbulPhase, ParityIstanbulPhase,
         B!Flat, Flat, B!Versioned, Versioned, B!PBuiltin, PBuiltin,
         B!Version, Version, B!Price, Price
<1>3. QED
  BY <1>1, <1>2

(* No phase defines an address as the nil pointer.                         *)
LEMMA PhasesNotNil ==
    ASSUME NEW b, NEW i
    PROVE  /\ \A n \in DOMAIN AlethBasePhase : AlethBasePhase[n] /= Nil
           /\ \A n \in DOMAIN ParityBasePhase : ParityBasePhase[n] /= Nil
           /\ b \in Blocks =>
                 /\ \A n \in DOMAIN AlethByzantiumPhase(b) :
                       AlethByzantiumPhase(b)[n] /= Nil
                 /\ \A n \in DOMAIN ParityByzantiumPhase(b) :
                       ParityByzantiumPhase(b)[n] /= Nil
           /\ b \in Blocks /\ i \in Blocks =>
                 /\ \A n \in DOMAIN AlethIstanbulPhase(b, i) :
                       AlethIstanbulPhase(b, i)[n] /= Nil
                 /\ \A n \in DOMAIN ParityIstanbulPhase(b, i) :
                       ParityIstanbulPhase(b, i)[n] /= Nil
<1>1. IsPhase(AlethBasePhase) /\ PIsPhase(ParityBasePhase)
  BY BasePhaseType, ParityBaseType
<1>2. ASSUME b \in Blocks
      PROVE  /\ IsPhase(AlethByzantiumPhase(b))
             /\ PIsPhase(ParityByzantiumPhase(b))
  BY <1>2, ByzantiumPhaseType, ParityByzantiumType
<1>3. ASSUME b \in Blocks, i \in Blocks
      PROVE  /\ IsPhase(AlethIstanbulPhase(b, i))
             /\ PIsPhase(ParityIstanbulPhase(b, i))
  BY <1>3, IstanbulPhaseType, ParityIstanbulType
<1>4. QED
  BY <1>1, <1>2, <1>3, NilNotBuiltin, NilNotParityBuiltin DEF IsPhase, PIsPhase

(* The fork blocks of a genesis model are blocks or nil.                   *)
LEMMA GenesisForks ==
    ASSUME NEW g \in A!GenesisModels
    PROVE  ByzOf(g) \in Blocks \cup {Nil} /\ IstOf(g) \in Blocks \cup {Nil}
BY DEF A!GenesisModels, A!Configs, A!ForkSchedules, A!ForkNames, ByzOf, IstOf

(* An unscheduled fork's phase changes no definition.                      *)
LEMMA OverrideNoDefs ==
    ASSUME NEW x, NEW y
    PROVE  Override(Override(x, y), NoDefs) = Override(x, y)
BY DEF Override, NoDefs

(* Every step of the Aleth builder keeps APrecInv.                         *)
LEMMA APrecStep ==
    ASSUME Inv, APrecInv, A!Next
    PROVE  APrecInv'
<1> DEFINE b == ByzOf(genesis)
           i == IstOf(genesis)
           Pre1 == Override(NoDefs, AlethBasePhase)
           Pre2 == Override(Pre1, AlethByzDefs(b))
<1>0. /\ genesis' = genesis
      /\ b \in Blocks \cup {Nil} /\ i \in Blocks \cup {Nil}
      /\ aPc /= "done" => aErr = "none"
  BY AStep, GenesisForks DEF Inv, AInv
<1>1. CASE A!CheckEngine
  BY <1>1 DEF A!CheckEngine, APrecInv
<1>2. CASE A!SetParams
  BY <1>2 DEF A!SetParams, APrecInv
<1>3. ASSUME NEW a \in Addresses, A!SetAccount(a) PROVE APrecInv'
  <2>1. ADefs(aAccounts') = NoDefs
    BY <1>3, ADefsSetAccountIn DEF A!SetAccount, APrecInv
  <2>2. QED
    BY <1>3, <2>1 DEF A!SetAccount, APrecInv
<1>4. CASE A!EndAlloc
  BY <1>4 DEF A!EndAlloc, A!Goto, APrecInv
<1>5. CASE A!SetBasePrecompiles
  <2>1. aAccounts' = A!SetPrecompiles(aAccounts, aAccountsNil, AlethBasePhase)
    BY <1>5, PhasesSame DEF A!SetBasePrecompiles
  <2>2. ADefs(aAccounts) = NoDefs
    BY <1>5 DEF A!SetBasePrecompiles, A!Goto, APrecInv
  <2>3. ADefs(aAccounts') = Pre1
    BY <2>1, <2>2, PhasesNotNil, ADefsSetPrecompiles
  <2>4. QED
    BY <1>5, <2>3 DEF A!SetBasePrecompiles, A!Goto, APrecInv
<1>6. CASE A!SetByzantiumPrecompiles
  <2>1. /\ aPc = "byzantium" /\ aPc' = "istanbul"
        /\ ~aAccountsNil /\ ~aAccountsNil'
        /\ ADefs(aAccounts) = Pre1
    BY <1>6, Zenon DEF A!SetByzantiumPrecompiles, A!Goto, APrecInv
  <2>2. ADefs(aAccounts') = Pre2
    <3>1. CASE b /= Nil
      <4>1. aAccounts' =
              A!SetPrecompiles(aAccounts, aAccountsNil, AlethByzantiumPhase(b))
        BY <1>6, <3>1, PhasesSame DEF A!SetByzantiumPrecompiles, A!Byz, ByzOf
      <4>2. \A n \in DOMAIN AlethByzantiumPhase(b) :
              AlethByzantiumPhase(b)[n] /= Nil
        BY <1>0, <3>1, PhasesNotNil
      <4>3. ADefs(aAccounts') = Override(Pre1, AlethByzantiumPhase(b))
        BY <2>1, <4>1, <4>2, ADefsSetPrecompiles
      <4>4. QED
        BY <3>1, <4>3 DEF AlethByzDefs
    <3>2. CASE b = Nil
      <4>1. aAccounts' = aAccounts
        BY <1>6, <3>2 DEF A!SetByzantiumPrecompiles, A!Byz, ByzOf
      <4>2. QED
        BY <2>1, <3>2, <4>1, OverrideNoDefs DEF AlethByzDefs
    <3>3. QED
      BY <3>1, <3>2
  <2>3. QED
    BY <1>0, <2>1, <2>2 DEF APrecInv
<1>7. CASE A!SetIstanbulPrecompiles
  <2>1. /\ aPc = "istanbul" /\ aPc' = "done" /\ aErr = "none"
        /\ ~aAccountsNil
        /\ ADefs(aAccounts) = Pre2
    BY <1>0, <1>7 DEF A!SetIstanbulPrecompiles, A!Goto, APrecInv
  <2>2. CASE i = Nil
    <3>1. aAccounts' = aAccounts /\ aErr' = aErr
      BY <1>7, <2>2 DEF A!SetIstanbulPrecompiles, A!Ist, IstOf
    <3>2. ADefs(aAccounts') = Override(Pre2, AlethIstDefs(b, i))
      BY <2>1, <2>2, <3>1, OverrideNoDefs DEF AlethIstDefs
    <3>3. QED
      BY <1>0, <2>1, <3>2 DEF APrecInv
  <2>3. CASE i /= Nil /\ b = Nil
    <3>1. aErr' = "invalidFork"
      BY <1>7, <2>3 DEF A!SetIstanbulPrecompiles, A!Ist, A!Byz, IstOf, ByzOf
    <3>2. QED
      BY <2>1, <3>1 DEF APrecInv
  <2>4. CASE i /= Nil /\ b /= Nil
    <3>1. /\ aAccounts' = A!SetPrecompiles(aAccounts, aAccountsNil,
                                           AlethIstanbulPhase(b, i))
          /\ aErr' = aErr
      BY <1>7, <2>4, PhasesSame
      DEF A!SetIstanbulPrecompiles, A!Ist, A!Byz, IstOf, ByzOf
    <3>2. \A n \in DOMAIN AlethIstanbulPhase(b, i) :
            AlethIstanbulPhase(b, i)[n] /= Nil
      BY <1>0, <2>4, PhasesNotNil
    <3>3. ADefs(aAccounts') = Override(Pre2, AlethIstDefs(b, i))
      BY <2>1, <2>4, <3>1, <3>2, ADefsSetPrecompiles DEF AlethIstDefs
    <3>4. QED
      BY <1>0, <2>1, <3>1, <3>3 DEF APrecInv
  <2>5. QED
    BY <2>2, <2>3, <2>4
<1>8. QED
  BY <1>1, <1>2, <1>3, <1>4, <1>5, <1>6, <1>7 DEF A!Next

(* Every step of the Parity builder keeps BPrecInv.                        *)
LEMMA BPrecStep ==
    ASSUME Inv, BPrecInv, B!Next
    PROVE  BPrecInv'
<1> DEFINE b == ByzOf(genesis)
           i == IstOf(genesis)
           Pre1 == Override(NoDefs, ParityBasePhase)
           Pre2 == Override(Pre1, ParityByzDefs(b))
<1>0. /\ genesis' = genesis
      /\ b \in Blocks \cup {Nil} /\ i \in Blocks \cup {Nil}
      /\ bPc /= "done" => bErr = "none"
  BY BStep, GenesisForks DEF Inv, BInv
<1>1. CASE B!CheckEngine
  BY <1>1 DEF B!CheckEngine, BPrecInv
<1>2. CASE B!SetParams
  BY <1>2 DEF B!SetParams, BPrecInv
<1>3. ASSUME NEW a \in Addresses, B!SetAccount(a) PROVE BPrecInv'
  <2>1. BDefs(bAccounts') = NoDefs
    BY <1>3, BDefsPut DEF B!SetAccount, BPrecInv
  <2>2. QED
    BY <1>3, <2>1 DEF B!SetAccount, BPrecInv
<1>4. CASE B!EndAlloc
  BY <1>4 DEF B!EndAlloc, B!Goto, BPrecInv
<1>5. CASE B!SetBasePrecompiles
  <2>1. bAccounts' = B!SetPrecompiles(bAccounts, ParityBasePhase)
    BY <1>5, PhasesSame DEF B!SetBasePrecompiles
  <2>2. BDefs(bAccounts) = NoDefs
    BY <1>5 DEF B!SetBasePrecompiles, B!Goto, BPrecInv
  <2>3. BDefs(bAccounts') = Pre1
    BY <2>1, <2>2, PhasesNotNil, BDefsSetPrecompiles
  <2>4. QED
    BY <1>5, <2>3 DEF B!SetBasePrecompiles, B!Goto, BPrecInv
<1>6. CASE B!SetByzantiumPrecompiles
  <2>1. /\ bPc = "byzantium" /\ bPc' = "istanbul"
        /\ BDefs(bAccounts) = Pre1
    BY <1>6 DEF B!SetByzantiumPrecompiles, B!Goto, BPrecInv
  <2>2. BDefs(bAccounts') = Pre2
    <3>1. CASE b /= Nil
      <4>1. bAccounts' = B!SetPrecompiles(bAccounts, ParityByzantiumPhase(b))
        BY <1>6, <3>1, PhasesSame DEF B!SetByzantiumPrecompiles, B!Byz, ByzOf
      <4>2. \A n \in DOMAIN ParityByzantiumPhase(b) :
              ParityByzantiumPhase(b)[n] /= Nil
        BY <1>0, <3>1, PhasesNotNil
      <4>3. BDefs(bAccounts') = Override(Pre1, ParityByzantiumPhase(b))
        BY <2>1, <4>1, <4>2, BDefsSetPrecompiles
      <4>4. QED
        BY <3>1, <4>3 DEF ParityByzDefs
    <3>2. CASE b = Nil
      <4>1. bAccounts' = bAccounts
        BY <1>6, <3>2 DEF B!SetByzantiumPrecompiles, B!Byz, ByzOf
      <4>2. QED
        BY <2>1, <3>2, <4>1, OverrideNoDefs DEF ParityByzDefs
    <3>3. QED
      BY <3>1, <3>2
  <2>3. QED
    BY <1>0, <2>1, <2>2 DEF BPrecInv
<1>7. CASE B!SetIstanbulPrecompiles
  <2>1. /\ bPc = "istanbul" /\ bPc' = "done" /\ bErr = "none"
        /\ BDefs(bAccounts) = Pre2
    BY <1>0, <1>7 DEF B!SetIstanbulPrecompiles, B!Goto, BPrecInv
  <2>2. CASE i = Nil
    <3>1. bAccounts' = bAccounts /\ bErr' = bErr
      BY <1>7, <2>2 DEF B!SetIstanbulPrecompiles, B!Ist, IstOf
    <3>2. BDefs(bAccounts') = Override(Pre2, ParityIstDefs(b, i))
      BY <2>1, <2>2, <3>1, OverrideNoDefs DEF ParityIstDefs
    <3>3. QED
      BY <1>0, <2>1, <3>2 DEF BPrecInv
  <2>3. CASE i /= Nil /\ b = Nil
    <3>1. bErr' = "invalidFork"
      BY <1>7, <2>3 DEF B!SetIstanbulPrecompiles, B!Ist, B!Byz, IstOf, ByzOf
    <3>2. QED
      BY <2>1, <3>1 DEF BPrecInv
  <2>4. CASE i /= Nil /\ b /= Nil
    <3>1. /\ bAccounts' = B!SetPrecompiles(bAccounts, ParityIstanbulPhase(b, i))
          /\ bErr' = bErr
      BY <1>7, <2>4, PhasesSame
      DEF B!SetIstanbulPrecompiles, B!Ist, B!Byz, IstOf, ByzOf
    <3>2. \A n \in DOMAIN ParityIstanbulPhase(b, i) :
            ParityIstanbulPhase(b, i)[n] /= Nil
      BY <1>0, <2>4, PhasesNotNil
    <3>3. BDefs(bAccounts') = Override(Pre2, ParityIstDefs(b, i))
      BY <2>1, <2>4, <3>1, <3>2, BDefsSetPrecompiles DEF ParityIstDefs
    <3>4. QED
      BY <1>0, <2>1, <3>1, <3>3 DEF BPrecInv
  <2>5. QED
    BY <2>2, <2>3, <2>4
<1>8. QED
  BY <1>1, <1>2, <1>3, <1>4, <1>5, <1>6, <1>7 DEF B!Next

(* Inv, with the definitions each builder has written.                     *)
PrecInv == Inv /\ APrecInv /\ BPrecInv

(* Every step of any of the three builders keeps PrecInv.                  *)
LEMMA PrecInvStep == ASSUME PrecInv, [Next]_vars PROVE PrecInv'
<1>1. Inv'
  BY InvStep DEF PrecInv
<1>2. CASE A!Next /\ UNCHANGED <<bvars, cvars>>
  <2>1. APrecInv' /\ genesis' = genesis
    BY <1>2, APrecStep, AStep DEF PrecInv
  <2>2. QED
    BY <1>1, <1>2, <2>1 DEF PrecInv, BPrecInv, bvars
<1>3. CASE B!Next /\ UNCHANGED <<avars, cvars>>
  <2>1. BPrecInv' /\ genesis' = genesis
    BY <1>3, BPrecStep, BStep DEF PrecInv
  <2>2. QED
    BY <1>1, <1>3, <2>1 DEF PrecInv, APrecInv, avars
<1>4. CASE C!Build /\ UNCHANGED <<avars, bvars>>
  <2>1. genesis' = genesis
    BY <1>4, CStep DEF PrecInv
  <2>2. QED
    BY <1>1, <1>4, <2>1 DEF PrecInv, APrecInv, BPrecInv, avars, bvars
<1>5. CASE UNCHANGED vars
  BY <1>1, <1>5 DEF PrecInv, APrecInv, BPrecInv, vars, avars, bvars
<1>6. QED
  BY <1>2, <1>3, <1>4, <1>5 DEF Next

(* On one genesis, whenever both the Aleth and the Parity builders return  *)
(* a document, the two define precompiles at the same addresses, each      *)
(* activated at the same block, for every value of the constants, every    *)
(* alloc order and every interleaving of the builders: the Istanbul        *)
(* overwrites of both keep the Byzantium activation.                       *)
THEOREM PrecompileActivationAgreesHolds == Spec => []PrecompileActivationAgrees
<1>1. Init => PrecInv
  BY InvInit, Zenon DEF Init, A!Init, B!Init, PrecInv, APrecInv, BPrecInv, ADefs,
                 BDefs, A!EmptyMap, B!EmptyAccounts, NoDefs
<1>2. PrecInv /\ [Next]_vars => PrecInv'
  BY PrecInvStep
<1>3. PrecInv => PrecompileActivationAgrees
  <2> SUFFICES ASSUME PrecInv, aPc = "done", bPc = "done", aErr = "none",
                      bErr = "none"
               PROVE  PrecompileActivationAgrees
    BY DEF PrecompileActivationAgrees
  <2> DEFINE b == ByzOf(genesis)
             i == IstOf(genesis)
  <2>1. /\ b \in Blocks \cup {Nil} /\ i \in Blocks \cup {Nil}
        /\ i /= Nil => b /= Nil
    <3>1. aErr = AOutcome(genesis)
      BY DEF PrecInv, Inv, AInv
    <3>2. ~IstWithoutByz(genesis)
      BY <3>1 DEF AOutcome
    <3>3. QED
      BY <3>2, GenesisForks DEF PrecInv, Inv, IstWithoutByz, ByzOf, IstOf
  <2>2. /\ ADefs(aAccounts) = AlethDefs(b, i)
        /\ BDefs(bAccounts) = ParityDefs(b, i)
    BY LatestOfChain DEF PrecInv, APrecInv, BPrecInv, AlethDefs, ParityDefs
  <2>3. /\ DOMAIN AlethDefs(b, i) = GatedAddrs(b, i)
        /\ DOMAIN ParityDefs(b, i) = GatedAddrs(b, i)
        /\ \A n \in GatedAddrs(b, i) :
              AlethDefs(b, i)[n].start = ParityDefs(b, i)[n].activateAt
    BY <2>1, AlethGates, ParityGates, SMTT(120)
  <2>4. QED
    BY <2>2, <2>3, SMTT(120) DEF PrecompileActivationAgrees, ADefs, BDefs
<1>4. QED
  BY <1>1, <1>2, <1>3, PTL DEF Spec
====
