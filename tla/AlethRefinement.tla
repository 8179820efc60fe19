---------------------------- MODULE AlethRefinement ----------------------------
(***************************************************************************)
(* Proof that newAlethGenesisSpec implements the abstract translator       *)
(* AlethAbstract (the safety part of AlethRefinesAbstract), for every      *)
(* value of the constants whose chain ids are all set.  The invariant      *)
(* RInv says, at each block of the function, which accounts map it has     *)
(* built so far: the visited alloc accounts during the range, then the     *)
(* alloc accounts with the precompile definitions of the phases already    *)
(* written, each address holding that of the latest one.                   *)
(***************************************************************************)
EXTENDS AlethProofs

(* The accounts map of the alloc addresses in V, as setAccount writes them *)
(* into a map that holds nothing else.                                     *)
AllocAccounts(g, V) ==
    [a \in V |-> Account(g.alloc[a].balance, g.alloc[a].nonce, Nil)]

(* The accounts map of every alloc address and of the precompile addresses *)
(* of pre, which gives each its definition.                                *)
Expect(g, pre) ==
    [a \in DOMAIN g.alloc \cup DOMAIN pre |->
        Account(IF a \in DOMAIN g.alloc THEN g.alloc[a].balance ELSE Nil,
                IF a \in DOMAIN g.alloc THEN g.alloc[a].nonce ELSE 0,
                IF a \in DOMAIN pre THEN pre[a] ELSE Nil)]

(* The precompile definitions after the base, Byzantium and Istanbul       *)
(* blocks of newAlethGenesisSpec.                                          *)
Pre1(g) == Override(Abs!EmptyPhase, Abs!ActivePhases(g)[1])
Pre2(g) == Override(Pre1(g), Abs!ActivePhases(g)[2])
Pre3(g) == Override(Pre2(g), Abs!ActivePhases(g)[3])

-----------------------------------------------------------------------------
(* The abstract module's copies of the genesis model and the phases are    *)
(* the builder's.                                                          *)
LEMMA SameModel ==
    /\ Abs!GenesisModels = GenesisModels
    /\ Abs!AlethBasePhase = AlethBasePhase
    /\ \A b : Abs!AlethByzantiumPhase(b) = AlethByzantiumPhase(b)
    /\ \A b, i : Abs!AlethIstanbulPhase(b, i) = AlethIstanbulPhase(b, i)
    /\ \A n : Abs!Uint64(n) = Uint64(n)
<1>1. Abs!GenesisModels = GenesisModels
  BY DEF Abs!GenesisModels, GenesisModels, Abs!Configs, Configs, Abs!Allocs,
         Allocs, Abs!ForkSchedules, ForkSchedules, Abs!ForkNames, ForkNames,
         Abs!GenesisAccounts, GenesisAccounts
<1>2. Abs!AlethBasePhase = AlethBasePhase
  BY DEF Abs!AlethBasePhase, AlethBasePhase, Abs!Builtin, Builtin,
         Abs!Linear, Linear
<1>3. \A b : Abs!AlethByzantiumPhase(b) = AlethByzantiumPhase(b)
  BY DEF Abs!AlethByzantiumPhase, AlethByzantiumPhase, Abs!Builtin, Builtin,
         Abs!Linear, Linear
<1>4. \A b, i : Abs!AlethIstanbulPhase(b, i) = AlethIstanbulPhase(b, i)
  BY DEF Abs!AlethIstanbulPhase, AlethIstanbulPhase, Abs!Builtin, Builtin
<1>5. \A n : Abs!Uint64(n) = Uint64(n)
  BY DEF Abs!Uint64, Uint64
<1>6. QED
  BY <1>1, <1>2, <1>3, <1>4, <1>5

(* Writing an alloc account not yet visited into the map of the visited    *)
(* ones gives the map of the visited ones and it.                          *)
LEMMA AllocStep ==
    ASSUME NEW g, NEW V, NEW a, a \notin V
    PROVE  SetAccountIn(AllocAccounts(g, V), FALSE, a, g.alloc[a])
             = AllocAccounts(g, V \cup {a})
BY Zenon DEF SetAccountIn, MapOf, AllocAccounts, Account, ZeroAccount

(* With every alloc address visited and no precompile written, the map is  *)
(* Expect with no definitions.                                             *)
LEMMA AllocDone ==
    ASSUME NEW g
    PROVE  AllocAccounts(g, DOMAIN g.alloc) = Expect(g, Abs!EmptyPhase)
BY DEF AllocAccounts, Expect, Abs!EmptyPhase

(* The map of no account is the made, empty map.                           *)
LEMMA AllocNone ==
    ASSUME NEW g
    PROVE  AllocAccounts(g, {}) = EmptyMap
BY DEF AllocAccounts, EmptyMap

(* setPrecompile for every address of a phase adds the phase's             *)
(* definitions over the earlier ones and keeps balances and nonces.        *)
LEMMA SetPrecompilesExpect ==
    ASSUME NEW g, NEW pre, NEW ph
    PROVE  SetPrecompiles(Expect(g, pre), FALSE, ph) = Expect(g, Override(pre, ph))
BY Zenon DEF SetPrecompiles, MapOf, Expect, Override, Account, ZeroAccount

(* A phase with no address changes nothing.                                *)
LEMMA OverrideEmpty ==
    ASSUME NEW pre, pre = [n \in DOMAIN pre |-> pre[n]]
    PROVE  Override(pre, Abs!EmptyPhase) = pre
BY DEF Override, Abs!EmptyPhase
(* Three phases written in order leave each address with the definition of *)
(* the latest phase that has it.                                           *)
LEMMA OverrideChain ==
    ASSUME NEW p1, NEW p2, NEW p3
    PROVE  Override(Override(Override(Abs!EmptyPhase, p1), p2), p3)
             = Latest(p1, p2, p3)
BY DEF Override, Abs!EmptyPhase, Latest

(* After the Istanbul block, the map is the one the abstract translator    *)
(* promises.                                                               *)
LEMMA FinalAccounts ==
    ASSUME NEW g
    PROVE  Expect(g, Pre3(g)) = Abs!ExpectedAccounts(g)
<1> DEFINE AP == Abs!ActivePhases(g)
<1>1. Pre3(g) = [n \in Abs!PrecompileAddrs(g) |-> Abs!FinalBuiltin(g, n)]
  <2>1. Pre3(g) = Latest(AP[1], AP[2], AP[3])
    BY OverrideChain DEF Pre3, Pre2, Pre1
  <2>2. QED
    BY <2>1 DEF Latest, Abs!PrecompileAddrs, Abs!FinalBuiltin
<1>2. QED
  BY <1>1 DEF Expect, Abs!ExpectedAccounts, Account

(* Before the map is made it is empty, so the registry's lazy make leaves  *)
(* the map as it is.                                                       *)
LEMMA SetAccountInMade ==
    ASSUME NEW m, NEW isNil \in BOOLEAN, isNil => m = EmptyMap,
           NEW addr, NEW acc
    PROVE  SetAccountIn(m, isNil, addr, acc) = SetAccountIn(m, FALSE, addr, acc)
BY DEF SetAccountIn, MapOf

LEMMA SetPrecompilesMade ==
    ASSUME NEW m, NEW isNil \in BOOLEAN, isNil => m = EmptyMap, NEW ph
    PROVE  SetPrecompiles(m, isNil, ph) = SetPrecompiles(m, FALSE, ph)
BY DEF SetPrecompiles, MapOf
-----------------------------------------------------------------------------
Middle == {"alloc", "base", "byzantium", "istanbul"}

(* The fields of spec.Params and spec.Genesis written from the genesis.    *)
ParamsSet ==
    /\ params.forks = [f \in AlethForks |-> genesis.config.forks[f]]
    /\ params.chainID = Uint64(genesis.config.chainID)
    /\ header = genesis.header

(* The accounts map newAlethGenesisSpec has built at each block, and what  *)
(* it has checked; once it returns, its result is the translation.         *)
RInv ==
    /\ pc /= "done" => err = "none"
    /\ accountsNil => accounts = EmptyMap
    /\ pc \in {"check", "params"} => accounts = EmptyMap
    /\ pc \in {"params"} \cup Middle => genesis.config.ethash
    /\ pc \in Middle => ParamsSet /\ genesis.config.chainID /= Nil
    /\ pc = "alloc" =>
          accounts = AllocAccounts(genesis, DOMAIN genesis.alloc \ pending)
    /\ pc = "base" => accounts = Expect(genesis, Abs!EmptyPhase)
    /\ pc = "byzantium" => accounts = Expect(genesis, Pre1(genesis)) /\ ~accountsNil
    /\ pc = "istanbul" => accounts = Expect(genesis, Pre2(genesis)) /\ ~accountsNil
    /\ pc = "done" => Returned = Abs!Translate(genesis)
    /\ pc = "done" /\ err = "none" =>
          accounts = Expect(genesis, Pre3(genesis)) /\ ~accountsNil

(* The safety part of AlethRefinesAbstract.                                *)
AbsSafety == Abs!AbsInit /\ [][Abs!Build]_Abs!absvars

(* No step of the builder changes its genesis argument.                    *)
LEMMA GenesisConstant ==
    ASSUME [Next]_vars PROVE genesis' = genesis
BY DEF Next, vars, CheckEngine, SetParams, SetAccount, EndAlloc,
       SetBasePrecompiles, SetByzantiumPrecompiles, SetIstanbulPrecompiles

(* The builder takes no step once it has returned.                         *)
LEMMA DoneStutters ==
    ASSUME pc = "done", [Next]_vars PROVE UNCHANGED vars
BY DEF Next, CheckEngine, SetParams, SetAccount, EndAlloc, Goto,
       SetBasePrecompiles, SetByzantiumPrecompiles, SetIstanbulPrecompiles

(* Until it returns, the builder's result is "pending".                    *)
LEMMA PendingUntilDone ==
    ASSUME pc /= "done" PROVE Returned = Abs!Pending
BY DEF Returned, Abs!Pending, Abs!NoDocument

(* The phases the abstract translator reads from the genesis are the ones  *)
(* the builder writes at its base, Byzantium and Istanbul blocks.          *)
LEMMA PhasesOf ==
    ASSUME NEW g
    PROVE  /\ Abs!ActivePhases(g)[1] = AlethBasePhase
           /\ Abs!ActivePhases(g)[2] =
                IF Byz(g) /= Nil THEN AlethByzantiumPhase(Byz(g))
                ELSE Abs!EmptyPhase
           /\ Abs!ActivePhases(g)[3] =
                IF Ist(g) /= Nil THEN AlethIstanbulPhase(Byz(g), Ist(g))
                ELSE Abs!EmptyPhase
BY SameModel DEF Abs!ActivePhases, Byz, Ist

(* The document the builder returns, with the forks, chain id and header   *)
(* copied and the accounts of all three phases, is the translation of a    *)
(* supported genesis that does not schedule Istanbul without Byzantium.    *)
LEMMA DocumentIsTranslation ==
    ASSUME NEW g, g.config.ethash, g.config.chainID /= Nil,
           ~(Ist(g) /= Nil /\ Byz(g) = Nil)
    PROVE  [err |-> "none",
            forks |-> [f \in AlethForks |-> g.config.forks[f]],
            chainID |-> Uint64(g.config.chainID),
            header |-> g.header,
            accounts |-> Expect(g, Pre3(g))]
           = Abs!Translate(g)
<1>1. Expect(g, Pre3(g)) = Abs!ExpectedAccounts(g)
  BY FinalAccounts
<1>2. Abs!Uint64(g.config.chainID) = Uint64(g.config.chainID)
  BY SameModel
<1>3. QED
  BY <1>1, <1>2 DEF Abs!Translate, Abs!AbsForks, AlethForks, Abs!ForkNames,
                    ForkNames, Ist, Byz

(* Every step of the builder keeps RInv.                                   *)
LEMMA RInvStep ==
    ASSUME RInv, TypeOK, [Next]_vars
    PROVE  RInv'
<1>0. /\ genesis \in GenesisModels
      /\ genesis.config.ethash \in BOOLEAN
      /\ accountsNil \in BOOLEAN
      /\ pending \subseteq DOMAIN genesis.alloc
  BY DEF TypeOK, GenesisModels, Configs
<1>1. CASE CheckEngine
  BY <1>0, <1>1 DEF CheckEngine, RInv, Middle, Returned, Abs!Translate,
                    Abs!NoDocument
<1>2. CASE SetParams
  <2>0. CASE genesis.config.chainID = Nil
    BY <1>2, <2>0 DEF SetParams, RInv, Middle, Returned, Abs!Translate,
                      Abs!NoDocument
  <2>1. CASE genesis.config.chainID /= Nil
    <3>1. /\ pc' = "alloc" /\ UNCHANGED <<genesis, err, accounts, accountsNil>>
          /\ pending' = DOMAIN genesis.alloc
          /\ ParamsSet'
      BY <1>2, <2>1 DEF SetParams, ParamsSet
    <3>2. accounts' = AllocAccounts(genesis', DOMAIN genesis'.alloc \ pending')
      <4>1. DOMAIN genesis.alloc \ DOMAIN genesis.alloc = {}
        OBVIOUS
      <4>2. QED
        BY <1>2, <3>1, <4>1, AllocNone DEF SetParams, RInv
    <3>3. QED
      BY <1>2, <2>1, <3>1, <3>2 DEF SetParams, RInv, Middle
  <2>2. QED
    BY <2>0, <2>1
<1>3. ASSUME NEW a \in Addresses, SetAccount(a) PROVE RInv'
  <2> DEFINE V == DOMAIN genesis.alloc \ pending
  <2>1. /\ pc = "alloc" /\ a \in pending /\ a \notin V
        /\ accounts = AllocAccounts(genesis, V)
    BY <1>3 DEF SetAccount, RInv
  <2>2. accounts' = SetAccountIn(AllocAccounts(genesis, V), FALSE, a,
                                 genesis.alloc[a])
    BY <1>0, <1>3, <2>1, SetAccountInMade, Zenon DEF SetAccount, RInv
  <2>3. accounts' = AllocAccounts(genesis, V \cup {a})
    BY <2>1, <2>2, AllocStep, Zenon
  <2>4. V \cup {a} = DOMAIN genesis'.alloc \ pending'
    BY <1>0, <1>3, <2>1 DEF SetAccount
  <2>5. QED
    BY <1>3, <2>3, <2>4 DEF SetAccount, RInv, ParamsSet
<1>4. CASE EndAlloc
  <2>1. accounts = AllocAccounts(genesis, DOMAIN genesis.alloc)
    BY <1>4 DEF EndAlloc, Goto, RInv
  <2>2. QED
    BY <1>4, <2>1, AllocDone DEF EndAlloc, Goto, RInv, Middle, ParamsSet
<1>5. CASE SetBasePrecompiles
  <2>1. accounts' = SetPrecompiles(Expect(genesis, Abs!EmptyPhase), FALSE,
                                   AlethBasePhase)
    BY <1>0, <1>5, SetPrecompilesMade, Zenon DEF SetBasePrecompiles, Goto, RInv
  <2>2. accounts' = Expect(genesis, Pre1(genesis))
    <3>1. Pre1(genesis) = Override(Abs!EmptyPhase, AlethBasePhase)
      BY PhasesOf DEF Pre1
    <3>2. SetPrecompiles(Expect(genesis, Abs!EmptyPhase), FALSE, AlethBasePhase)
            = Expect(genesis, Override(Abs!EmptyPhase, AlethBasePhase))
      BY SetPrecompilesExpect
    <3>3. QED
      BY <2>1, <3>1, <3>2, Zenon
  <2>3. QED
    BY <1>5, <2>2 DEF SetBasePrecompiles, Goto, RInv, Middle, ParamsSet
<1>6. CASE SetByzantiumPrecompiles
  <2>1. accounts = Expect(genesis, Pre1(genesis)) /\ ~accountsNil
    BY <1>6 DEF SetByzantiumPrecompiles, Goto, RInv
  <2>2. accounts' = Expect(genesis, Pre2(genesis))
    <3>1. CASE Byz(genesis) /= Nil
      <4>1. accounts' = SetPrecompiles(Expect(genesis, Pre1(genesis)), FALSE,
                                       AlethByzantiumPhase(Byz(genesis)))
        BY <1>0, <1>6, <2>1, <3>1, Zenon DEF SetByzantiumPrecompiles
      <4>2. Pre2(genesis) = Override(Pre1(genesis),
                                     AlethByzantiumPhase(Byz(genesis)))
        BY <3>1, PhasesOf DEF Pre2
      <4>3. SetPrecompiles(Expect(genesis, Pre1(genesis)), FALSE,
                           AlethByzantiumPhase(Byz(genesis)))
            = Expect(genesis, Override(Pre1(genesis),
                                       AlethByzantiumPhase(Byz(genesis))))
        BY SetPrecompilesExpect
      <4>4. QED
        BY <4>1, <4>2, <4>3
    <3>2. CASE Byz(genesis) = Nil
      <4>1. Pre2(genesis) = Pre1(genesis)
        BY <3>2, PhasesOf, OverrideEmpty DEF Pre2, Pre1, Override
      <4>2. QED
        BY <1>6, <2>1, <3>2, <4>1 DEF SetByzantiumPrecompiles
    <3>3. QED
      BY <3>1, <3>2
  <2>3. QED
    BY <1>6, <2>1, <2>2, Zenon DEF SetByzantiumPrecompiles, Goto, RInv, Middle,
                            ParamsSet
<1>7. CASE SetIstanbulPrecompiles
  <2>1. /\ accounts = Expect(genesis, Pre2(genesis)) /\ ~accountsNil
        /\ genesis.config.ethash /\ ParamsSet /\ err = "none"
        /\ genesis.config.chainID /= Nil
    BY <1>7 DEF SetIstanbulPrecompiles, Goto, RInv, Middle
  <2>2. CASE Ist(genesis) = Nil
    <3>1. Pre3(genesis) = Pre2(genesis)
      <4>1. Pre2(genesis) = [n \in DOMAIN Pre2(genesis) |-> Pre2(genesis)[n]]
        BY DEF Pre2, Override
      <4>2. Abs!ActivePhases(genesis)[3] = Abs!EmptyPhase
        BY <2>2, PhasesOf
      <4>3. QED
        BY <4>1, <4>2, OverrideEmpty DEF Pre3
    <3>2. Returned' = Abs!Translate(genesis')
      BY <1>7, <2>1, <2>2, <3>1, DocumentIsTranslation
      DEF SetIstanbulPrecompiles, Goto, Returned, ParamsSet
    <3>3. /\ pc' = "done" /\ err' = "none"
          /\ UNCHANGED <<genesis, accounts, accountsNil>>
      BY <1>7, <2>1, <2>2 DEF SetIstanbulPrecompiles, Goto
    <3>4. QED
      BY <1>0, <2>1, <3>1, <3>2, <3>3 DEF RInv, Middle
  <2>3. CASE Ist(genesis) /= Nil /\ Byz(genesis) = Nil
    <3>1. Returned' = Abs!Translate(genesis')
      BY <1>7, <2>1, <2>3 DEF SetIstanbulPrecompiles, Goto, Returned,
                              Abs!Translate, Abs!NoDocument, Ist, Byz
    <3>2. /\ pc' = "done" /\ err' = "invalidFork"
          /\ UNCHANGED <<genesis, accounts, accountsNil>>
      BY <1>7, <2>3 DEF SetIstanbulPrecompiles, Goto
    <3>3. QED
      BY <1>0, <2>1, <3>1, <3>2 DEF RInv, Middle
  <2>4. CASE Ist(genesis) /= Nil /\ Byz(genesis) /= Nil
    <3>1. accounts' = SetPrecompiles(Expect(genesis, Pre2(genesis)), FALSE,
                        AlethIstanbulPhase(Byz(genesis), Ist(genesis)))
      BY <1>0, <1>7, <2>1, <2>4, Zenon DEF SetIstanbulPrecompiles
    <3>2. accounts' = Expect(genesis, Pre3(genesis))
      <4>1. Pre3(genesis) = Override(Pre2(genesis),
                              AlethIstanbulPhase(Byz(genesis), Ist(genesis)))
        BY <2>4, PhasesOf DEF Pre3
      <4>2. SetPrecompiles(Expect(genesis, Pre2(genesis)), FALSE,
                           AlethIstanbulPhase(Byz(genesis), Ist(genesis)))
              = Expect(genesis, Override(Pre2(genesis),
                           AlethIstanbulPhase(Byz(genesis), Ist(genesis))))
        BY SetPrecompilesExpect
      <4>3. QED
        BY <3>1, <4>1, <4>2, Zenon
    <3>3. Returned' = Abs!Translate(genesis')
      BY <1>7, <2>1, <2>4, <3>2, DocumentIsTranslation
      DEF SetIstanbulPrecompiles, Goto, Returned, ParamsSet
    <3>4. QED
      BY <1>7, <3>2, <3>3 DEF SetIstanbulPrecompiles, Goto, RInv, Middle
  <2>5. QED
    BY <2>2, <2>3, <2>4
<1>8. CASE UNCHANGED vars
  BY <1>8 DEF vars, RInv, ParamsSet, Returned
<1>9. QED
  BY <1>1, <1>2, <1>3, <1>4, <1>5, <1>6, <1>7, <1>8 DEF Next

(* RInv holds when newAlethGenesisSpec is entered.                         *)
LEMMA RInvInit == Init => RInv
BY DEF Init, RInv, Middle

(* Every behaviour of newAlethGenesisSpec, over every order of the range   *)
(* over genesis.Alloc, is one of the abstract translator under the mapping *)
(* of Returned: "pending" until the function returns, then in one step the *)
(* document or the error AlethAbstract promises, the panic of              *)
(* ChainID.Uint64() on a nil chain id included.                            *)
THEOREM AlethImplementsAbstract == Spec => AbsSafety
<1>1. Init => RInv
  BY RInvInit
<1>2. RInv /\ TypeOK /\ [Next]_vars => RInv'
  BY RInvStep
<1>3. Init => Abs!AbsInit
  BY SameModel, PendingUntilDone DEF Init, Abs!AbsInit
<1>4. RInv /\ RInv' /\ TypeOK /\ [Next]_vars => [Abs!Build]_Abs!absvars
  <2> SUFFICES ASSUME RInv, RInv', TypeOK, [Next]_vars
               PROVE  [Abs!Build]_Abs!absvars
    OBVIOUS
  <2>1. genesis' = genesis
    BY GenesisConstant
  <2>2. CASE pc = "done"
    BY <2>2, DoneStutters DEF vars, Returned, Abs!absvars
  <2>3. CASE pc /= "done" /\ pc' /= "done"
    <3>1. Returned = Abs!Pending /\ Returned' = Abs!Pending
      BY <2>3 DEF Returned, Abs!Pending, Abs!NoDocument
    <3>2. QED
      BY <2>1, <3>1 DEF Abs!absvars
  <2>4. CASE pc /= "done" /\ pc' = "done"
    <3>1. Returned = Abs!Pending
      BY <2>4, PendingUntilDone
    <3>2. Returned' = Abs!Translate(genesis)
      BY <2>1, <2>4 DEF RInv
    <3>3. QED
      BY <2>1, <3>1, <3>2 DEF Abs!Build
  <2>5. QED
    BY <2>2, <2>3, <2>4
<1>5. QED
  BY <1>1, <1>2, <1>3, <1>4, TypeCorrect, PTL DEF Spec, AbsSafety
=============================================================================
