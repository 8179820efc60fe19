--------------------------- MODULE ParityRefinement ---------------------------
(***************************************************************************)
(* Proof that newParityChainSpec implements the atomic translator          *)
(* ParityAbstract (the safety part of ParityRefinesAbstract), for every    *)
(* value of the constants.  Two facts carry it:                            *)
(*   - the Frontier seed and the four fork setters, called in the code's   *)
(*     order, build exactly the era maps and transitions ParityAbstract    *)
(*     describes by content (EthashDescribed);                             *)
(*   - the invariant PRefInv, which adds to PRInv (the accounts map at     *)
(*     each block) what the function has checked and written before it,   *)
(*     and says that once it returns its result is the translation.        *)
(***************************************************************************)
EXTENDS ParityProofs

(* The abstract module's copies of the model, the phases and the Ethash    *)
(* constants are the builder's.                                            *)
LEMMA SameModel ==
    /\ PAbs!GenesisModels = GenesisModels
    /\ PAbs!ParityBasePhase = ParityBasePhase
    /\ \A b : PAbs!ParityByzantiumPhase(b) = ParityByzantiumPhase(b)
    /\ \A b, i : PAbs!ParityIstanbulPhase(b, i) = ParityIstanbulPhase(b, i)
    /\ \A n : PAbs!Uint64(n) = Uint64(n)
    /\ PAbs!MaxInt = MaxInt
    /\ \A n : PAbs!EncodeBig(n) = EncodeBig(n)
    /\ PAbs!FeatureFork = FeatureFork
    /\ PAbs!Features = Features
    /\ PAbs!BaseForks = BaseForks
<1>1. PAbs!GenesisModels = GenesisModels
  BY DEF PAbs!GenesisModels, GenesisModels, PAbs!Configs, Configs,
         PAbs!Allocs, Allocs, PAbs!ForkSchedules, ForkSchedules,
         PAbs!ForkNames, ForkNames, PAbs!GenesisAccounts, GenesisAccounts
<1>2. PAbs!ParityBasePhase = ParityBasePhase
  BY DEF PAbs!ParityBasePhase, ParityBasePhase, PAbs!Flat, Flat,
         PAbs!PBuiltin, PBuiltin, PAbs!Price, Price
<1>3. \A b : PAbs!ParityByzantiumPhase(b) = ParityByzantiumPhase(b)
  BY DEF PAbs!ParityByzantiumPhase, ParityByzantiumPhase, PAbs!Flat, Flat,
         PAbs!PBuiltin, PBuiltin, PAbs!Price, Price
<1>4. \A b, i : PAbs!ParityIstanbulPhase(b, i) = ParityIstanbulPhase(b, i)
  BY DEF PAbs!ParityIstanbulPhase, ParityIstanbulPhase, PAbs!Flat, Flat,
         PAbs!PBuiltin, PBuiltin, PAbs!Price, Price, PAbs!Versioned,
         Versioned, PAbs!Version, Version
<1>5. \A n : PAbs!EncodeBig(n) = EncodeBig(n)
  BY DEF PAbs!EncodeBig, EncodeBig, PAbs!HexDigits, HexDigits
<1>6. QED
  BY <1>1, <1>2, <1>3, <1>4, <1>5
     DEF PAbs!Uint64, Uint64, PAbs!MaxInt, MaxInt, PAbs!FeatureFork,
         FeatureFork, PAbs!Features, Features, PAbs!BaseForks, BaseForks

(* The Ethash section ParityAbstract describes for genesis g.              *)
Described(g) ==
    EthashRec(PAbs!Rewards(g), PAbs!BombDelays(g), PAbs!Transitions(g))

(* The keys of the era maps are the encodings of the scheduled era blocks. *)
LEMMA EraKeysOf ==
    ASSUME NEW g
    PROVE  PAbs!EraKeys(g) =
             (IF g.config.forks["Byzantium"] /= Nil
              THEN {EncodeBig(g.config.forks["Byzantium"])} ELSE {})
             \cup
             (IF g.config.forks["Constantinople"] /= Nil
              THEN {EncodeBig(g.config.forks["Constantinople"])} ELSE {})
BY SameModel DEF PAbs!EraKeys, PAbs!Eras

(* Started from the Frontier seed, setByzantium then setConstantinople     *)
(* leave in each era map, at every key, the entry of the latest fork that  *)
(* writes it; setConstantinopleFix and setIstanbul leave the maps alone.   *)
LEMMA SettersEras ==
    ASSUME NEW g
    PROVE  /\ ForkSetters(g).reward = PAbs!Rewards(g)
           /\ ForkSetters(g).delays = PAbs!BombDelays(g)
<1> DEFINE fk == g.config.forks
           b == fk["Byzantium"]
           c == fk["Constantinople"]
           s0 == Frontier(g)
           s1 == IfSet(s0, b, SetByzantium)
           s2 == IfSet(s1, c, SetConstantinople)
           s3 == IfSet(s2, fk["Petersburg"], SetConstantinopleFix)
           s4 == IfSet(s3, fk["Istanbul"], SetIstanbul)
<1>1. ForkSetters(g) = s4
  BY DEF ForkSetters
<1>2. s4.reward = s3.reward /\ s4.delays = s3.delays
  BY Zenon DEF IfSet, SetIstanbul, EthashRec
<1>3. s3.reward = s2.reward /\ s3.delays = s2.delays
  BY Zenon DEF IfSet, SetConstantinopleFix, EthashRec
<1>4. /\ s2.reward = IF c = Nil THEN s1.reward
                     ELSE Put(s1.reward, EncodeBig(c),
                              EncodeBig(ConstantinopleBlockReward))
      /\ s2.delays = IF c = Nil THEN s1.delays
                     ELSE Put(s1.delays, EncodeBig(c),
                              EncodeBig(ConstantinopleBombDelay))
  BY Zenon DEF IfSet, SetConstantinople, SetEra, EthashRec
<1>5. /\ s1.reward = IF b = Nil THEN s0.reward
                     ELSE Put(s0.reward, EncodeBig(b),
                              EncodeBig(ByzantiumBlockReward))
      /\ s1.delays = IF b = Nil THEN s0.delays
                     ELSE Put(s0.delays, EncodeBig(b),
                              EncodeBig(ByzantiumBombDelay))
  BY Zenon DEF IfSet, SetByzantium, SetEra, EthashRec
<1>6. /\ s0.reward = Put(EmptyKV, EncodeBig(0), EncodeBig(FrontierBlockReward))
      /\ s0.delays = EmptyKV
  BY DEF Frontier, EthashRec
<1> DEFINE E(n) == EncodeBig(n)
           KB == IF b /= Nil THEN {E(b)} ELSE {}
           KC == IF c /= Nil THEN {E(c)} ELSE {}
<1>7. PAbs!Rewards(g) =
        [k \in {E(0)} \cup KB \cup KC |->
            IF c /= Nil /\ E(c) = k THEN E(2)
            ELSE IF b /= Nil /\ E(b) = k THEN E(3) ELSE E(5)]
  BY EraKeysOf, SameModel
     DEF PAbs!Rewards, PAbs!WritesAt, PAbs!ConstantinopleBlockReward,
         PAbs!ByzantiumBlockReward, PAbs!FrontierBlockReward
<1>8. PAbs!BombDelays(g) =
        [k \in KB \cup KC |->
            IF c /= Nil /\ E(c) = k THEN E(2) ELSE E(3)]
  BY EraKeysOf, SameModel
     DEF PAbs!BombDelays, PAbs!WritesAt, PAbs!ConstantinopleBombDelay,
         PAbs!ByzantiumBombDelay
<1>9. s2.reward = PAbs!Rewards(g)
  <2>1. CASE b = Nil /\ c = Nil
    BY <1>4, <1>5, <1>6, <1>7, <2>1 DEF Put, EmptyKV, FrontierBlockReward
  <2>2. CASE b /= Nil /\ c = Nil
    BY <1>4, <1>5, <1>6, <1>7, <2>2
       DEF Put, EmptyKV, FrontierBlockReward, ByzantiumBlockReward
  <2>3. CASE b = Nil /\ c /= Nil
    BY <1>4, <1>5, <1>6, <1>7, <2>3
       DEF Put, EmptyKV, FrontierBlockReward, ConstantinopleBlockReward
  <2>4. CASE b /= Nil /\ c /= Nil
    BY <1>4, <1>5, <1>6, <1>7, <2>4
       DEF Put, EmptyKV, FrontierBlockReward, ByzantiumBlockReward,
           ConstantinopleBlockReward
  <2>5. QED
    BY <2>1, <2>2, <2>3, <2>4
<1>10. s2.delays = PAbs!BombDelays(g)
  <2>1. CASE b = Nil /\ c = Nil
    BY <1>4, <1>5, <1>6, <1>8, <2>1 DEF Put, EmptyKV
  <2>2. CASE b /= Nil /\ c = Nil
    BY <1>4, <1>5, <1>6, <1>8, <2>2 DEF Put, EmptyKV, ByzantiumBombDelay
  <2>3. CASE b = Nil /\ c /= Nil
    BY <1>4, <1>5, <1>6, <1>8, <2>3 DEF Put, EmptyKV, ConstantinopleBombDelay
  <2>4. CASE b /= Nil /\ c /= Nil
    BY <1>4, <1>5, <1>6, <1>8, <2>4
       DEF Put, EmptyKV, ByzantiumBombDelay, ConstantinopleBombDelay
  <2>5. QED
    BY <2>1, <2>2, <2>3, <2>4
<1>11. QED
  BY <1>1, <1>2, <1>3, <1>9, <1>10

(* The transitions after one setter call that may be skipped.             *)
SetterTrans(s, fork, num) ==
    IF num = Nil THEN s.trans ELSE SetFeatures(s.trans, fork, num)

(* With the base forks set, the Frontier seed and the four setters leave   *)
(* every transition at num.Uint64() of its fork's block, or 0 when that    *)
(* fork is not scheduled.                                                  *)
LEMMA SettersTransitions ==
    ASSUME NEW g, \A f \in BaseForks : g.config.forks[f] /= Nil
    PROVE  ForkSetters(g).trans = PAbs!Transitions(g)
<1> DEFINE fk == g.config.forks
           s0 == Frontier(g)
           s1 == IfSet(s0, fk["Byzantium"], SetByzantium)
           s2 == IfSet(s1, fk["Constantinople"], SetConstantinople)
           s3 == IfSet(s2, fk["Petersburg"], SetConstantinopleFix)
           s4 == IfSet(s3, fk["Istanbul"], SetIstanbul)
<1>1. ForkSetters(g) = s4
  BY DEF ForkSetters
<1>2. s1.trans = SetterTrans(s0, "Byzantium", fk["Byzantium"])
  BY Zenon DEF IfSet, SetByzantium, SetEra, EthashRec, SetterTrans
<1>3. s2.trans = SetterTrans(s1, "Constantinople", fk["Constantinople"])
  BY Zenon DEF IfSet, SetConstantinople, SetEra, EthashRec, SetterTrans
<1>4. s3.trans = SetterTrans(s2, "Petersburg", fk["Petersburg"])
  BY Zenon DEF IfSet, SetConstantinopleFix, EthashRec, SetterTrans
<1>5. s4.trans = SetterTrans(s3, "Istanbul", fk["Istanbul"])
  BY Zenon DEF IfSet, SetIstanbul, EthashRec, SetterTrans
<1>6. /\ DOMAIN s0.trans = Features
      /\ \A f \in Features :
            s0.trans[f] = IF FeatureFork[f] \in BaseForks
                          THEN Uint64(fk[FeatureFork[f]]) ELSE 0
  BY DEF Frontier, EthashRec
<1>7. /\ DOMAIN s1.trans = Features
      /\ \A f \in Features :
            s1.trans[f] = IF fk["Byzantium"] /= Nil /\ FeatureFork[f] = "Byzantium"
                          THEN Uint64(fk["Byzantium"]) ELSE s0.trans[f]
  BY <1>2, <1>6 DEF SetterTrans, SetFeatures
<1>8. /\ DOMAIN s2.trans = Features
      /\ \A f \in Features :
            s2.trans[f] =
              IF fk["Constantinople"] /= Nil /\ FeatureFork[f] = "Constantinople"
              THEN Uint64(fk["Constantinople"]) ELSE s1.trans[f]
  BY <1>3, <1>7, Zenon DEF SetterTrans, SetFeatures
<1>9. /\ DOMAIN s3.trans = Features
      /\ \A f \in Features :
            s3.trans[f] = IF fk["Petersburg"] /= Nil /\ FeatureFork[f] = "Petersburg"
                          THEN Uint64(fk["Petersburg"]) ELSE s2.trans[f]
  BY <1>4, <1>8, Zenon DEF SetterTrans, SetFeatures
<1>10. /\ DOMAIN s4.trans = Features
       /\ \A f \in Features :
             s4.trans[f] = IF fk["Istanbul"] /= Nil /\ FeatureFork[f] = "Istanbul"
                           THEN Uint64(fk["Istanbul"]) ELSE s3.trans[f]
  BY <1>5, <1>9, Zenon DEF SetterTrans, SetFeatures
<1>11. \A f \in Features :
          FeatureFork[f] \in BaseForks \cup
            {"Byzantium", "Constantinople", "Petersburg", "Istanbul"}
  BY DEF FeatureFork, Features, BaseForks
<1>12. PAbs!Transitions(g) =
         [f \in Features |->
             IF fk[FeatureFork[f]] /= Nil THEN Uint64(fk[FeatureFork[f]]) ELSE 0]
  BY SameModel DEF PAbs!Transitions
<1>13. ASSUME NEW f \in Features
       PROVE  s4.trans[f] = PAbs!Transitions(g)[f]
  <2>1. CASE FeatureFork[f] \in BaseForks
    <3>1. FeatureFork[f] \notin {"Byzantium", "Constantinople", "Petersburg",
                                 "Istanbul"}
      BY <2>1 DEF BaseForks
    <3>2. s4.trans[f] = s0.trans[f]
      BY <3>1, <1>7, <1>8, <1>9, <1>10, Zenon
    <3>3. QED
      BY <2>1, <3>2, <1>6, <1>12
  <2>2. CASE FeatureFork[f] \notin BaseForks
    <3>1. s0.trans[f] = 0
      BY <2>2, <1>6, SMTT(30)
    <3>2. CASE FeatureFork[f] = "Byzantium"
      BY <1>7, <1>8, <1>9, <1>10, <1>12, <3>1, <3>2, SMTT(30)
    <3>3. CASE FeatureFork[f] = "Constantinople"
      BY <1>7, <1>8, <1>9, <1>10, <1>12, <3>1, <3>3, SMTT(30)
    <3>4. CASE FeatureFork[f] = "Petersburg"
      BY <1>7, <1>8, <1>9, <1>10, <1>12, <3>1, <3>4, SMTT(30)
    <3>5. CASE FeatureFork[f] = "Istanbul"
      BY <1>7, <1>8, <1>9, <1>10, <1>12, <3>1, <3>5, SMTT(30)
    <3>6. QED
      BY <1>11, <2>2, <3>2, <3>3, <3>4, <3>5
  <2>3. QED
    BY <2>1, <2>2
<1>14. s4.trans = [f \in Features |-> s4.trans[f]]
  <2>1. s0.trans = [f \in Features |-> s0.trans[f]]
    BY DEF Frontier, EthashRec
  <2>2. s1.trans = [f \in Features |-> s1.trans[f]]
    BY <1>2, <2>1 DEF SetterTrans, SetFeatures
  <2>3. s2.trans = [f \in Features |-> s2.trans[f]]
    BY <1>3, <2>2, Zenon DEF SetterTrans, SetFeatures
  <2>4. s3.trans = [f \in Features |-> s3.trans[f]]
    BY <1>4, <2>3, Zenon DEF SetterTrans, SetFeatures
  <2>5. QED
    BY <1>5, <2>4, Zenon DEF SetterTrans, SetFeatures
<1>15. s4.trans = PAbs!Transitions(g)
  BY <1>12, <1>13, <1>14, Zenon
<1>16. QED
  BY <1>1, <1>15

(* With the base forks set, the Ethash section the builder writes is the   *)
(* one ParityAbstract describes.                                           *)
LEMMA EthashDescribed ==
    ASSUME NEW g, \A f \in BaseForks : g.config.forks[f] /= Nil
    PROVE  ForkSetters(g) = Described(g)
<1>1. ForkSetters(g) = EthashRec(ForkSetters(g).reward, ForkSetters(g).delays,
                                 ForkSetters(g).trans)
  BY Zenon DEF ForkSetters, IfSet, SetByzantium, SetConstantinople,
               SetConstantinopleFix, SetIstanbul, SetEra, Frontier, EthashRec
<1>2. QED
  BY <1>1, SettersEras, SettersTransitions, SMTT(30) DEF Described
-----------------------------------------------------------------------------
(* After the three precompile blocks, the accounts map is the one the      *)
(* abstract translator promises.                                           *)
LEMMA FinalAccounts ==
    ASSUME NEW g
    PROVE  PExpect(g, Q3(g)) = PAbs!ExpectedAccounts(g)
<1> DEFINE BP == ByzPhaseOf(g)
           IP == IstPhaseOf(g)
<1>1. /\ PAbs!ActivePhases(g)[1] = ParityBasePhase
      /\ PAbs!ActivePhases(g)[2] = BP
      /\ PAbs!ActivePhases(g)[3] = IP
  BY SameModel DEF PAbs!ActivePhases, PAbs!EmptyPhase, ByzPhaseOf, IstPhaseOf,
                   NoPhase, Byz, Ist
<1>2. Q3(g) = [n \in DOMAIN ParityBasePhase \cup DOMAIN BP \cup DOMAIN IP |->
                 IF n \in DOMAIN IP THEN IP[n]
                 ELSE IF n \in DOMAIN BP THEN BP[n] ELSE ParityBasePhase[n]]
  BY DEF Q3, Q2, Q1, POverride, NoPhase
<1>3. QED
  BY <1>1, <1>2, Zenon DEF PExpect, PAccount, PAbs!ExpectedAccounts,
                    PAbs!PrecompileAddrs, PAbs!FinalBuiltin

Middle == {"alloc", "base", "byzantium", "istanbul"}

(* Every balance of the genesis allocation is set.                         *)
AllSet(g) == \A a \in DOMAIN g.alloc : g.alloc[a].balance /= Nil

(* What lines 372-435 have checked and written.                           *)
ParamsSet ==
    /\ \A f \in BaseForks : genesis.config.forks[f] /= Nil
    /\ genesis.config.chainID /= Nil
    /\ ethash = ForkSetters(genesis)
    /\ params = [networkID |-> Uint64(genesis.config.chainID),
                 chainID |-> Uint64(genesis.config.chainID),
                 eip98 |-> MaxInt, maxCodeSize |-> 0]
    /\ header = genesis.header

(* The document newParityChainSpec returns, for a supported genesis that   *)
(* sets every value the code dereferences and does not schedule Istanbul   *)
(* without Byzantium, is the translation.                                  *)
LEMMA DocumentIsTranslation ==
    ASSUME NEW g \in GenesisModels, g.config.ethash,
           \A f \in BaseForks : g.config.forks[f] /= Nil,
           g.config.chainID /= Nil, AllSet(g),
           ~(Ist(g) /= Nil /\ Byz(g) = Nil)
    PROVE  [err |-> "none", ethash |-> ForkSetters(g),
            params |-> [networkID |-> Uint64(g.config.chainID),
                        chainID |-> Uint64(g.config.chainID),
                        eip98 |-> MaxInt, maxCodeSize |-> 0],
            header |-> g.header, accounts |-> PExpect(g, Q3(g))]
           = PAbs!Translate(g)
<1>1. ~PAbs!Panics(g)
  BY SameModel DEF PAbs!Panics, AllSet
<1>2. ForkSetters(g) = [reward |-> PAbs!Rewards(g), delays |-> PAbs!BombDelays(g),
                        trans |-> PAbs!Transitions(g)]
  BY EthashDescribed DEF Described, EthashRec
<1>3. PExpect(g, Q3(g)) = PAbs!ExpectedAccounts(g)
  BY FinalAccounts
<1>4. QED
  BY <1>1, <1>2, <1>3, SameModel DEF PAbs!Translate, Ist, Byz

(* What newParityChainSpec has checked and written at each block, on top   *)
(* of the accounts map PRInv gives; once it returns, its result is the     *)
(* translation.                                                            *)
PRefInv ==
    /\ PRInv
    /\ pc \in {"params"} \cup Middle => genesis.config.ethash
    /\ pc \in Middle => ParamsSet
    /\ pc = "alloc" =>
          \A a \in DOMAIN genesis.alloc \ pending : genesis.alloc[a].balance /= Nil
    /\ pc \in Middle \ {"alloc"} => AllSet(genesis)
    /\ pc = "done" => Returned = PAbs!Translate(genesis)

(* A genesis model's configuration and allocation have their types.        *)
LEMMA GenesisTypes ==
    ASSUME NEW g \in GenesisModels
    PROVE  /\ g.config.ethash \in BOOLEAN
           /\ g.config.forks \in [ForkNames -> Blocks \cup {Nil}]
BY DEF GenesisModels, Configs, ForkSchedules

(* Every step of the builder keeps PRefInv.                                *)
LEMMA PRefInvStep ==
    ASSUME PRefInv, [Next]_vars
    PROVE  PRefInv'
<1>0. /\ PRInv'
      /\ genesis \in GenesisModels
      /\ genesis.config.ethash \in BOOLEAN
  BY PRInvStep, GenesisTypes DEF PRefInv, PRInv, PInv
<1>1. CASE CheckEngine
  <2>1. CASE ~genesis.config.ethash
    <3>1. Returned' = PAbs!NoDocument("unsupported")
      BY <1>1, <2>1 DEF CheckEngine, Returned, Built, PAbs!NoDocument
    <3>2. PAbs!Translate(genesis) = PAbs!NoDocument("unsupported")
      BY <2>1 DEF PAbs!Translate
    <3>3. QED
      BY <1>0, <1>1, <2>1, <3>1, <3>2 DEF CheckEngine, PRefInv, Middle
  <2>2. CASE genesis.config.ethash
    BY <1>0, <1>1, <2>2 DEF CheckEngine, PRefInv, Middle
  <2>3. QED
    BY <1>0, <2>1, <2>2
<1>2. CASE SetParams
  <2>1. genesis.config.ethash
    BY <1>2 DEF SetParams, PRefInv
  <2>2. CASE \/ \E f \in BaseForks : genesis.config.forks[f] = Nil
             \/ genesis.config.chainID = Nil
    <3>1. Returned' = PAbs!NoDocument("panic")
      BY <1>2, <2>2 DEF SetParams, Returned, Built, PAbs!NoDocument
    <3>2. PAbs!Panics(genesis)
      BY <2>2, SameModel DEF PAbs!Panics
    <3>3. PAbs!Translate(genesis) = PAbs!NoDocument("panic")
      BY <2>1, <3>2 DEF PAbs!Translate
    <3>4. QED
      BY <1>0, <1>2, <2>2, <3>1, <3>3 DEF SetParams, PRefInv, Middle
  <2>3. CASE /\ \A f \in BaseForks : genesis.config.forks[f] /= Nil
             /\ genesis.config.chainID /= Nil
    BY <1>0, <1>2, <2>1, <2>3 DEF SetParams, PRefInv, Middle, ParamsSet
  <2>4. QED
    BY <2>2, <2>3
<1>3. ASSUME NEW a \in Addresses, SetAccount(a) PROVE PRefInv'
  <2>1. /\ pc = "alloc" /\ a \in pending /\ genesis.config.ethash
        /\ pending \subseteq DOMAIN genesis.alloc
    BY <1>3 DEF SetAccount, PRefInv, PRInv, Middle
  <2>2. CASE genesis.alloc[a].balance = Nil
    <3>1. Returned' = PAbs!NoDocument("panic")
      BY <1>3, <2>2 DEF SetAccount, Returned, Built, PAbs!NoDocument
    <3>2. PAbs!Panics(genesis)
      BY <2>1, <2>2 DEF PAbs!Panics
    <3>3. PAbs!Translate(genesis) = PAbs!NoDocument("panic")
      BY <2>1, <3>2 DEF PAbs!Translate
    <3>4. QED
      BY <1>0, <1>3, <2>2, <3>1, <3>3 DEF SetAccount, PRefInv, Middle
  <2>3. CASE genesis.alloc[a].balance /= Nil
    BY <1>0, <1>3, <2>1, <2>3 DEF SetAccount, PRefInv, Middle, ParamsSet
  <2>4. QED
    BY <2>2, <2>3
<1>4. CASE EndAlloc
  BY <1>0, <1>4 DEF EndAlloc, Goto, PRefInv, Middle, ParamsSet, AllSet
<1>5. CASE SetBasePrecompiles
  BY <1>0, <1>5 DEF SetBasePrecompiles, Goto, PRefInv, Middle, ParamsSet
<1>6. CASE SetByzantiumPrecompiles
  BY <1>0, <1>6 DEF SetByzantiumPrecompiles, Goto, PRefInv, Middle, ParamsSet
<1>7. CASE SetIstanbulPrecompiles
  <2>1. /\ pc = "istanbul" /\ pc' = "done"
        /\ genesis.config.ethash /\ ParamsSet /\ AllSet(genesis)
        /\ UNCHANGED <<genesis, ethash, params, header>>
    BY <1>7 DEF SetIstanbulPrecompiles, Goto, PRefInv, Middle
  <2>2. ~PAbs!Panics(genesis)
    BY <2>1, SameModel DEF PAbs!Panics, ParamsSet, AllSet
  <2>3. CASE Ist(genesis) /= Nil /\ Byz(genesis) = Nil
    <3>1. Returned' = PAbs!NoDocument("invalidFork")
      BY <1>7, <2>3 DEF SetIstanbulPrecompiles, Goto, Returned, Built, PAbs!NoDocument
    <3>2. PAbs!Translate(genesis) = PAbs!NoDocument("invalidFork")
      BY <2>1, <2>2, <2>3 DEF PAbs!Translate, Ist, Byz
    <3>3. QED
      BY <1>0, <2>1, <3>1, <3>2 DEF PRefInv, Middle
  <2>4. CASE ~(Ist(genesis) /= Nil /\ Byz(genesis) = Nil)
    <3>0. err = "none"
      BY <2>1 DEF PRefInv, PRInv, PInv
    <3>1. err' = "none"
      BY <1>7, <2>4, <3>0 DEF SetIstanbulPrecompiles
    <3>2. accounts' = PExpect(genesis, Q3(genesis))
      BY <1>0, <2>1, <3>1 DEF PRInv, Built
    <3>3. Returned' =
            [err |-> "none", ethash |-> ForkSetters(genesis),
             params |-> [networkID |-> Uint64(genesis.config.chainID),
                         chainID |-> Uint64(genesis.config.chainID),
                         eip98 |-> MaxInt, maxCodeSize |-> 0],
             header |-> genesis.header,
             accounts |-> PExpect(genesis, Q3(genesis))]
      BY <2>1, <3>1, <3>2 DEF Returned, Built, ParamsSet
    <3>4. Returned' = PAbs!Translate(genesis)
      BY <1>0, <2>1, <2>4, <3>3, DocumentIsTranslation DEF ParamsSet
    <3>5. QED
      BY <1>0, <2>1, <3>4 DEF PRefInv, Middle
  <2>5. QED
    BY <2>3, <2>4
<1>8. CASE UNCHANGED vars
  BY <1>0, <1>8 DEF vars, PRefInv, Middle, ParamsSet, AllSet, Returned, Built
<1>9. QED
  BY <1>1, <1>2, <1>3, <1>4, <1>5, <1>6, <1>7, <1>8 DEF Next

(* The builder starts in a state of PRefInv.                               *)
LEMMA PRefInvInit == Init => PRefInv
BY PRInvInit DEF Init, PRefInv, Middle

(* The safety part of the abstract translator, as seen through Returned.   *)
PAbsSafety == PAbs!AbsInit /\ [][PAbs!Build]_PAbs!absvars

(* No step of the Parity builder changes its genesis argument.             *)
LEMMA GenesisConstant ==
    ASSUME [Next]_vars PROVE genesis' = genesis
BY DEF Next, vars, CheckEngine, SetParams, SetAccount, EndAlloc,
       SetBasePrecompiles, SetByzantiumPrecompiles, SetIstanbulPrecompiles

(* The Parity builder takes no step once it has returned.                  *)
LEMMA DoneStutters ==
    ASSUME pc = "done", [Next]_vars PROVE UNCHANGED vars
BY DEF Next, CheckEngine, SetParams, SetAccount, EndAlloc, Goto,
       SetBasePrecompiles, SetByzantiumPrecompiles, SetIstanbulPrecompiles

(* Until newParityChainSpec returns, its result is "pending".              *)
LEMMA PendingUntilDone ==
    ASSUME pc /= "done" PROVE Returned = PAbs!Pending
BY DEF Returned, Built, PAbs!Pending, PAbs!NoDocument

(* Every behaviour of newParityChainSpec, over every order of the range    *)
(* over genesis.Alloc, is one of the abstract translator under the mapping *)
(* of Returned: "pending" until the function returns, then in one step the *)
(* error it promises or the document whose era maps hold the latest fork's *)
(* entry at every key and whose accounts hold the last phase's precompiles. *)
THEOREM ParityImplementsAbstract == Spec => PAbsSafety
<1>1. Init => PRefInv
  BY PRefInvInit
<1>2. PRefInv /\ [Next]_vars => PRefInv'
  BY PRefInvStep
<1>3. Init => PAbs!AbsInit
  BY SameModel, PendingUntilDone DEF Init, PAbs!AbsInit
<1>4. PRefInv /\ PRefInv' /\ [Next]_vars => [PAbs!Build]_PAbs!absvars
  <2> SUFFICES ASSUME PRefInv, PRefInv', [Next]_vars
               PROVE  [PAbs!Build]_PAbs!absvars
    OBVIOUS
  <2>1. genesis' = genesis
    BY GenesisConstant
  <2>2. CASE pc = "done"
    BY <2>2, DoneStutters DEF vars, Returned, Built, PAbs!absvars
  <2>3. CASE pc /= "done" /\ pc' /= "done"
    <3>1. Returned = PAbs!Pending /\ Returned' = PAbs!Pending
      BY <2>3 DEF Returned, Built, PAbs!Pending, PAbs!NoDocument
    <3>2. QED
      BY <2>1, <3>1 DEF PAbs!absvars
  <2>4. CASE pc /= "done" /\ pc' = "done"
    <3>1. Returned = PAbs!Pending
      BY <2>4, PendingUntilDone
    <3>2. Returned' = PAbs!Translate(genesis)
      BY <2>1, <2>4 DEF PRefInv
    <3>3. QED
      BY <2>1, <3>1, <3>2 DEF PAbs!Build
  <2>5. QED
    BY <2>2, <2>3, <2>4
<1>5. QED
  BY <1>1, <1>2, <1>3, <1>4, PTL DEF Spec, PAbsSafety
=============================================================================
