------------------------------ MODULE ForkProofs ------------------------------
(***************************************************************************)
(* Proof that the Aleth and Parity documents activate every scheduled     *)
(* fork at the same block, for every genesis whose fork blocks fit in      *)
(* UintWidth bits.  Aleth copies the fork *big.Int into its fork-block     *)
(* fields (genesis.go 113-136); Parity writes num.Uint64() into the        *)
(* per-EIP transition fields (385-413, 562-596).  The two agree exactly    *)
(* when the conversion keeps the number; run translator_wide_block shows   *)
(* what happens when it does not.                                          *)
(***************************************************************************)
EXTENDS TranslatorProofs

(* The builder has written its fork fields and has not failed since.       *)
Wrote(pc, e) == pc \in Middle \/ (pc = "done" /\ e = "none")

(* Once SetParams has run, Aleth's fork fields are the genesis fork        *)
(* blocks, and Parity's Ethash parameters are what the Frontier seed and   *)
(* the four fork setters made of them; no later step touches either.      *)
AForkInv ==
    Wrote(aPc, aErr) =>
        aParams.forks = [f \in A!AlethForks |-> genesis.config.forks[f]]

BForkInv == Wrote(bPc, bErr) => bEthash = B!ForkSetters(genesis)

FInv == Inv /\ AForkInv /\ BForkInv

(* Uint64() keeps a number that fits in UintWidth bits.                    *)
LEMMA Uint64Fits ==
    ASSUME NEW n \in Nat, n < 2 ^ UintWidth
    PROVE  Uint64(n) = n
BY PowerAssumption, SMTT(30) DEF Uint64

(* One setter call on the transition fields: unchanged when the fork is   *)
(* not set, else SetFeatures.                                              *)
SetterTrans(s, fork, num) ==
    IF num = Nil THEN s.trans ELSE B!SetFeatures(s.trans, fork, num)

(* The transition field of a feature, after the Frontier seed and the four *)
(* setters, is num.Uint64() of its fork's block when that fork is set.     *)
LEMMA SettersTrans ==
    ASSUME NEW g \in A!GenesisModels, NEW f \in B!Features,
           g.config.forks[B!FeatureFork[f]] /= Nil
    PROVE  B!ForkSetters(g).trans[f] = Uint64(g.config.forks[B!FeatureFork[f]])
<1> DEFINE fk == g.config.forks
           s0 == B!Frontier(g)
           s1 == B!IfSet(s0, fk["Byzantium"], B!SetByzantium)
           s2 == B!IfSet(s1, fk["Constantinople"], B!SetConstantinople)
           s3 == B!IfSet(s2, fk["Petersburg"], B!SetConstantinopleFix)
           s4 == B!IfSet(s3, fk["Istanbul"], B!SetIstanbul)
<1>1. B!ForkSetters(g) = s4
  BY DEF B!ForkSetters
<1>2. s1.trans = SetterTrans(s0, "Byzantium", fk["Byzantium"])
  BY Zenon DEF B!IfSet, B!SetByzantium, B!SetEra, B!EthashRec, SetterTrans
<1>3. s2.trans = SetterTrans(s1, "Constantinople", fk["Constantinople"])
  BY Zenon DEF B!IfSet, B!SetConstantinople, B!SetEra, B!EthashRec,
               SetterTrans
<1>4. s3.trans = SetterTrans(s2, "Petersburg", fk["Petersburg"])
  BY Zenon DEF B!IfSet, B!SetConstantinopleFix, B!EthashRec, SetterTrans
<1>5. s4.trans = SetterTrans(s3, "Istanbul", fk["Istanbul"])
  BY Zenon DEF B!IfSet, B!SetIstanbul, B!EthashRec, SetterTrans
<1>6. /\ DOMAIN s0.trans = B!Features
      /\ B!FeatureFork[f] \in B!BaseForks =>
            s0.trans[f] = Uint64(fk[B!FeatureFork[f]])
  BY DEF B!Frontier, B!EthashRec, B!Uint64, Uint64
<1>7. B!FeatureFork[f] \in B!BaseForks \cup
          {"Byzantium", "Constantinople", "Petersburg", "Istanbul"}
  BY DEF B!FeatureFork, B!Features, B!BaseForks
<1>8. /\ DOMAIN s1.trans = B!Features
      /\ s1.trans[f] =
           IF fk["Byzantium"] /= Nil /\ B!FeatureFork[f] = "Byzantium"
           THEN Uint64(fk["Byzantium"]) ELSE s0.trans[f]
  BY <1>2, <1>6 DEF SetterTrans, B!SetFeatures, B!Uint64, Uint64
<1>9. /\ DOMAIN s2.trans = B!Features
      /\ s2.trans[f] =
           IF fk["Constantinople"] /= Nil /\ B!FeatureFork[f] = "Constantinople"
           THEN Uint64(fk["Constantinople"]) ELSE s1.trans[f]
  BY <1>3, <1>8 DEF SetterTrans, B!SetFeatures, B!Uint64, Uint64
<1>10. /\ DOMAIN s3.trans = B!Features
       /\ s3.trans[f] =
            IF fk["Petersburg"] /= Nil /\ B!FeatureFork[f] = "Petersburg"
            THEN Uint64(fk["Petersburg"]) ELSE s2.trans[f]
  BY <1>4, <1>9, Zenon DEF SetterTrans, B!SetFeatures, B!Uint64, Uint64
<1>11. s4.trans[f] = IF fk["Istanbul"] /= Nil /\ B!FeatureFork[f] = "Istanbul"
                     THEN Uint64(fk["Istanbul"]) ELSE s3.trans[f]
  BY <1>5, <1>10, Zenon DEF SetterTrans, B!SetFeatures, B!Uint64, Uint64
<1>12. QED
  BY <1>1, <1>6, <1>7, <1>8, <1>9, <1>10, <1>11 DEF B!BaseForks

(* Every step of the Aleth builder keeps AForkInv: SetParams writes the    *)
(* fork fields, and no other step touches them.                            *)
LEMMA AForkStep ==
    ASSUME FInv, A!Next
    PROVE  AForkInv'
<1>1. genesis' = genesis
  BY AStep DEF FInv
<1>2. CASE A!CheckEngine
  BY <1>2 DEF A!CheckEngine, AForkInv, Wrote, Middle
<1>3. CASE A!SetParams
  BY <1>1, <1>3 DEF A!SetParams, AForkInv, Wrote, Middle
<1>4. ASSUME NEW a \in Addresses, A!SetAccount(a)
      PROVE  AForkInv'
  BY <1>1, <1>4 DEF A!SetAccount, FInv, AForkInv, Wrote
<1>5. CASE A!EndAlloc
  BY <1>1, <1>5 DEF A!EndAlloc, A!Goto, FInv, AForkInv, Wrote, Middle
<1>6. CASE A!SetBasePrecompiles
  BY <1>1, <1>6 DEF A!SetBasePrecompiles, A!Goto, FInv, AForkInv, Wrote,
                    Middle
<1>7. CASE A!SetByzantiumPrecompiles
  BY <1>1, <1>7 DEF A!SetByzantiumPrecompiles, A!Goto, FInv, AForkInv, Wrote,
                    Middle
<1>8. CASE A!SetIstanbulPrecompiles
  BY <1>1, <1>8 DEF A!SetIstanbulPrecompiles, A!Goto, FInv, AForkInv, Wrote,
                    Middle
<1>9. QED
  BY <1>2, <1>3, <1>4, <1>5, <1>6, <1>7, <1>8 DEF A!Next

(* Every step of the Parity builder keeps BForkInv: SetParams runs the     *)
(* fork setters, and no other step touches the Ethash parameters.          *)
LEMMA BForkStep ==
    ASSUME FInv, B!Next
    PROVE  BForkInv'
<1>1. genesis' = genesis
  BY BStep DEF FInv
<1>2. CASE B!CheckEngine
  BY <1>2 DEF B!CheckEngine, BForkInv, Wrote, Middle
<1>3. CASE B!SetParams
  BY <1>1, <1>3 DEF B!SetParams, BForkInv, Wrote, Middle
<1>4. ASSUME NEW a \in Addresses, B!SetAccount(a)
      PROVE  BForkInv'
  BY <1>1, <1>4 DEF B!SetAccount, FInv, BForkInv, Wrote, Middle
<1>5. CASE B!EndAlloc
  BY <1>1, <1>5 DEF B!EndAlloc, B!Goto, FInv, BForkInv, Wrote, Middle
<1>6. CASE B!SetBasePrecompiles
  BY <1>1, <1>6 DEF B!SetBasePrecompiles, B!Goto, FInv, BForkInv, Wrote,
                    Middle
<1>7. CASE B!SetByzantiumPrecompiles
  BY <1>1, <1>7 DEF B!SetByzantiumPrecompiles, B!Goto, FInv, BForkInv, Wrote,
                    Middle
<1>8. CASE B!SetIstanbulPrecompiles
  BY <1>1, <1>8 DEF B!SetIstanbulPrecompiles, B!Goto, FInv, BForkInv, Wrote,
                    Middle
<1>9. QED
  BY <1>2, <1>3, <1>4, <1>5, <1>6, <1>7, <1>8 DEF B!Next

(* FInv holds initially and is kept by every step of the three builders.   *)
LEMMA FInvStep == ASSUME FInv, [Next]_vars PROVE FInv'
<1>1. Inv'
  BY InvStep DEF FInv
<1>2. CASE A!Next /\ UNCHANGED <<bvars, cvars>>
  <2>1. AForkInv' /\ genesis' = genesis
    BY <1>2, AForkStep, AStep DEF FInv
  <2>2. BForkInv'
    BY <1>2, <2>1 DEF FInv, BForkInv, bvars
  <2>3. QED
    BY <1>1, <2>1, <2>2 DEF FInv
<1>3. CASE B!Next /\ UNCHANGED <<avars, cvars>>
  <2>1. BForkInv' /\ genesis' = genesis
    BY <1>3, BForkStep, BStep DEF FInv
  <2>2. AForkInv'
    BY <1>3, <2>1 DEF FInv, AForkInv, avars
  <2>3. QED
    BY <1>1, <2>1, <2>2 DEF FInv
<1>4. CASE C!Build /\ UNCHANGED <<avars, bvars>>
  <2>1. genesis' = genesis
    BY <1>4, CStep DEF FInv
  <2>2. AForkInv' /\ BForkInv'
    BY <1>4, <2>1 DEF FInv, AForkInv, BForkInv, avars, bvars
  <2>3. QED
    BY <1>1, <2>2 DEF FInv
<1>5. CASE UNCHANGED vars
  BY <1>5 DEF vars, avars, bvars, cvars, FInv, Inv, AInv, BInv, CInv,
              AForkInv, BForkInv
<1>6. QED
  BY <1>2, <1>3, <1>4, <1>5 DEF Next

(* On every genesis whose fork blocks fit in UintWidth bits (64 in the     *)
(* code), for every alloc order and every interleaving of the builders,    *)
(* when the Aleth and Parity builders both return a document, every        *)
(* Parity transition of a fork Aleth schedules is that fork's block in the *)
(* Aleth document.                                                         *)
THEOREM ForkActivationAgreesHolds ==
    ASSUME \A b \in Blocks : b < 2 ^ UintWidth
    PROVE  Spec => []ForkActivationAgrees
<1>1. Init => FInv
  BY InvInit DEF Init, A!Init, B!Init, FInv, AForkInv, BForkInv, Wrote, Middle
<1>2. FInv /\ [Next]_vars => FInv'
  BY FInvStep
<1>3. FInv => ForkActivationAgrees
  <2> SUFFICES ASSUME FInv, aPc = "done", bPc = "done", aErr = "none",
                      bErr = "none", NEW f \in B!Features,
                      B!FeatureFork[f] \in A!AlethForks,
                      aParams.forks[B!FeatureFork[f]] /= Nil
               PROVE  bEthash.trans[f] = aParams.forks[B!FeatureFork[f]]
    BY DEF ForkActivationAgrees
  <2> DEFINE fork == B!FeatureFork[f]
             blk == genesis.config.forks[fork]
  <2>1. aParams.forks[fork] = blk
    BY DEF FInv, AForkInv, Wrote
  <2>2. bEthash = B!ForkSetters(genesis)
    BY DEF FInv, BForkInv, Wrote
  <2>3. genesis \in A!GenesisModels
    BY DEF FInv, Inv
  <2>4. blk \in Blocks
    <3>1. fork \in A!ForkNames
      BY DEF A!AlethForks, A!ForkNames
    <3>2. QED
      BY <2>1, <2>3, <3>1 DEF A!GenesisModels, A!Configs, A!ForkSchedules
  <2>5. bEthash.trans[f] = Uint64(blk)
    BY <2>1, <2>2, <2>3, SettersTrans
  <2>6. QED
    BY <2>1, <2>4, <2>5, Uint64Fits, BlocksAssumption, Zenon
<1>4. QED
  BY <1>1, <1>2, <1>3, PTL DEF Spec
=====
