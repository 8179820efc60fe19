----------------------------- MODULE PhaseProofs -----------------------------
(***************************************************************************)
(* Facts about the precompile tables that newAlethGenesisSpec and          *)
(* newParityChainSpec write (genesis.go 161-196 and 444-545), for every    *)
(* value of the constants: each definition is a builtin record, and the    *)
(* definitions left by the base, Byzantium and Istanbul phases sit at the  *)
(* same addresses, activated at the same blocks, in the two dialects.      *)
(***************************************************************************)
EXTENDS AlethBuiltins, ParityBuiltins, TLAPS

(* A phase: a map from precompile addresses to builtin definitions.       *)
IsPhase(ph) ==
    /\ DOMAIN ph \subseteq Nat
    /\ \A n \in DOMAIN ph : ph[n] \in AlethBuiltinRecs

(* Each phase of precompile definitions is a phase.                        *)
LEMMA BasePhaseType == IsPhase(AlethBasePhase)
BY DEF IsPhase, AlethBasePhase, AlethBuiltinRecs, AlethBuiltinNames, Builtin,
       Linear

LEMMA ByzantiumPhaseType ==
    ASSUME NEW b \in Blocks
    PROVE  IsPhase(AlethByzantiumPhase(b))
<1>1. ASSUME NEW n \in 5..8 PROVE AlethByzantiumPhase(b)[n] \in AlethBuiltinRecs
  <2>1. n = 5 \/ n = 6 \/ n = 7 \/ n = 8
    BY SMT
  <2>2. CASE n = 5
    BY <2>2, BlocksAssumption DEF AlethByzantiumPhase, AlethBuiltinRecs,
                                  AlethBuiltinNames, Builtin, Linear
  <2>3. CASE n = 6
    BY <2>3, BlocksAssumption DEF AlethByzantiumPhase, AlethBuiltinRecs,
                                  AlethBuiltinNames, Builtin, Linear
  <2>4. CASE n = 7
    BY <2>4, BlocksAssumption DEF AlethByzantiumPhase, AlethBuiltinRecs,
                                  AlethBuiltinNames, Builtin, Linear
  <2>5. CASE n = 8
    BY <2>5, BlocksAssumption DEF AlethByzantiumPhase, AlethBuiltinRecs,
                                  AlethBuiltinNames, Builtin, Linear
  <2>6. QED
    BY <2>1, <2>2, <2>3, <2>4, <2>5
<1>2. DOMAIN AlethByzantiumPhase(b) = 5..8
  BY DEF AlethByzantiumPhase
<1>3. QED
  BY <1>1, <1>2 DEF IsPhase

LEMMA IstanbulPhaseType ==
    ASSUME NEW b \in Blocks, NEW i \in Blocks
    PROVE  IsPhase(AlethIstanbulPhase(b, i))
<1>1. ASSUME NEW n \in {6, 7, 9}
      PROVE  AlethIstanbulPhase(b, i)[n] \in AlethBuiltinRecs
  <2>1. CASE n = 6
    BY <2>1, BlocksAssumption DEF AlethIstanbulPhase, AlethBuiltinRecs,
                                  AlethBuiltinNames, Builtin
  <2>2. CASE n = 7
    BY <2>2, BlocksAssumption DEF AlethIstanbulPhase, AlethBuiltinRecs,
                                  AlethBuiltinNames, Builtin
  <2>3. CASE n = 9
    BY <2>3, BlocksAssumption DEF AlethIstanbulPhase, AlethBuiltinRecs,
                                  AlethBuiltinNames, Builtin
  <2>4. QED
    BY <2>1, <2>2, <2>3
<1>2. DOMAIN AlethIstanbulPhase(b, i) = {6, 7, 9}
  BY DEF AlethIstanbulPhase
<1>3. QED
  BY <1>1, <1>2 DEF IsPhase

(* A phase of newParityChainSpec: addresses to builtin definitions.        *)
PIsPhase(ph) ==
    /\ DOMAIN ph \subseteq Nat
    /\ \A n \in DOMAIN ph : ph[n] \in ParityBuiltinRecs

(* Each phase of Parity's precompile definitions is a phase.               *)
LEMMA ParityBaseType == PIsPhase(ParityBasePhase)
<1>1. ASSUME NEW n \in 1..4 PROVE ParityBasePhase[n] \in ParityBuiltinRecs
  <2>1. n = 1 \/ n = 2 \/ n = 3 \/ n = 4
    BY SMT
  <2>2. QED
    BY <2>1 DEF ParityBasePhase, ParityBuiltinRecs, ParityBuiltinNames,
                PriceRecs, PriceKinds, Flat, PBuiltin, Price
<1>2. QED
  BY <1>1 DEF PIsPhase, ParityBasePhase

LEMMA ParityByzantiumType ==
    ASSUME NEW b \in Blocks
    PROVE  PIsPhase(ParityByzantiumPhase(b))
<1>1. ASSUME NEW n \in 5..8
      PROVE  ParityByzantiumPhase(b)[n] \in ParityBuiltinRecs
  <2>1. n = 5 \/ n = 6 \/ n = 7 \/ n = 8
    BY SMT
  <2>2. QED
    BY <2>1, BlocksAssumption
    DEF ParityByzantiumPhase, ParityBuiltinRecs, ParityBuiltinNames,
        PriceRecs, PriceKinds, Flat, PBuiltin, Price
<1>2. QED
  BY <1>1 DEF PIsPhase, ParityByzantiumPhase

LEMMA ParityIstanbulType ==
    ASSUME NEW b \in Blocks, NEW i \in Blocks
    PROVE  PIsPhase(ParityIstanbulPhase(b, i))
<1>1. ASSUME NEW n \in 6..9
      PROVE  ParityIstanbulPhase(b, i)[n] \in ParityBuiltinRecs
  <2>1. ASSUME NEW name \in ParityBuiltinNames, NEW pre \in PriceRecs,
               NEW post \in PriceRecs
        PROVE  Versioned(name, b, i, pre, post) \in ParityBuiltinRecs
    <3>1. {Version(0, pre), Version(i, post)}
            \in SUBSET [at : Blocks \cup {0}, price : PriceRecs]
      BY DEF Version
    <3>2. QED
      BY <3>1, BlocksAssumption DEF Versioned, PBuiltin, ParityBuiltinRecs
  <2>2. /\ Price("alt_bn128_const", 500, 0) \in PriceRecs
        /\ Price("alt_bn128_const", 150, 0) \in PriceRecs
        /\ Price("alt_bn128_const", 40000, 0) \in PriceRecs
        /\ Price("alt_bn128_const", 6000, 0) \in PriceRecs
        /\ Price("alt_bn128_pairing", 100000, 80000) \in PriceRecs
        /\ Price("alt_bn128_pairing", 45000, 34000) \in PriceRecs
    BY DEF Price, PriceRecs, PriceKinds
  <2>3. /\ "alt_bn128_add" \in ParityBuiltinNames
        /\ "alt_bn128_mul" \in ParityBuiltinNames
        /\ "alt_bn128_pairing" \in ParityBuiltinNames
    BY DEF ParityBuiltinNames
  <2>4. CASE n = 9
    BY <2>4, BlocksAssumption
    DEF ParityIstanbulPhase, ParityBuiltinRecs, ParityBuiltinNames,
        PriceRecs, PriceKinds, Flat, PBuiltin, Price
  <2>5. CASE n \in 6..8
    <3>1. n = 6 \/ n = 7 \/ n = 8
      BY <2>5
    <3>2. QED
      BY <2>1, <2>2, <2>3, <3>1 DEF ParityIstanbulPhase
  <2>6. QED
    BY <2>4, <2>5
<1>2. QED
  BY <1>1 DEF PIsPhase, ParityIstanbulPhase

(* The definitions of pre, overwritten by those of phase ph.               *)
Override(pre, ph) ==
    [n \in DOMAIN pre \cup DOMAIN ph |->
        IF n \in DOMAIN ph THEN ph[n] ELSE pre[n]]

(* No definitions: the phase of an unscheduled fork.                      *)
NoDefs == [n \in {} |-> Nil]

(* Each address of three phases with the definition of the latest one.    *)
Latest(p1, p2, p3) ==
    [n \in DOMAIN p1 \cup DOMAIN p2 \cup DOMAIN p3 |->
        IF n \in DOMAIN p3 THEN p3[n]
        ELSE IF n \in DOMAIN p2 THEN p2[n]
        ELSE p1[n]]

(* Three phases written in order leave each address with the definition of *)
(* the latest phase that has it.                                           *)
LEMMA LatestOfChain ==
    ASSUME NEW p1, NEW p2, NEW p3
    PROVE  Override(Override(Override(NoDefs, p1), p2), p3) = Latest(p1, p2, p3)
BY DEF Override, NoDefs, Latest

(* The Byzantium and Istanbul phases of each dialect, for fork blocks b    *)
(* and i (Nil when the fork is not scheduled).                             *)
AlethByzDefs(b) == IF b /= Nil THEN AlethByzantiumPhase(b) ELSE NoDefs
AlethIstDefs(b, i) == IF i /= Nil THEN AlethIstanbulPhase(b, i) ELSE NoDefs
ParityByzDefs(b) == IF b /= Nil THEN ParityByzantiumPhase(b) ELSE NoDefs
ParityIstDefs(b, i) == IF i /= Nil THEN ParityIstanbulPhase(b, i) ELSE NoDefs

(* The addresses defined when Istanbul (i) comes with Byzantium (b), and   *)
(* the block each is activated at: none for 1..4, i for blake2 at 9, b for *)
(* the rest.                                                               *)
GatedAddrs(b, i) ==
    1..4 \cup (IF b /= Nil THEN 5..8 ELSE {})
         \cup (IF i /= Nil THEN {9} ELSE {})

GateOf(b, i, n) == IF n \in 1..4 THEN Nil ELSE IF n = 9 THEN i ELSE b

(* The activation block of each definition of each Aleth phase.            *)
LEMMA AlethPhaseGates ==
    ASSUME NEW b, NEW i
    PROVE  /\ \A n \in 1..4 : AlethBasePhase[n].start = Nil
           /\ \A n \in 5..8 : AlethByzantiumPhase(b)[n].start = b
           /\ \A n \in {6, 7} : AlethIstanbulPhase(b, i)[n].start = b
           /\ AlethIstanbulPhase(b, i)[9].start = i
<1>1. ASSUME NEW n \in 1..4 PROVE AlethBasePhase[n].start = Nil
  <2>1. n = 1 \/ n = 2 \/ n = 3 \/ n = 4
    BY SMT
  <2>2. QED
    BY <2>1 DEF AlethBasePhase, Builtin
<1>2. ASSUME NEW n \in 5..8 PROVE AlethByzantiumPhase(b)[n].start = b
  <2>1. n = 5 \/ n = 6 \/ n = 7 \/ n = 8
    BY SMT
  <2>2. QED
    BY <2>1 DEF AlethByzantiumPhase, Builtin
<1>3. ASSUME NEW n \in {6, 7} PROVE AlethIstanbulPhase(b, i)[n].start = b
  BY DEF AlethIstanbulPhase, Builtin
<1>4. AlethIstanbulPhase(b, i)[9].start = i
  BY DEF AlethIstanbulPhase, Builtin
<1>5. QED
  BY <1>1, <1>2, <1>3, <1>4

(* The activation block of each definition of each Parity phase.           *)
LEMMA ParityPhaseGates ==
    ASSUME NEW b, NEW i
    PROVE  /\ \A n \in 1..4 : ParityBasePhase[n].activateAt = Nil
           /\ \A n \in 5..8 : ParityByzantiumPhase(b)[n].activateAt = b
           /\ \A n \in 6..8 : ParityIstanbulPhase(b, i)[n].activateAt = b
           /\ ParityIstanbulPhase(b, i)[9].activateAt = i
<1>1. ASSUME NEW n \in 1..4 PROVE ParityBasePhase[n].activateAt = Nil
  <2>1. n = 1 \/ n = 2 \/ n = 3 \/ n = 4
    BY SMT
  <2>2. QED
    BY <2>1 DEF ParityBasePhase, Flat, PBuiltin
<1>2. ASSUME NEW n \in 5..8 PROVE ParityByzantiumPhase(b)[n].activateAt = b
  <2>1. n = 5 \/ n = 6 \/ n = 7 \/ n = 8
    BY SMT
  <2>2. QED
    BY <2>1 DEF ParityByzantiumPhase, Flat, PBuiltin
<1>3. ASSUME NEW n \in 6..8 PROVE ParityIstanbulPhase(b, i)[n].activateAt = b
  <2>1. n = 6 \/ n = 7 \/ n = 8
    BY SMT
  <2>2. QED
    BY <2>1 DEF ParityIstanbulPhase, Versioned, PBuiltin
<1>4. ParityIstanbulPhase(b, i)[9].activateAt = i
  BY DEF ParityIstanbulPhase, Flat, PBuiltin
<1>5. QED
  BY <1>1, <1>2, <1>3, <1>4

(* The definitions newAlethGenesisSpec leaves after its three phases.      *)
AlethDefs(b, i) ==
    Latest(AlethBasePhase, AlethByzDefs(b), AlethIstDefs(b, i))

(* When Istanbul comes with Byzantium, they are at GatedAddrs, each a      *)
(* builtin activated at its GateOf block.                                  *)
LEMMA AlethGates ==
    ASSUME NEW b \in Blocks \cup {Nil}, NEW i \in Blocks \cup {Nil},
           i /= Nil => b /= Nil
    PROVE  /\ DOMAIN AlethDefs(b, i) = GatedAddrs(b, i)
           /\ \A n \in GatedAddrs(b, i) :
                 /\ AlethDefs(b, i)[n] \in AlethBuiltinRecs
                 /\ AlethDefs(b, i)[n].start = GateOf(b, i, n)
<1> DEFINE P1 == AlethBasePhase
           P2 == AlethByzDefs(b)
           P3 == AlethIstDefs(b, i)
<1>1. /\ IsPhase(P1) /\ DOMAIN P1 = 1..4
      /\ IsPhase(P2) /\ DOMAIN P2 = IF b /= Nil THEN 5..8 ELSE {}
      /\ IsPhase(P3) /\ DOMAIN P3 = IF i /= Nil THEN {6, 7, 9} ELSE {}
  <2>1. IsPhase(NoDefs) /\ DOMAIN NoDefs = {}
    BY DEF IsPhase, NoDefs
  <2>2. IsPhase(P1) /\ DOMAIN P1 = 1..4
    BY BasePhaseType DEF AlethBasePhase
  <2>3. IsPhase(P2) /\ DOMAIN P2 = IF b /= Nil THEN 5..8 ELSE {}
    <3>1. CASE b /= Nil
      <4>1. IsPhase(AlethByzantiumPhase(b))
        BY <3>1, ByzantiumPhaseType
      <4>2. DOMAIN AlethByzantiumPhase(b) = 5..8
        BY DEF AlethByzantiumPhase
      <4>3. QED
        BY <3>1, <4>1, <4>2 DEF AlethByzDefs
    <3>2. QED
      BY <2>1, <3>1 DEF AlethByzDefs
  <2>4. IsPhase(P3) /\ DOMAIN P3 = IF i /= Nil THEN {6, 7, 9} ELSE {}
    <3>1. CASE i /= Nil
      <4>1. IsPhase(AlethIstanbulPhase(b, i))
        BY <3>1, IstanbulPhaseType
      <4>2. DOMAIN AlethIstanbulPhase(b, i) = {6, 7, 9}
        BY DEF AlethIstanbulPhase
      <4>3. QED
        BY <3>1, <4>1, <4>2 DEF AlethIstDefs
    <3>2. QED
      BY <2>1, <3>1 DEF AlethIstDefs
  <2>5. QED
    BY <2>2, <2>3, <2>4
<1>2. DOMAIN Latest(P1, P2, P3) = GatedAddrs(b, i)
  BY <1>1 DEF Latest, GatedAddrs
<1>3. ASSUME NEW n \in GatedAddrs(b, i)
      PROVE  /\ Latest(P1, P2, P3)[n] \in AlethBuiltinRecs
             /\ Latest(P1, P2, P3)[n].start = GateOf(b, i, n)
  <2>1. Latest(P1, P2, P3)[n] =
          IF n \in DOMAIN P3 THEN P3[n] ELSE IF n \in DOMAIN P2 THEN P2[n]
          ELSE P1[n]
    BY <1>2 DEF Latest
  <2>2. CASE n \in 1..4
    <3>1. n \notin DOMAIN P2 /\ n \notin DOMAIN P3
      BY <2>2, <1>1
    <3>2. QED
      BY <2>1, <2>2, <3>1, <1>1, AlethPhaseGates DEF IsPhase, GateOf
  <2>3. CASE n \in 5..8 /\ i = Nil
    <3>1. n \in DOMAIN P2 /\ n \notin DOMAIN P3 /\ n /= 9 /\ n \notin 1..4
      BY <2>3, <1>1 DEF GatedAddrs
    <3>2. P2 = AlethByzantiumPhase(b)
      BY <3>1, <1>1 DEF AlethByzDefs
    <3>3. QED
      BY <2>1, <2>3, <3>1, <3>2, <1>1, AlethPhaseGates DEF IsPhase, GateOf
  <2>4. CASE n \in {5, 8} /\ i /= Nil
    <3>1. n \in DOMAIN P2 /\ n \notin DOMAIN P3 /\ n /= 9 /\ n \notin 1..4
      BY <2>4, <1>1
    <3>2. P2 = AlethByzantiumPhase(b)
      BY <2>4 DEF AlethByzDefs
    <3>3. QED
      BY <2>1, <2>4, <3>1, <3>2, <1>1, AlethPhaseGates DEF IsPhase, GateOf
  <2>5. CASE n \in {6, 7} /\ i /= Nil
    <3>1. n \in DOMAIN P3 /\ n \notin 1..4 /\ n /= 9
      BY <2>5, <1>1
    <3>2. P3 = AlethIstanbulPhase(b, i)
      BY <2>5 DEF AlethIstDefs
    <3>3. QED
      BY <2>1, <2>5, <3>1, <3>2, <1>1, AlethPhaseGates DEF IsPhase, GateOf
  <2>6. CASE n = 9
    <3>1. i /= Nil /\ n \in DOMAIN P3 /\ n \notin 1..4
      BY <2>6, <1>1 DEF GatedAddrs
    <3>2. P3 = AlethIstanbulPhase(b, i)
      BY <3>1 DEF AlethIstDefs
    <3>3. QED
      BY <2>1, <2>6, <3>1, <3>2, <1>1, AlethPhaseGates DEF IsPhase, GateOf
  <2>7. QED
    BY <2>2, <2>3, <2>4, <2>5, <2>6 DEF GatedAddrs
<1>4. QED
  BY <1>2, <1>3 DEF AlethDefs

(* The definitions newParityChainSpec leaves after its three phases.       *)
ParityDefs(b, i) ==
    Latest(ParityBasePhase, ParityByzDefs(b), ParityIstDefs(b, i))

(* When Istanbul comes with Byzantium, they are at GatedAddrs, each a      *)
(* builtin activated at its GateOf block.                                  *)
LEMMA ParityGates ==
    ASSUME NEW b \in Blocks \cup {Nil}, NEW i \in Blocks \cup {Nil},
           i /= Nil => b /= Nil
    PROVE  /\ DOMAIN ParityDefs(b, i) = GatedAddrs(b, i)
           /\ \A n \in GatedAddrs(b, i) :
                 /\ ParityDefs(b, i)[n] \in ParityBuiltinRecs
                 /\ ParityDefs(b, i)[n].activateAt = GateOf(b, i, n)
<1> DEFINE P1 == ParityBasePhase
           P2 == ParityByzDefs(b)
           P3 == ParityIstDefs(b, i)
<1>1. /\ PIsPhase(P1) /\ DOMAIN P1 = 1..4
      /\ PIsPhase(P2) /\ DOMAIN P2 = IF b /= Nil THEN 5..8 ELSE {}
      /\ PIsPhase(P3) /\ DOMAIN P3 = IF i /= Nil THEN 6..9 ELSE {}
  <2>1. PIsPhase(NoDefs) /\ DOMAIN NoDefs = {}
    BY DEF PIsPhase, NoDefs
  <2>2. PIsPhase(P1) /\ DOMAIN P1 = 1..4
    BY ParityBaseType DEF ParityBasePhase
  <2>3. PIsPhase(P2) /\ DOMAIN P2 = IF b /= Nil THEN 5..8 ELSE {}
    <3>1. CASE b /= Nil
      <4>1. PIsPhase(ParityByzantiumPhase(b))
        BY <3>1, ParityByzantiumType
      <4>2. DOMAIN ParityByzantiumPhase(b) = 5..8
        BY DEF ParityByzantiumPhase
      <4>3. QED
        BY <3>1, <4>1, <4>2 DEF ParityByzDefs
    <3>2. QED
      BY <2>1, <3>1 DEF ParityByzDefs
  <2>4. PIsPhase(P3) /\ DOMAIN P3 = IF i /= Nil THEN 6..9 ELSE {}
    <3>1. CASE i /= Nil
      <4>1. PIsPhase(ParityIstanbulPhase(b, i))
        BY <3>1, ParityIstanbulType
      <4>2. DOMAIN ParityIstanbulPhase(b, i) = 6..9
        BY DEF ParityIstanbulPhase
      <4>3. QED
        BY <3>1, <4>1, <4>2 DEF ParityIstDefs
    <3>2. QED
      BY <2>1, <3>1 DEF ParityIstDefs
  <2>5. QED
    BY <2>2, <2>3, <2>4
<1>2. DOMAIN Latest(P1, P2, P3) = GatedAddrs(b, i)
  BY <1>1 DEF Latest, GatedAddrs
<1>3. ASSUME NEW n \in GatedAddrs(b, i)
      PROVE  /\ Latest(P1, P2, P3)[n] \in ParityBuiltinRecs
             /\ Latest(P1, P2, P3)[n].activateAt = GateOf(b, i, n)
  <2>1. Latest(P1, P2, P3)[n] =
          IF n \in DOMAIN P3 THEN P3[n] ELSE IF n \in DOMAIN P2 THEN P2[n]
          ELSE P1[n]
    BY <1>2 DEF Latest
  <2>2. CASE n \in 1..4
    <3>1. n \notin DOMAIN P2 /\ n \notin DOMAIN P3
      BY <2>2, <1>1
    <3>2. QED
      BY <2>1, <2>2, <3>1, <1>1, ParityPhaseGates DEF PIsPhase, GateOf
  <2>3. CASE n \in 5..8 /\ i = Nil
    <3>1. n \in DOMAIN P2 /\ n \notin DOMAIN P3 /\ n /= 9 /\ n \notin 1..4
      BY <2>3, <1>1 DEF GatedAddrs
    <3>2. P2 = ParityByzantiumPhase(b)
      BY <3>1, <1>1 DEF ParityByzDefs
    <3>3. QED
      BY <2>1, <2>3, <3>1, <3>2, <1>1, ParityPhaseGates DEF PIsPhase, GateOf
  <2>4. CASE n \in {5} /\ i /= Nil
    <3>1. n \in DOMAIN P2 /\ n \notin DOMAIN P3 /\ n /= 9 /\ n \notin 1..4
      BY <2>4, <1>1
    <3>2. P2 = ParityByzantiumPhase(b)
      BY <2>4 DEF ParityByzDefs
    <3>3. QED
      BY <2>1, <2>4, <3>1, <3>2, <1>1, ParityPhaseGates DEF PIsPhase, GateOf
  <2>5. CASE n \in 6..8 /\ i /= Nil
    <3>1. n \in DOMAIN P3 /\ n \notin 1..4 /\ n /= 9
      BY <2>5, <1>1
    <3>2. P3 = ParityIstanbulPhase(b, i)
      BY <2>5 DEF ParityIstDefs
    <3>3. QED
      BY <2>1, <2>5, <3>1, <3>2, <1>1, ParityPhaseGates DEF PIsPhase, GateOf
  <2>6. CASE n = 9
    <3>1. i /= Nil /\ n \in DOMAIN P3 /\ n \notin 1..4
      BY <2>6, <1>1 DEF GatedAddrs
    <3>2. P3 = ParityIstanbulPhase(b, i)
      BY <3>1 DEF ParityIstDefs
    <3>3. QED
      BY <2>1, <2>6, <3>1, <3>2, <1>1, ParityPhaseGates DEF PIsPhase, GateOf
  <2>7. QED
    BY <2>2, <2>3, <2>4, <2>5, <2>6 DEF GatedAddrs
<1>4. QED
  BY <1>2, <1>3 DEF ParityDefs

=============================================================================
