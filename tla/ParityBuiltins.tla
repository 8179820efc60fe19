--------------------------- MODULE ParityBuiltins ---------------------------
(***************************************************************************)
(* The precompiled-contract definitions that newParityChainSpec writes,    *)
(* phase by phase, as functions from precompile address to                 *)
(* parityChainSpecBuiltin.  A flat pricing is one Price record; the        *)
(* Istanbul repricing is a versioned table: the Go map keyed by            *)
(* *common.Big POINTERS, so it holds two entries (one made by              *)
(* big.NewInt(0), one for IstanbulBlock) even when the two blocks are      *)
(* equal.  It is the set of its entries, each the block its key points to  *)
(* and the price.                                                          *)
(***************************************************************************)
EXTENDS GenesisModel

(* The pricing structs; a and b are their two numeric fields (Base/Word,  *)
(* Divisor, Base/Pair, Price, GasPerRound), unused ones 0.                 *)
Price(kind, a, b) == [kind |-> kind, a |-> a, b |-> b]

PriceKinds == {"linear", "modexp", "alt_bn128_pairing", "alt_bn128_const",
               "blake2_f"}

(* parityChainSpecBuiltin: pricing is Nil when the versioned table is used, *)
(* and versions is empty when a flat pricing is.                            *)
PBuiltin(name, activateAt, pricing, versions) ==
    [name |-> name, activateAt |-> activateAt, pricing |-> pricing,
     versions |-> versions]

Version(at, price) == [at |-> at, price |-> price]

ParityBuiltinNames == {"ecrecover", "sha256", "ripemd160", "identity", "modexp",
                       "alt_bn128_add", "alt_bn128_mul", "alt_bn128_pairing",
                       "blake2_f"}

PriceRecs == [kind : PriceKinds, a : Nat, b : Nat]

ParityBuiltinRecs ==
    [name : ParityBuiltinNames, activateAt : Blocks \cup {Nil},
     pricing : PriceRecs \cup {Nil},
     versions : SUBSET [at : Blocks \cup {0}, price : PriceRecs]]

(* A builtin is written through a non-nil *parityChainSpecBuiltin, so no   *)
(* definition is the nil pointer.                                          *)
ASSUME NilNotParityBuiltin == Nil \notin ParityBuiltinRecs

Flat(name, at, pricing) == PBuiltin(name, at, pricing, {})

(* Addresses 1..4, set unconditionally (genesis.go 444-455).               *)
ParityBasePhase ==
    <<Flat("ecrecover", Nil, Price("linear", 3000, 0)),
      Flat("sha256", Nil, Price("linear", 60, 12)),
      Flat("ripemd160", Nil, Price("linear", 600, 120)),
      Flat("identity", Nil, Price("linear", 15, 3))>>

(* Addresses 5..8, activated at the Byzantium block b.                     *)
ParityByzantiumPhase(b) ==
    [n \in 5..8 |->
        <<Flat("modexp", b, Price("modexp", 20, 0)),
          Flat("alt_bn128_add", b, Price("linear", 500, 0)),
          Flat("alt_bn128_mul", b, Price("linear", 40000, 0)),
          Flat("alt_bn128_pairing", b, Price("alt_bn128_pairing", 100000, 80000))
        >>[n - 4]]

(* Istanbul at block i (Byzantium at b): 6, 7 and 8 get a table with the  *)
(* pre-Istanbul price at block 0 and the repriced one at i; 9 (blake2_f)   *)
(* is added, activated at i.                                               *)
Versioned(name, b, i, pre, post) ==
    PBuiltin(name, b, Nil, {Version(0, pre), Version(i, post)})

(* Mutant of ParityIstanbulPhase: the repriced entries are activated at   *)
(* the Istanbul block, as blake2_f is.                                     *)
ParityIstanbulPhaseAtIstanbul(b, i) ==
    [n \in 6..9 |->
        <<Versioned("alt_bn128_add", i, i, Price("alt_bn128_const", 500, 0),
                    Price("alt_bn128_const", 150, 0)),
          Versioned("alt_bn128_mul", i, i, Price("alt_bn128_const", 40000, 0),
                    Price("alt_bn128_const", 6000, 0)),
          Versioned("alt_bn128_pairing", i, i,
                    Price("alt_bn128_pairing", 100000, 80000),
                    Price("alt_bn128_pairing", 45000, 34000)),
          Flat("blake2_f", i, Price("blake2_f", 1, 0))>>[n - 5]]

ParityIstanbulPhase(b, i) ==
    [n \in 6..9 |->
        <<Versioned("alt_bn128_add", b, i, Price("alt_bn128_const", 500, 0),
                    Price("alt_bn128_const", 150, 0)),
          Versioned("alt_bn128_mul", b, i, Price("alt_bn128_const", 40000, 0),
                    Price("alt_bn128_const", 6000, 0)),
          Versioned("alt_bn128_pairing", b, i,
                    Price("alt_bn128_pairing", 100000, 80000),
                    Price("alt_bn128_pairing", 45000, 34000)),
          Flat("blake2_f", i, Price("blake2_f", 1, 0))>>[n - 5]]
=============================================================================
