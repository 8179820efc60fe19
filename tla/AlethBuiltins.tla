---------------------------- MODULE AlethBuiltins ---------------------------
(***************************************************************************)
(* The precompiled-contract definitions that newAlethGenesisSpec writes,   *)
(* phase by phase.  A phase is a function from precompile address to its  *)
(* alethGenesisSpecBuiltin; common.BytesToAddress([]byte{n}) is the        *)
(* address of value n.  No pricing is the value Nil (a nil Linear pointer).       *)
(***************************************************************************)
EXTENDS GenesisModel

Linear(base, word) == [base |-> base, word |-> word]

Builtin(name, start, linear) == [name |-> name, start |-> start, linear |-> linear]

AlethBuiltinNames == {"ecrecover", "sha256", "ripemd160", "identity", "modexp",
                      "alt_bn128_G1_add", "alt_bn128_G1_mul",
                      "alt_bn128_pairing_product", "blake2_compression"}

AlethBuiltinRecs ==
    [name : AlethBuiltinNames, start : Blocks \cup {Nil},
     linear : [base : Nat, word : Nat] \cup {Nil}]

(* A builtin is written through a non-nil *alethGenesisSpecBuiltin, so no  *)
(* definition is the nil pointer.                                          *)
ASSUME NilNotBuiltin == Nil \notin AlethBuiltinRecs

(* The four precompiles set unconditionally, at addresses 1..4.           *)
AlethBasePhase ==
    <<Builtin("ecrecover", Nil, Linear(3000, 0)),
      Builtin("sha256", Nil, Linear(60, 12)),
      Builtin("ripemd160", Nil, Linear(600, 120)),
      Builtin("identity", Nil, Linear(15, 3))>>

(* The four precompiles gated at the Byzantium block b, at 5..8.           *)
AlethByzantiumPhase(b) ==
    [n \in 5..8 |->
        <<Builtin("modexp", b, Nil),
          Builtin("alt_bn128_G1_add", b, Linear(500, 0)),
          Builtin("alt_bn128_G1_mul", b, Linear(40000, 0)),
          Builtin("alt_bn128_pairing_product", b, Nil)>>[n - 4]]

(* Istanbul (block i, Byzantium at b): 6 and 7 lose their linear pricing   *)
(* ("Aleth hardcoded the gas policy") and blake2 is added at i.            *)
AlethIstanbulPhase(b, i) ==
    [n \in {6, 7, 9} |->
        IF n = 9 THEN Builtin("blake2_compression", i, Nil)
        ELSE <<Builtin("alt_bn128_G1_add", b, Nil),
               Builtin("alt_bn128_G1_mul", b, Nil)>>[n - 5]]
=============================================================================
