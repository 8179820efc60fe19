--------------------------- MODULE AlethAbstract ----------------------------
(***************************************************************************)
(* What the Format A (Aleth) translator promises, as one atomic step from  *)
(* the genesis model to its result.  The document is defined by what it    *)
(* contains, not by how it is built: every prefunded account, and each     *)
(* precompile address holding the definition of the LATEST active phase    *)
(* that defines it (base, then Byzantium, then Istanbul).  It fails with   *)
(* "unsupported" for a non-ethash engine, then with "panic" when the chain *)
(* id is nil (ChainID.Uint64() dereferences it), then with "invalidFork"   *)
(* when Istanbul is scheduled without Byzantium; nothing else fails.       *)
(***************************************************************************)
EXTENDS AlethBuiltins

VARIABLES genesis, result

absvars == <<genesis, result>>

AbsForks == ForkNames \ {"EIP155"}

EmptyPhase == [n \in {} |-> Nil]

(* The phases the genesis activates, in the order they take effect.        *)
ActivePhases(g) ==
    LET b == g.config.forks["Byzantium"]
        i == g.config.forks["Istanbul"]
    IN  <<AlethBasePhase,
          IF b /= Nil THEN AlethByzantiumPhase(b) ELSE EmptyPhase,
          IF i /= Nil THEN AlethIstanbulPhase(b, i) ELSE EmptyPhase>>

(* The definition at address n: from the last phase that defines it.      *)
FinalBuiltin(g, n) ==
    LET ph == ActivePhases(g)
    IN  IF n \in DOMAIN ph[3] THEN ph[3][n]
        ELSE IF n \in DOMAIN ph[2] THEN ph[2][n]
        ELSE ph[1][n]

PrecompileAddrs(g) ==
    LET ph == ActivePhases(g)
    IN  DOMAIN ph[1] \cup DOMAIN ph[2] \cup DOMAIN ph[3]

ExpectedAccounts(g) ==
    [a \in DOMAIN g.alloc \cup PrecompileAddrs(g) |->
        [balance |-> IF a \in DOMAIN g.alloc THEN g.alloc[a].balance ELSE Nil,
         nonce |-> IF a \in DOMAIN g.alloc THEN g.alloc[a].nonce ELSE 0,
         precompiled |-> IF a \in PrecompileAddrs(g) THEN FinalBuiltin(g, a)
                         ELSE Nil]]

(* A result without a document: an error, or "pending" before returning.   *)
NoDocument(e) == [err |-> e, forks |-> Nil, chainID |-> Nil, header |-> Nil,
                  accounts |-> Nil]

Pending == NoDocument("pending")

Translate(g) ==
    IF ~g.config.ethash THEN NoDocument("unsupported")
    ELSE IF g.config.chainID = Nil THEN NoDocument("panic")
    ELSE IF g.config.forks["Istanbul"] /= Nil /\ g.config.forks["Byzantium"] = Nil
    THEN NoDocument("invalidFork")
    ELSE [err |-> "none",
          forks |-> [f \in AbsForks |-> g.config.forks[f]],
          chainID |-> Uint64(g.config.chainID),
          header |-> g.header,
          accounts |-> ExpectedAccounts(g)]

AbsInit ==
    /\ genesis \in GenesisModels
    /\ result = Pending

Build ==
    /\ result = Pending
    /\ result' = Translate(genesis)
    /\ UNCHANGED genesis

(* The translator always returns.                                          *)
AbsSpec == AbsInit /\ [][Build]_absvars /\ WF_absvars(Build)
=============================================================================
