--------------------------- MODULE ParityAbstract ---------------------------
(***************************************************************************)
(* What the Format B (Parity) translator does, as one atomic step from the *)
(* genesis model to its result.  The document is defined by what it        *)
(* contains, not by the order of the calls that build it:                  *)
(*   - each era map holds, at every key, the entry of the LATEST fork that *)
(*     encodes its block to that key (Frontier, Byzantium, Constantinople); *)
(*   - each per-EIP transition is its fork's block, or 0 when the fork is  *)
(*     not scheduled;                                                      *)
(*   - every prefunded account, and each precompile address holding the    *)
(*     definition of the latest active phase that defines it.              *)
(* The result is "unsupported" for a non-ethash engine, then "panic" when  *)
(* a base fork block, the chain id or an alloc balance is nil (the code    *)
(* dereferences them), then "invalidFork" when Istanbul is scheduled       *)
(* without Byzantium.                                                      *)
(***************************************************************************)
EXTENDS ParityBuiltins, ParityEthash

VARIABLES genesis, result

absvars == <<genesis, result>>

EmptyPhase == [n \in {} |-> Nil]

(* The precompile phases the genesis activates, in the order they apply.   *)
ActivePhases(g) ==
    LET b == g.config.forks["Byzantium"]
        i == g.config.forks["Istanbul"]
    IN  <<ParityBasePhase,
          IF b /= Nil THEN ParityByzantiumPhase(b) ELSE EmptyPhase,
          IF i /= Nil THEN ParityIstanbulPhase(b, i) ELSE EmptyPhase>>

PrecompileAddrs(g) ==
    LET ph == ActivePhases(g)
    IN  DOMAIN ph[1] \cup DOMAIN ph[2] \cup DOMAIN ph[3]

(* The definition at address n: from the last phase that defines it.      *)
FinalBuiltin(g, n) ==
    LET ph == ActivePhases(g)
    IN  IF n \in DOMAIN ph[3] THEN ph[3][n]
        ELSE IF n \in DOMAIN ph[2] THEN ph[2][n]
        ELSE ph[1][n]

ExpectedAccounts(g) ==
    [a \in DOMAIN g.alloc \cup PrecompileAddrs(g) |->
        [balance |-> IF a \in DOMAIN g.alloc THEN g.alloc[a].balance ELSE 0,
         nonce |-> IF a \in DOMAIN g.alloc THEN g.alloc[a].nonce ELSE 0,
         builtin |-> IF a \in PrecompileAddrs(g) THEN FinalBuiltin(g, a)
                     ELSE Nil]]

(* The forks that open an era with their own reward and bomb delay.        *)
Eras == {"Byzantium", "Constantinople"}

(* Fork f is scheduled at a block whose encoding is the key k.             *)
WritesAt(g, f, k) ==
    g.config.forks[f] /= Nil /\ EncodeBig(g.config.forks[f]) = k

EraKeys(g) ==
    {EncodeBig(g.config.forks[f]) : f \in {e \in Eras : g.config.forks[e] /= Nil}}

Rewards(g) ==
    [k \in {EncodeBig(0)} \cup EraKeys(g) |->
        IF WritesAt(g, "Constantinople", k)
        THEN EncodeBig(ConstantinopleBlockReward)
        ELSE IF WritesAt(g, "Byzantium", k)
        THEN EncodeBig(ByzantiumBlockReward)
        ELSE EncodeBig(FrontierBlockReward)]

BombDelays(g) ==
    [k \in EraKeys(g) |->
        IF WritesAt(g, "Constantinople", k)
        THEN EncodeBig(ConstantinopleBombDelay)
        ELSE EncodeBig(ByzantiumBombDelay)]

Transitions(g) ==
    [f \in Features |->
        IF g.config.forks[FeatureFork[f]] /= Nil
        THEN Uint64(g.config.forks[FeatureFork[f]]) ELSE 0]

(* A value the code dereferences is nil.                                   *)
Panics(g) ==
    \/ \E f \in BaseForks : g.config.forks[f] = Nil
    \/ g.config.chainID = Nil
    \/ \E a \in DOMAIN g.alloc : g.alloc[a].balance = Nil

(* A result without a document: an error, or "pending" before returning.   *)
NoDocument(e) ==
    [err |-> e, ethash |-> Nil, params |-> Nil, header |-> Nil, accounts |-> Nil]

Pending == NoDocument("pending")

Translate(g) ==
    IF ~g.config.ethash THEN NoDocument("unsupported")
    ELSE IF Panics(g) THEN NoDocument("panic")
    ELSE IF g.config.forks["Istanbul"] /= Nil /\ g.config.forks["Byzantium"] = Nil
    THEN NoDocument("invalidFork")
    ELSE [err |-> "none",
          ethash |-> [reward |-> Rewards(g), delays |-> BombDelays(g),
                      trans |-> Transitions(g)],
          params |-> [networkID |-> Uint64(g.config.chainID),
                      chainID |-> Uint64(g.config.chainID),
                      eip98 |-> MaxInt, maxCodeSize |-> 0],
          header |-> g.header,
          accounts |-> ExpectedAccounts(g)]

AbsInit ==
    /\ genesis \in GenesisModels
    /\ result = Pending

Build ==
    /\ result = Pending
    /\ result' = Translate(genesis)
    /\ UNCHANGED genesis

(* The translator always returns.                                          *)
AbsSpec == AbsInit /\ [][Build]_absvars /\ WF_absvars(Build)
=============================================================================
