-------------------------------- MODULE Parity -------------------------------
(***************************************************************************)
(* newParityChainSpec (cmd/puppeth/genesis.go): the Format B builder, as   *)
(* a sequence of steps over a program counter, one action per block of    *)
(* the function.  The straight-line code from the engine check to the     *)
(* header copy (372-435) is one action: it calls the fork setters          *)
(* setByzantium, setConstantinople, setConstantinopleFix and setIstanbul,  *)
(* which are operators on the Ethash parameters here.  The range over      *)
(* genesis.Alloc visits the addresses in any order.                        *)
(*                                                                         *)
(* Block-number keys of the reward and bomb-delay maps are what            *)
(* common.EncodeBig makes of them, a hexadecimal digit string; values are  *)
(* encoded the same way.  Rewards are in ether, delays in millions of      *)
(* blocks (the code writes wei and blocks; only the ratios matter here).   *)
(***************************************************************************)
EXTENDS ParityBuiltins, ParityEthash

VARIABLES
    genesis,    \* the *core.Genesis argument (read only)
    pc,         \* the next block of newParityChainSpec to run
    err,        \* the error returned, or "none"; "panic" for a nil dereference
    ethash,     \* spec.Engine.Ethash.Params and the per-EIP transitions
    params,     \* the other spec.Params fields taken from the genesis
    header,     \* spec.Genesis, the copied header fields
    accounts,   \* spec.Accounts: a map from address to account
    pending     \* the addresses the range over genesis.Alloc has not visited

vars == <<genesis, pc, err, ethash, params, header, accounts, pending>>

Steps == {"check", "params", "alloc", "base", "byzantium", "istanbul", "done"}

Errors == {"none", "unsupported", "invalidFork", "panic"}

(* Reading a hex string back, as the client parsing the document does.     *)
DecodeHex(s) ==
    LET v[i \in 0..Len(s)] == IF i = 0 THEN 0 ELSE 16 * v[i - 1] + s[i]
    IN  v[Len(s)]

(* m[k] = v on a Go map.                                                   *)
Put(m, k, v) == [x \in DOMAIN m \cup {k} |-> IF x = k THEN v ELSE m[x]]

EmptyKV == [k \in {} |-> <<>>]

(* The transition fields of one fork set to num.Uint64().                  *)
SetFeatures(t, fork, num) ==
    [f \in DOMAIN t |-> IF FeatureFork[f] = fork THEN Uint64(num) ELSE t[f]]

EthashRec(reward, delays, trans) ==
    [reward |-> reward, delays |-> delays, trans |-> trans]

(* The Frontier reward at "0x0" (382) and the base forks' transitions      *)
(* (385-396); the other transitions keep their zero value.                 *)
Frontier(g) ==
    EthashRec(Put(EmptyKV, EncodeBig(0), EncodeBig(FrontierBlockReward)),
              EmptyKV,
              [f \in Features |->
                  IF FeatureFork[f] \in BaseForks
                  THEN Uint64(g.config.forks[FeatureFork[f]]) ELSE 0])

(* A fork's reward and bomb delay keyed by EncodeBig(num), overwriting an  *)
(* entry of an earlier fork at the same block; its transitions.            *)
SetEra(s, num, fork, reward, delay) ==
    EthashRec(Put(s.reward, EncodeBig(num), EncodeBig(reward)),
              Put(s.delays, EncodeBig(num), EncodeBig(delay)),
              SetFeatures(s.trans, fork, num))

SetByzantium(s, num) ==
    SetEra(s, num, "Byzantium", ByzantiumBlockReward, ByzantiumBombDelay)

SetConstantinople(s, num) ==
    SetEra(s, num, "Constantinople", ConstantinopleBlockReward,
           ConstantinopleBombDelay)

(* Mutant of SetConstantinopleFix: it writes the Constantinople fields.   *)
SetConstantinopleFixMisnamed(s, num) ==
    EthashRec(s.reward, s.delays, SetFeatures(s.trans, "Constantinople", num))

SetConstantinopleFix(s, num) ==
    EthashRec(s.reward, s.delays, SetFeatures(s.trans, "Petersburg", num))

SetIstanbul(s, num) ==
    EthashRec(s.reward, s.delays, SetFeatures(s.trans, "Istanbul", num))

(* if num := genesis.Config.XBlock; num != nil { spec.setX(num) }          *)
IfSet(s, num, Set(_, _)) == IF num = Nil THEN s ELSE Set(s, num)

(* Mutant of ForkSetters: setConstantinople is called before setByzantium. *)
ForkSettersSwapped(g) ==
    LET f == g.config.forks
    IN  IfSet(IfSet(IfSet(IfSet(Frontier(g), f["Constantinople"],
                                SetConstantinople),
                          f["Byzantium"], SetByzantium),
                    f["Petersburg"], SetConstantinopleFix),
              f["Istanbul"], SetIstanbul)

(* The Ethash parameters after the Frontier seed and the four setters,     *)
(* called in fork order (381-413).                                         *)
ForkSetters(g) ==
    LET f == g.config.forks
    IN  IfSet(IfSet(IfSet(IfSet(Frontier(g), f["Byzantium"], SetByzantium),
                          f["Constantinople"], SetConstantinople),
                    f["Petersburg"], SetConstantinopleFix),
              f["Istanbul"], SetIstanbul)

PAccount(balance, nonce, builtin) ==
    [balance |-> balance, nonce |-> nonce, builtin |-> builtin]

EmptyAccounts == [a \in {} |-> PAccount(0, 0, Nil)]

(* Mutant of SetPrecompiles: a fresh account replaces an existing one.     *)
SetPrecompilesReplacing(accts, phase) ==
    [a \in DOMAIN accts \cup DOMAIN phase |->
        IF a \in DOMAIN phase THEN PAccount(0, 0, phase[a]) ELSE accts[a]]

(* setPrecompile for every address of a phase: an account that exists     *)
(* keeps its balance and nonce and gets the builtin; otherwise an empty    *)
(* account is made.  (Its nil-map branch is dead: the map is made at 435.) *)
SetPrecompiles(accts, phase) ==
    [a \in DOMAIN accts \cup DOMAIN phase |->
        IF a \in DOMAIN phase
        THEN IF a \in DOMAIN accts
             THEN PAccount(accts[a].balance, accts[a].nonce, phase[a])
             ELSE PAccount(0, 0, phase[a])
        ELSE accts[a]]

Byz(g) == g.config.forks["Byzantium"]
Ist(g) == g.config.forks["Istanbul"]

ZeroParams == [networkID |-> 0, chainID |-> 0, eip98 |-> 0, maxCodeSize |-> 0]

Init ==
    /\ genesis \in GenesisModels
    /\ pc = "check"
    /\ err = "none"
    /\ ethash = EthashRec(EmptyKV, EmptyKV, [f \in Features |-> 0])
    /\ params = ZeroParams
    /\ header = Nil
    /\ accounts = EmptyAccounts
    /\ pending = {}

Goto(from, to) == pc = from /\ pc' = to

(* Only ethash is supported: return the error, or go on.                   *)
CheckEngine ==
    /\ pc = "check"
    /\ \/ /\ ~genesis.config.ethash
          /\ pc' = "done"
          /\ err' = "unsupported"
       \/ /\ genesis.config.ethash
          /\ pc' = "params"
          /\ UNCHANGED err
    /\ UNCHANGED <<genesis, ethash, params, header, accounts, pending>>

(* Lines 372-435: the Frontier seed, the base fork transitions, the fork   *)
(* setters, chain id, the EIP98 sentinel, the header and the accounts map. *)
(* A nil base fork block or ChainID is dereferenced by .Uint64(): a panic. *)
SetParams ==
    /\ pc = "params"
    /\ \/ /\ \/ \E f \in BaseForks : genesis.config.forks[f] = Nil
             \/ genesis.config.chainID = Nil
          /\ pc' = "done"
          /\ err' = "panic"
          /\ UNCHANGED <<ethash, params, header, pending>>
       \/ /\ \A f \in BaseForks : genesis.config.forks[f] /= Nil
          /\ genesis.config.chainID /= Nil
          /\ pc' = "alloc"
          /\ ethash' = ForkSetters(genesis)
          /\ params' = [networkID |-> Uint64(genesis.config.chainID),
                        chainID |-> Uint64(genesis.config.chainID),
                        eip98 |-> MaxInt, maxCodeSize |-> 0]
          /\ header' = genesis.header
          /\ pending' = DOMAIN genesis.alloc
          /\ UNCHANGED err
    /\ UNCHANGED <<genesis, accounts>>

(* Mutant of SetAccount: the genesis account is stored as it is.          *)
SetAccountVerbatim(a) ==
    /\ pc = "alloc"
    /\ a \in pending
    /\ accounts' = Put(accounts, a, genesis.alloc[a])
    /\ pending' = pending \ {a}
    /\ UNCHANGED <<genesis, pc, err, ethash, params, header>>

(* One iteration of the range over genesis.Alloc: *account.Balance is      *)
(* dereferenced (a nil balance panics), then a fresh account with the     *)
(* balance and nonce is stored.                                            *)
SetAccount(a) ==
    /\ pc = "alloc"
    /\ a \in pending
    /\ \/ /\ genesis.alloc[a].balance = Nil
          /\ pc' = "done"
          /\ err' = "panic"
          /\ UNCHANGED <<accounts, pending>>
       \/ /\ genesis.alloc[a].balance /= Nil
          /\ accounts' = Put(accounts, a, PAccount(genesis.alloc[a].balance,
                                                   genesis.alloc[a].nonce, Nil))
          /\ pending' = pending \ {a}
          /\ UNCHANGED <<pc, err>>
    /\ UNCHANGED <<genesis, ethash, params, header>>

EndAlloc ==
    /\ pending = {}
    /\ Goto("alloc", "base")
    /\ UNCHANGED <<genesis, err, ethash, params, header, accounts, pending>>

SetBasePrecompiles ==
    /\ Goto("base", "byzantium")
    /\ accounts' = SetPrecompiles(accounts, ParityBasePhase)
    /\ UNCHANGED <<genesis, err, ethash, params, header, pending>>

SetByzantiumPrecompiles ==
    /\ Goto("byzantium", "istanbul")
    /\ accounts' = IF Byz(genesis) /= Nil
                   THEN SetPrecompiles(accounts,
                                       ParityByzantiumPhase(Byz(genesis)))
                   ELSE accounts
    /\ UNCHANGED <<genesis, err, ethash, params, header, pending>>

(* if IstanbulBlock != nil: fail when Byzantium is nil, else reprice 6, 7  *)
(* and 8 with versioned tables and add 9; then return.                     *)
SetIstanbulPrecompiles ==
    /\ Goto("istanbul", "done")
    /\ \/ /\ Ist(genesis) = Nil
          /\ UNCHANGED <<err, accounts>>
       \/ /\ Ist(genesis) /= Nil
          /\ Byz(genesis) = Nil
          /\ err' = "invalidFork"
          /\ UNCHANGED accounts
       \/ /\ Ist(genesis) /= Nil
          /\ Byz(genesis) /= Nil
          /\ accounts' = SetPrecompiles(accounts,
                            ParityIstanbulPhase(Byz(genesis), Ist(genesis)))
          /\ UNCHANGED err
    /\ UNCHANGED <<genesis, ethash, params, header, pending>>

Next ==
    \/ CheckEngine
    \/ SetParams
    \/ \E a \in Addresses : SetAccount(a)
    \/ EndAlloc
    \/ SetBasePrecompiles
    \/ SetByzantiumPrecompiles
    \/ SetIstanbulPrecompiles

(* The builder is sequential code that runs until it returns.              *)
Spec == Init /\ [][Next]_vars /\ WF_vars(Next)
-----------------------------------------------------------------------------
(* The builder has returned a document.                                    *)
Built == pc = "done" /\ err = "none"

HexStrings == Seq(0..15)

KVMap(m) ==
    /\ m = [k \in DOMAIN m |-> m[k]]
    /\ DOMAIN m \subseteq HexStrings
    /\ \A k \in DOMAIN m : m[k] \in HexStrings

ParityAccountRecs ==
    [balance : (Balances \ {Nil}) \cup {0}, nonce : Nonces \cup {0},
     builtin : ParityBuiltinRecs \cup {Nil}]

(* Type correctness of the builder's state.                                *)
TypeOK ==
    /\ genesis \in GenesisModels
    /\ pc \in Steps
    /\ err \in Errors
    /\ KVMap(ethash.reward) /\ KVMap(ethash.delays)
    /\ ethash.trans \in [Features -> Nat]
    /\ params \in [networkID : Nat, chainID : Nat, eip98 : Nat,
                   maxCodeSize : {0}]
    /\ header \in Headers \cup {Nil}
    /\ accounts = [a \in DOMAIN accounts |-> accounts[a]]
    /\ DOMAIN accounts \subseteq Nat
    /\ \A a \in DOMAIN accounts : accounts[a] \in ParityAccountRecs
    /\ pending \subseteq DOMAIN genesis.alloc

(* Every prefunded account, at a precompile address too, is in the         *)
(* returned document with its balance and nonce: setPrecompile must keep   *)
(* the account the alloc loop wrote.                                       *)
AllocPreserved ==
    Built =>
        \A a \in DOMAIN genesis.alloc :
            /\ a \in DOMAIN accounts
            /\ accounts[a].balance = genesis.alloc[a].balance
            /\ accounts[a].nonce = genesis.alloc[a].nonce

(* The blocks the schedule properties look at: every fork block and the    *)
(* block after it.                                                         *)
CheckedBlocks == Blocks \cup {b + 1 : b \in Blocks}

(* How Parity's Ethash engine reads a block-number-keyed map at block n:   *)
(* the entry with the greatest key not above n.                            *)
ScheduleAt(m, n) ==
    LET ks == {k \in DOMAIN m : DecodeHex(k) <= n}
    IN  DecodeHex(m[CHOOSE k \in ks : \A j \in ks : DecodeHex(j) <= DecodeHex(k)])

(* The block reward go-ethereum's ethash pays at block n.                  *)
GethReward(g, n) ==
    LET b == g.config.forks["Byzantium"]
        c == g.config.forks["Constantinople"]
    IN  IF c /= Nil /\ n >= c THEN ConstantinopleBlockReward
        ELSE IF b /= Nil /\ n >= b THEN ByzantiumBlockReward
        ELSE FrontierBlockReward

(* Constantinople is scheduled only after or with Byzantium (the order    *)
(* the fork schedule keeps by convention; the builder does not check it).  *)
ForkOrdered(g) ==
    LET b == g.config.forks["Byzantium"]
        c == g.config.forks["Constantinople"]
    IN  c /= Nil => b /= Nil /\ b <= c

(* The blockReward map the builder writes (the Frontier seed at "0x0",     *)
(* then setByzantium and setConstantinople, each overwriting the entry of  *)
(* an earlier fork at the same block) pays, read the way Parity reads it,  *)
(* the reward go-ethereum pays at every block, for every ordered schedule, *)
(* forks at the same block and at genesis included.                        *)
RewardScheduleFaithful ==
    (Built /\ ForkOrdered(genesis)) =>
        \A n \in CheckedBlocks :
            ScheduleAt(ethash.reward, n) = GethReward(genesis, n)

(* Every per-EIP transition of the document activates its feature at the   *)
(* same blocks as the genesis config: at the fork block when the fork is   *)
(* scheduled, never when it is not (Parity activates a feature at every    *)
(* block at or above its transition).                                      *)
ForkFeaturesFaithful ==
    Built =>
        \A f \in Features, n \in CheckedBlocks :
            LET b == genesis.config.forks[FeatureFork[f]]
            IN  (ethash.trans[f] <= n) <=> (b /= Nil /\ b <= n)

(* The Istanbul versioned pricing tables serialise to JSON objects with    *)
(* distinct keys: the two *common.Big keys never encode to the same text.  *)
VersionKeysDistinct ==
    Built =>
        \A a \in DOMAIN accounts :
            accounts[a].builtin /= Nil =>
                \A v, w \in accounts[a].builtin.versions :
                    v /= w => EncodeBig(v.at) /= EncodeBig(w.at)

(* The builder fails only with the two declared errors (spec section 7);   *)
(* every other field is populated without failing.                         *)
OnlyDeclaredErrors ==
    pc = "done" => err \in {"none", "unsupported", "invalidFork"}

(* What newParityChainSpec has returned: "pending" until it returns, then *)
(* the document, or nil and the error.                                     *)
Returned ==
    IF Built
    THEN [err |-> "none", ethash |-> ethash, params |-> params,
          header |-> header, accounts |-> accounts]
    ELSE [err |-> IF pc = "done" THEN err ELSE "pending", ethash |-> Nil,
          params |-> Nil, header |-> Nil, accounts |-> Nil]

(* newParityChainSpec implements the atomic translator ParityAbstract:     *)
(* with the result "pending" until the function returns and what it        *)
(* returned after, every behaviour of the builder, over every order of the *)
(* range over genesis.Alloc, is one of the translator, which returns in    *)
(* one step the era maps with the latest fork's entry at each key, the     *)
(* transitions, the accounts and precompiles, or the error or panic.       *)
PAbs == INSTANCE ParityAbstract WITH result <- Returned

ParityRefinesAbstract == PAbs!AbsSpec
=============================================================================
