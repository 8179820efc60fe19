------------------------------ MODULE ParityProofs ------------------------------
(***************************************************************************)
(* Proof that newParityChainSpec keeps every prefunded account, for every  *)
(* value of the constants.  The full TypeOK of Parity is out of reach: it  *)
(* says that EncodeBig makes a digit string, which needs induction over    *)
(* the digits.  The invariant below carries only the facts it needs.       *)
(***************************************************************************)
EXTENDS Parity, TLAPS

(* The genesis account at a is in spec.Accounts with its balance and nonce. *)
Prefunded(a) ==
    /\ a \in DOMAIN accounts
    /\ accounts[a].balance = genesis.alloc[a].balance
    /\ accounts[a].nonce = genesis.alloc[a].nonce

(* Inductive strengthening of AllocPreserved: the range over genesis.Alloc *)
(* has written every address it visited, the precompile phases keep them,  *)
(* and the builder has no error before it returns.                         *)
PInv ==
    /\ genesis \in GenesisModels
    /\ pc \in Steps
    /\ pc /= "done" => err = "none"
    /\ pc = "alloc" =>
          \A a \in DOMAIN genesis.alloc \ pending : Prefunded(a)
    /\ pc \in {"base", "byzantium", "istanbul", "done"} /\ err = "none" =>
          \A a \in DOMAIN genesis.alloc : Prefunded(a)

(* m[k] = v writes k and keeps every other key.                            *)
LEMMA PutKeeps ==
    ASSUME NEW m, NEW k, NEW v, NEW x \in DOMAIN m \cup {k}
    PROVE  /\ x \in DOMAIN Put(m, k, v)
           /\ Put(m, k, v)[x] = IF x = k THEN v ELSE m[x]
BY DEF Put

(* setPrecompile keeps every account already in the map, with its balance  *)
(* and nonce.                                                              *)
LEMMA SetPrecompilesKeeps ==
    ASSUME NEW accts, NEW phase, NEW a \in DOMAIN accts
    PROVE  /\ a \in DOMAIN SetPrecompiles(accts, phase)
           /\ SetPrecompiles(accts, phase)[a].balance = accts[a].balance
           /\ SetPrecompiles(accts, phase)[a].nonce = accts[a].nonce
BY DEF SetPrecompiles, PAccount

(* A precompile step keeps every prefunded account.                        *)
LEMMA PrecompileStepKeeps ==
    ASSUME NEW phase,
           accounts' = SetPrecompiles(accounts, phase),
           genesis' = genesis,
           NEW a, Prefunded(a)
    PROVE  Prefunded(a)'
<1>1. a \in DOMAIN accounts
  BY DEF Prefunded
<1>2. /\ a \in DOMAIN SetPrecompiles(accounts, phase)
      /\ SetPrecompiles(accounts, phase)[a].balance = accounts[a].balance
      /\ SetPrecompiles(accounts, phase)[a].nonce = accounts[a].nonce
  BY <1>1, SetPrecompilesKeeps
<1>3. QED
  BY <1>2 DEF Prefunded

(* Every step of the builder keeps PInv.                                   *)
LEMMA PInvStep ==
    ASSUME PInv, [Next]_vars
    PROVE  PInv'
<1>1. CASE CheckEngine
  BY <1>1 DEF CheckEngine, PInv, Steps
<1>2. CASE SetParams
  BY <1>2 DEF SetParams, PInv, Steps
<1>3. ASSUME NEW a \in Addresses, SetAccount(a) PROVE PInv'
  <2>1. CASE genesis.alloc[a].balance = Nil
    BY <1>3, <2>1 DEF SetAccount, PInv, Steps
  <2>2. CASE genesis.alloc[a].balance /= Nil
    <3>1. SUFFICES ASSUME NEW b \in DOMAIN genesis.alloc \ pending'
                   PROVE  Prefunded(b)'
      BY <1>3, <2>2 DEF SetAccount, PInv
    <3>2. CASE b = a
      BY <1>3, <2>2, <3>2, PutKeeps DEF SetAccount, Prefunded, PAccount
    <3>3. CASE b /= a
      <4>1. b \in DOMAIN genesis.alloc \ pending /\ pc = "alloc"
        BY <1>3, <2>2, <3>3 DEF SetAccount
      <4>2. Prefunded(b)
        BY <4>1 DEF PInv
      <4>3. b \in DOMAIN accounts' /\ accounts'[b] = accounts[b]
        BY <1>3, <2>2, <3>3, <4>2, PutKeeps DEF SetAccount, Prefunded
      <4>4. QED
        BY <1>3, <2>2, <4>2, <4>3 DEF SetAccount, Prefunded
    <3>4. QED
      BY <3>2, <3>3
  <2>3. QED
    BY <2>1, <2>2
<1>4. CASE EndAlloc
  BY <1>4 DEF EndAlloc, Goto, PInv, Steps, Prefunded
<1>5. CASE SetBasePrecompiles
  <2>1. \A a \in DOMAIN genesis.alloc : Prefunded(a)
    BY <1>5 DEF SetBasePrecompiles, Goto, PInv
  <2>2. \A a \in DOMAIN genesis.alloc : Prefunded(a)'
    BY <1>5, <2>1, PrecompileStepKeeps DEF SetBasePrecompiles
  <2>3. QED
    BY <1>5, <2>2 DEF SetBasePrecompiles, Goto, PInv, Steps
<1>6. CASE SetByzantiumPrecompiles
  <2>1. \A a \in DOMAIN genesis.alloc : Prefunded(a)
    BY <1>6 DEF SetByzantiumPrecompiles, Goto, PInv
  <2>2. CASE Byz(genesis) /= Nil
    <3>1. \A a \in DOMAIN genesis.alloc : Prefunded(a)'
      BY <1>6, <2>1, <2>2, PrecompileStepKeeps DEF SetByzantiumPrecompiles
    <3>2. QED
      BY <1>6, <3>1 DEF SetByzantiumPrecompiles, Goto, PInv, Steps
  <2>3. CASE Byz(genesis) = Nil
    BY <1>6, <2>1, <2>3 DEF SetByzantiumPrecompiles, Goto, PInv, Steps,
                            Prefunded
  <2>4. QED
    BY <2>2, <2>3
<1>7. CASE SetIstanbulPrecompiles
  <2>1. \A a \in DOMAIN genesis.alloc : Prefunded(a)
    BY <1>7 DEF SetIstanbulPrecompiles, Goto, PInv
  <2>2. CASE Ist(genesis) /= Nil /\ Byz(genesis) /= Nil
    <3>1. \A a \in DOMAIN genesis.alloc : Prefunded(a)'
      BY <1>7, <2>1, <2>2, PrecompileStepKeeps DEF SetIstanbulPrecompiles
    <3>2. QED
      BY <1>7, <2>2, <3>1 DEF SetIstanbulPrecompiles, Goto, PInv, Steps
  <2>3. CASE ~(Ist(genesis) /= Nil /\ Byz(genesis) /= Nil)
    BY <1>7, <2>1, <2>3 DEF SetIstanbulPrecompiles, Goto, PInv, Steps,
                            Prefunded
  <2>4. QED
    BY <2>2, <2>3
<1>8. CASE UNCHANGED vars
  BY <1>8 DEF vars, PInv, Prefunded
<1>9. QED
  BY <1>1, <1>2, <1>3, <1>4, <1>5, <1>6, <1>7, <1>8 DEF Next

(* Every prefunded account of genesis.Alloc, at a precompile address too,  *)
(* is in the document newParityChainSpec returns, with its balance and     *)
(* nonce, whatever order the range over genesis.Alloc takes and whichever  *)
(* phases overwrite its address.                                           *)
THEOREM ParityAllocPreservedHolds == Spec => []AllocPreserved
<1>1. Init => PInv
  BY DEF Init, PInv, Steps
<1>2. PInv /\ [Next]_vars => PInv'
  BY PInvStep
<1>3. PInv => AllocPreserved
  BY DEF PInv, AllocPreserved, Built, Prefunded
<1>4. QED
  BY <1>1, <1>2, <1>3, PTL DEF Spec
-----------------------------------------------------------------------------
(* The exact accounts map, as AlethRefinement states it for Aleth: used to *)
(* relate the two builders' documents in TranslatorProofs.                 *)

(* The accounts the range over genesis.Alloc has written for the addresses *)
(* in V, into a map that holds nothing else.                               *)
PAlloc(g, V) ==
    [a \in V |-> PAccount(g.alloc[a].balance, g.alloc[a].nonce, Nil)]

(* Every alloc account and every precompile address of pre, with its       *)
(* definition; a precompile address with no alloc account is empty.        *)
PExpect(g, pre) ==
    [a \in DOMAIN g.alloc \cup DOMAIN pre |->
        PAccount(IF a \in DOMAIN g.alloc THEN g.alloc[a].balance ELSE 0,
                 IF a \in DOMAIN g.alloc THEN g.alloc[a].nonce ELSE 0,
                 IF a \in DOMAIN pre THEN pre[a] ELSE Nil)]

(* The definitions of pre, overwritten by those of phase ph.               *)
POverride(pre, ph) ==
    [n \in DOMAIN pre \cup DOMAIN ph |-> IF n \in DOMAIN ph THEN ph[n] ELSE pre[n]]

NoPhase == [n \in {} |-> Nil]

ByzPhaseOf(g) ==
    IF Byz(g) /= Nil THEN ParityByzantiumPhase(Byz(g)) ELSE NoPhase

IstPhaseOf(g) ==
    IF Ist(g) /= Nil THEN ParityIstanbulPhase(Byz(g), Ist(g)) ELSE NoPhase

(* The precompile definitions after the base, Byzantium and Istanbul       *)
(* blocks of newParityChainSpec.                                           *)
Q1 == POverride(NoPhase, ParityBasePhase)
Q2(g) == POverride(Q1, ByzPhaseOf(g))
Q3(g) == POverride(Q2(g), IstPhaseOf(g))

(* The accounts map newParityChainSpec has built at each block.            *)
PRInv ==
    /\ PInv
    /\ pc \in {"check", "params"} => accounts = EmptyAccounts
    /\ pc = "alloc" =>
          /\ pending \subseteq DOMAIN genesis.alloc
          /\ accounts = PAlloc(genesis, DOMAIN genesis.alloc \ pending)
    /\ pc = "base" => accounts = PExpect(genesis, NoPhase)
    /\ pc = "byzantium" => accounts = PExpect(genesis, Q1)
    /\ pc = "istanbul" => accounts = PExpect(genesis, Q2(genesis))
    /\ Built => accounts = PExpect(genesis, Q3(genesis))

(* PRInv holds when newParityChainSpec is entered.                          *)
LEMMA PRInvInit == Init => PRInv
BY DEF Init, PRInv, PInv, Steps, Built

(* The alloc loop writes one fresh account per visited address.            *)
LEMMA PAllocStep ==
    ASSUME NEW g, NEW V, NEW a, a \notin V
    PROVE  Put(PAlloc(g, V), a, PAccount(g.alloc[a].balance, g.alloc[a].nonce, Nil))
             = PAlloc(g, V \cup {a})
BY Zenon DEF Put, PAlloc

LEMMA PAllocNone ==
    ASSUME NEW g
    PROVE  PAlloc(g, {}) = EmptyAccounts
BY DEF PAlloc, EmptyAccounts

LEMMA PAllocDone ==
    ASSUME NEW g
    PROVE  PAlloc(g, DOMAIN g.alloc) = PExpect(g, NoPhase)
BY DEF PAlloc, PExpect, NoPhase

(* setPrecompile for every address of a phase overrides the definitions   *)
(* and keeps every balance and nonce.                                      *)
LEMMA PSetPrecompilesExpect ==
    ASSUME NEW g, NEW pre, NEW ph
    PROVE  SetPrecompiles(PExpect(g, pre), ph) = PExpect(g, POverride(pre, ph))
BY Zenon DEF SetPrecompiles, PExpect, POverride, PAccount

LEMMA POverrideEmpty ==
    ASSUME NEW pre, pre = [n \in DOMAIN pre |-> pre[n]]
    PROVE  POverride(pre, NoPhase) = pre
BY DEF POverride, NoPhase
(* Every step of the builder keeps PRInv.                                  *)
LEMMA PRInvStep ==
    ASSUME PRInv, [Next]_vars
    PROVE  PRInv'
<1>0. PInv'
  BY PInvStep DEF PRInv
<1>1. CASE CheckEngine
  BY <1>0, <1>1 DEF CheckEngine, PRInv, Built
<1>2. CASE SetParams
  <2>1. CASE pc' = "alloc"
    <3>1. /\ accounts = EmptyAccounts
          /\ pending' = DOMAIN genesis.alloc
          /\ UNCHANGED <<genesis, accounts>>
      BY <1>2, <2>1 DEF SetParams, PRInv
    <3>2. DOMAIN genesis.alloc \ DOMAIN genesis.alloc = {}
      OBVIOUS
    <3>3. accounts' = PAlloc(genesis', DOMAIN genesis'.alloc \ pending')
      BY <3>1, <3>2, PAllocNone
    <3>4. QED
      BY <1>0, <2>1, <3>1, <3>3 DEF PRInv, Built
  <2>2. CASE pc' /= "alloc"
    BY <1>0, <1>2, <2>2 DEF SetParams, PRInv, Built
  <2>3. QED
    BY <2>1, <2>2
<1>3. ASSUME NEW a \in Addresses, SetAccount(a) PROVE PRInv'
  <2>1. CASE genesis.alloc[a].balance = Nil
    BY <1>0, <1>3, <2>1 DEF SetAccount, PRInv, Built
  <2>2. CASE genesis.alloc[a].balance /= Nil
    <3> DEFINE V == DOMAIN genesis.alloc \ pending
    <3>1. /\ pc = "alloc" /\ a \in pending /\ a \notin V
          /\ pending \subseteq DOMAIN genesis.alloc
          /\ accounts = PAlloc(genesis, V)
      BY <1>3 DEF SetAccount, PRInv
    <3>2. accounts' = PAlloc(genesis, V \cup {a})
      BY <1>3, <2>2, <3>1, PAllocStep, SMTT(120) DEF SetAccount
    <3>3. V \cup {a} = DOMAIN genesis'.alloc \ pending'
      BY <1>3, <2>2, <3>1 DEF SetAccount
    <3>4. QED
      BY <1>0, <1>3, <2>2, <3>1, <3>2, <3>3 DEF SetAccount, PRInv, Built
  <2>3. QED
    BY <2>1, <2>2
<1>4. CASE EndAlloc
  <2>1. accounts = PAlloc(genesis, DOMAIN genesis.alloc)
    BY <1>4 DEF EndAlloc, Goto, PRInv
  <2>2. QED
    BY <1>0, <1>4, <2>1, PAllocDone DEF EndAlloc, Goto, PRInv, Built
<1>5. CASE SetBasePrecompiles
  <2>1. accounts' = SetPrecompiles(PExpect(genesis, NoPhase), ParityBasePhase)
    BY <1>5 DEF SetBasePrecompiles, Goto, PRInv
  <2>2. SetPrecompiles(PExpect(genesis, NoPhase), ParityBasePhase)
          = PExpect(genesis, Q1)
    BY PSetPrecompilesExpect DEF Q1
  <2>3. QED
    BY <1>0, <1>5, <2>1, <2>2 DEF SetBasePrecompiles, Goto, PRInv, Built
<1>6. CASE SetByzantiumPrecompiles
  <2>1. accounts = PExpect(genesis, Q1)
    BY <1>6 DEF SetByzantiumPrecompiles, Goto, PRInv
  <2>2. accounts' = PExpect(genesis, Q2(genesis))
    <3>1. CASE Byz(genesis) /= Nil
      <4>1. accounts' = SetPrecompiles(PExpect(genesis, Q1),
                                       ParityByzantiumPhase(Byz(genesis)))
        BY <1>6, <2>1, <3>1 DEF SetByzantiumPrecompiles
      <4>2. SetPrecompiles(PExpect(genesis, Q1), ParityByzantiumPhase(Byz(genesis)))
              = PExpect(genesis, Q2(genesis))
        BY <3>1, PSetPrecompilesExpect DEF Q2, ByzPhaseOf
      <4>3. QED
        BY <4>1, <4>2
    <3>2. CASE Byz(genesis) = Nil
      <4>1. Q2(genesis) = Q1
        <5>1. Q1 = [n \in DOMAIN Q1 |-> Q1[n]]
          BY DEF Q1, POverride
        <5>2. QED
          BY <3>2, <5>1, POverrideEmpty DEF Q2, ByzPhaseOf
      <4>2. QED
        BY <1>6, <2>1, <3>2, <4>1 DEF SetByzantiumPrecompiles
    <3>3. QED
      BY <3>1, <3>2
  <2>3. QED
    BY <1>0, <1>6, <2>2 DEF SetByzantiumPrecompiles, Goto, PRInv, Built
<1>7. CASE SetIstanbulPrecompiles
  <2>1. accounts = PExpect(genesis, Q2(genesis))
    BY <1>7 DEF SetIstanbulPrecompiles, Goto, PRInv
  <2>2. CASE Ist(genesis) = Nil
    <3>1. Q3(genesis) = Q2(genesis)
      <4>1. Q2(genesis) = [n \in DOMAIN Q2(genesis) |-> Q2(genesis)[n]]
        BY DEF Q2, POverride
      <4>2. QED
        BY <2>2, <4>1, POverrideEmpty DEF Q3, IstPhaseOf
    <3>2. QED
      BY <1>0, <1>7, <2>1, <2>2, <3>1 DEF SetIstanbulPrecompiles, Goto, PRInv,
                                          Built
  <2>3. CASE Ist(genesis) /= Nil /\ Byz(genesis) = Nil
    BY <1>0, <1>7, <2>3 DEF SetIstanbulPrecompiles, Goto, PRInv, Built
  <2>4. CASE Ist(genesis) /= Nil /\ Byz(genesis) /= Nil
    <3>1. accounts' = SetPrecompiles(PExpect(genesis, Q2(genesis)),
                        ParityIstanbulPhase(Byz(genesis), Ist(genesis)))
      BY <1>7, <2>1, <2>4 DEF SetIstanbulPrecompiles
    <3>2. SetPrecompiles(PExpect(genesis, Q2(genesis)),
                         ParityIstanbulPhase(Byz(genesis), Ist(genesis)))
            = PExpect(genesis, Q3(genesis))
      BY <2>4, PSetPrecompilesExpect DEF Q3, IstPhaseOf
    <3>3. QED
      BY <1>0, <1>7, <2>4, <3>1, <3>2 DEF SetIstanbulPrecompiles, Goto, PRInv,
                                          Built
  <2>5. QED
    BY <2>2, <2>3, <2>4
<1>8. CASE UNCHANGED vars
  BY <1>0, <1>8 DEF vars, PRInv, Built
<1>9. QED
  BY <1>1, <1>2, <1>3, <1>4, <1>5, <1>6, <1>7, <1>8 DEF Next

(* When newParityChainSpec returns a document, its accounts map is exactly *)
(* every alloc account, with its balance and nonce, and every precompile   *)
(* address with the definition of the latest phase that writes it, for    *)
(* every value of the constants and every order of the range over          *)
(* genesis.Alloc.                                                          *)
THEOREM ParityAccountsExact ==
    Spec => [](Built => accounts = PExpect(genesis, Q3(genesis)))
<1>1. Init => PRInv
  BY PRInvInit
<1>2. PRInv /\ [Next]_vars => PRInv'
  BY PRInvStep
<1>3. PRInv => (Built => accounts = PExpect(genesis, Q3(genesis)))
  BY DEF PRInv
<1>4. QED
  BY <1>1, <1>2, <1>3, PTL DEF Spec
====
