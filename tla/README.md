# Verification of the puppeth chain-spec translator

This directory holds TLA+ models of `src/cmd/puppeth/genesis.go`. That file takes one go-ethereum genesis (`core.Genesis` with its `params.ChainConfig`) and turns it into the chain-spec documents of three other clients:

* Format A, Aleth: `newAlethGenesisSpec`;
* Format B, Parity: `newParityChainSpec`;
* Format C, pyethereum: `newPyEthereumGenesisSpec`.

The models come with TLC configurations, TLAPS proofs, and `PROJECT.json`, which maps every definition to the lines it models and lists the runs, mutants, findings and hazards.

## The system

The code has the parts below, in the order they depend on each other.

* **Genesis model and fork schedule.** `core.Genesis` and `params.ChainConfig` are read only. A fork is scheduled when its `*big.Int` block is non-nil.
* **Precompile registry.** Each dialect has one: `setPrecompile` (Aleth 201-210, Parity 549-558) and Aleth's `setAccount` (212-225).
  * The address map is made lazily on first use.
  * A later write to an address replaces its builtin but keeps its balance and nonce.
* **Builders.** Each of the three is a sequential, pure function of the genesis.
  * All three reject a non-ethash engine.
  * Aleth and Parity copy the fork blocks, walk `genesis.Alloc`, and set the four base precompiles. Then come the four Byzantium precompiles, then the Istanbul overwrites. They fail when Istanbul is set without Byzantium.
  * Parity also keeps a block-reward map and a bomb-delay map. Both are keyed by `common.EncodeBig(block)`, and the fork setters (`setByzantium`, `setConstantinople`, `setConstantinopleFix`, `setIstanbul`, 560-590) fill them.
  * Parity has one transition field per EIP.
  * Parity's Istanbul repricing of addresses 6, 7 and 8 is a *versioned pricing table*: a map keyed by `*common.Big` pointers.
* **Document types.** These are the structs with JSON tags.

The builders share nothing but the read-only genesis. A network operator runs all three on the same genesis to bootstrap a mixed network. What matters is therefore that each document is right *and* that the three agree.

## Modules

| module | models | state and actions |
|---|---|---|
| `GenesisModel` | `core.Genesis` and `params.ChainConfig` (from the spec; they are not under `src/`), and `big.Int.Uint64()` | `CONSTANTS` for blocks, chain ids, addresses, balances, nonces and headers; `Nil` for a nil pointer (a fork block, the chain id or an alloc balance may be one); `UintWidth` for the width of `Uint64()`, which is truncation `n % 2^UintWidth` |
| `AlethBuiltins` | the `alethGenesisSpecBuiltin` values of 161-196 | three phases, each a function from address to builtin |
| `Aleth` | `newAlethGenesisSpec`, `setPrecompile`, `setAccount` | state: `pc` (next block of the function), `err`, `params`, `header`, `accounts` and `accountsNil` (the map before `make`), `pending` (alloc addresses not yet visited). Actions: one per block: `CheckEngine`, `SetParams` (which panics on a nil `ChainID`), `SetAccount(a)` for each alloc address in any order, `EndAlloc`, and the three precompile phases |
| `AlethAbstract` | what Format A promises | one atomic `Build` step from the genesis to the document or error: each precompile address holds the definition of the latest active phase that defines it. The result is `unsupported`, then `panic` on a nil chain id (`ChainID.Uint64()`, 137), then `invalidFork` |
| `ParityBuiltins` | the `parityChainSpecBuiltin` values of 444-545 | the same phases; the Istanbul phase gives 6, 7 and 8 a two-entry versioned table (block 0 and the Istanbul block) and adds 9 |
| `Parity` | `newParityChainSpec` and its setters | `ethash` holds the reward map, the bomb-delay map and the per-EIP transitions. `SetParams` is the straight-line block 370-435: the Frontier seed, the four base forks, the setters in fork order, the chain id, the EIP98 sentinel and the header. It panics when a base fork or the chain id is nil. Then come the alloc loop, whose `SetAccount(a)` panics on a nil balance (437), and the three phases. `EncodeBig` is the hex digit string |
| `ParityEthash` | the Ethash section of the Parity spec and `common.EncodeBig` | the reward and bomb-delay constants, the table from per-EIP transition field to the fork that sets it, the base forks, and `EncodeBig` (the hex digit string of a block). `Parity` and `ParityAbstract` both extend it |
| `ParityAbstract` | what Format B promises | one atomic `Build` step. Each era map holds, at every key, the entry of the latest fork that encodes its block to that key. Each transition is its fork's block, or 0. The accounts are as in `AlethAbstract`. The result is `unsupported`, then `panic` (a nil base fork, chain id or balance), then `invalidFork` |
| `PyEthereum` | `newPyEthereumGenesisSpec` | one `Build` step: the engine check, then a verbatim copy |
| `Translator` | the three builders on one genesis | `INSTANCE`s of the three with renamed variables; their steps interleave. It extends both builtins modules, so the proofs can use their tables and assumptions |
| `MCAleth`, `MCParity`, `MCTranslator` | TLC instances | schedule sets that override `ForkSchedules`; `MCParity` also holds the property that needs a fold |
| `PhaseProofs` | TLAPS facts about the two dialects' precompile tables | every definition is a builtin record; the three phases of each dialect leave the same addresses, gated at the same forks |
| `AlethProofs` | TLAPS proofs about `Aleth` | |
| `ParityProofs` | TLAPS proofs that `Parity` keeps the prefunded accounts and builds the exact accounts map | |
| `AlethRefinement` | TLAPS proof that `Aleth` implements `AlethAbstract` | |
| `ParityRefinement` | TLAPS proof that `Parity` implements `ParityAbstract` | extends `ParityProofs` |
| `TranslatorProofs` | TLAPS proofs of the cross-dialect error and precompile agreement | |
| `ForkProofs` | TLAPS proof of the cross-dialect fork-block agreement | extends `TranslatorProofs` |

The data is abstracted to what the properties tell apart:

* the header is one opaque value;
* amounts are small naturals;
* Parity's rewards are in ether and its delays in millions of blocks;
* JSON names and layout are left out.

Map keys are kept as their hex encoding, because collisions between encoded keys are what the findings are about.

## Runs

| run | checks | shows |
|---|---|---|
| `aleth` (pass, 274,176 states) | `TypeOK`, `AllocPreserved`, `AccountsOnlyGrow`, `AlethRefinesAbstract` | See the notes below the table. |
| `parity` (pass, 52,326 states) | `TypeOK`, `AllocPreserved`, `RewardScheduleFaithful`, `ParityRefinesAbstract` | For ordered schedules, with forks sharing a block or at genesis, the reward map, read as Parity reads it, pays go-ethereum's reward at every block. It does so only because `setConstantinople` runs after `setByzantium`. Under the mapping `Returned` (`pending` until `pc = "done"`, then the error or the document), the builder is the atomic translator `ParityAbstract`, its fairness included. The mutant that makes `setConstantinopleFix` write Constantinople's fields breaks this. |
| `translator` (pass, 169,128 states) | `ErrorsAgree`, `PrecompileActivationAgrees`, `ForkActivationAgrees` | On one genesis (Homestead present or absent, the four optional forks at every block, balances set or nil), Aleth and Parity return the same error wherever the pointers Parity dereferences are set, and pyethereum fails exactly on an unsupported engine. The Aleth and Parity documents define the same precompile addresses with the same activation blocks, and start every scheduled fork at the same block. |
| `parity_nil_fork` (violation) | `OnlyDeclaredErrors` | A genesis with no Homestead block makes the Parity builder panic at line 385. |
| `parity_nil_balance` (violation) | `OnlyDeclaredErrors` | An alloc account with a nil balance makes the Parity builder panic at line 437; Aleth stores the nil pointer and returns a document. |
| `parity_features` (violation) | `ForkFeaturesFaithful` | An unscheduled Byzantium leaves EIP100b, 140, 211, 214 and 658 at transition 0, which means active from genesis. |
| `parity_version_keys` (violation) | `VersionKeysDistinct` | With Istanbul at block 0, both keys of a versioned pricing table encode to `0x0`. |
| `parity_bomb_delay` (violation) | `BombDelayFaithful` | With Byzantium and Constantinople at the same block, one bomb-delay entry overwrites the other. Parity sums the entries, so it delays the bomb by 2M blocks where go-ethereum delays it by 5M. |
| `translator_wide_block` (violation) | `ForkActivationAgrees` | Blocks `{0, 17}` at `UintWidth = 4` stand for a fork block of `2^64` or more. Aleth keeps Petersburg at 17, but Parity's `num.Uint64()` writes transition 1, so Parity activates the fork 16 blocks early. |

Notes on the `aleth` run. Every fork schedule and every alloc order is covered, including prefunded accounts at precompile addresses 1 and 6, with the chain id set or nil. It shows four things:

* prefunded accounts survive precompile writes;
* the map is never remade or shrunk;
* the builder, in every alloc order, is a refinement of the atomic translator, whose `WF` makes it return as well; this includes the panic on a nil chain id;
* the Istanbul overwrite wins.

Each property of the passing runs has a mutant in `PROJECT.json`: a plausible bug in the mapped code that makes TLC report the property violated. The mutants are:

* `setPrecompile` replacing the account;
* a map that is made twice;
* a dropped Byzantium check;
* the setters swapped;
* the Istanbul entries gated at the Istanbul block;
* the alloc account stored as it is;
* `setConstantinopleFix` writing Constantinople's transition fields.

**Bounds.** Blocks are `{0, 5}`. This makes "at genesis", "later" and "two forks at one block" all reachable, and `CheckedBlocks` adds the block after each fork. Addresses mix precompile addresses (1, 6 or 8) with an ordinary one. `UintWidth = 4` keeps `MaxInt` (7) and `2^w` small while every block stays below `2^w` in the passing runs. `translator_wide_block` adds a block of `2^w + 1` to exercise the truncation. `parity` and `translator` take balances `{100, Nil}`, so the nil-balance panic happens in some behaviours; `aleth` keeps `{100}`, because with `Nil` its state space grows fivefold. `aleth`, `parity` and the translator runs take chain ids `{1, Nil}`, so the panic of `ChainID.Uint64()` happens in some behaviours.

**Fairness.** Each builder is straight-line code with one finite loop, called once and returning. `WF` on its next-state relation (one `WF` per builder in `Translator`) is exactly "the function keeps running until it returns". The runs set `CHECK_DEADLOCK FALSE` because `pc = "done"` is the return: the function really stops there.

## Proofs (checked by `tlapm`)

* `TypeCorrect`: `Spec => []TypeOK` for all values of the constants. It uses the assumptions in `GenesisModel`:
  * the constant sets are sets of naturals;
  * `Nil` is not a natural;
  * the two powers of two are positive naturals.

  Lemmas give the type of each phase table and show that `MapOf`, `SetPrecompiles` and `SetAccountIn` preserve `AccountMap`.
* `AllocPreservedHolds`: `Spec => []AllocPreserved`. `AllocPreserved` is not inductive, because it only speaks of `pc = "done"`. It is strengthened to `AllocInv`:
  * no error has been set before `done`;
  * during the alloc loop, every visited address is already prefunded in the map;
  * from `base` on, all alloc addresses are.

  Lemmas show that the three precompile phases keep the balance and nonce of existing entries, and that `SetAccountIn` writes its own. `AllocInv` was checked by TLC before it was proved.

* `AlethImplementsAbstract` (`AlethRefinement`): `Spec => AbsSafety`, the safety part of `AlethRefinesAbstract` (`Abs!AbsInit /\ [][Abs!Build]_Abs!absvars` under the mapping `result <- Returned`). It holds for every value of the constants. A nil chain id included: the builder panics at `ChainID.Uint64()`, and so does the abstract translator.
  * The invariant `RInv` states the exact accounts map at each block of the function. During the range it is `AllocAccounts` of the visited addresses. After each phase it is `Expect(g, pre)`: every alloc account, with the precompile definitions `pre` written so far.
  * `pre` grows by `Override` at each phase (`Pre1`, `Pre2`, `Pre3`).
  * The invariant also records that the engine was checked and the params and header copied. Once the function has returned, `Returned` equals `Translate(genesis)`.
  * The data lemmas:
    * `AllocStep`: `setAccount` adds one visited account;
    * `SetPrecompilesExpect`: a phase overrides the definitions and keeps balances and nonces;
    * `SetAccountInMade` and `SetPrecompilesMade`: the lazy `make` is invisible, because a nil map is empty;
    * `FinalAccounts`: three overrides give each address the definition of its latest phase, which is what the abstract module promises.
  * A step before the return maps to a stutter, and the returning step maps to `Build`. `RInv` was checked by TLC on the `aleth` instance before it was proved.
* `ParityAllocPreservedHolds` (`ParityProofs`): `Spec => []AllocPreserved` for the Parity builder. The invariant `PInv` has the same shape as `AllocInv`. `Parity`'s own `TypeOK` is not proved, because it states that `EncodeBig` yields a digit string, which is induction over data. `PInv` therefore carries only the facts the argument uses: the genesis type, the `pc` range and no error before `done`.
* `AccountsOnlyGrowHolds` (`AlethProofs`): `Spec => AccountsOnlyGrow`, an action property. Once the accounts map has been made, no step makes it nil again, removes an address, or changes a balance or nonce already written.
  * The step-level fact `Kept` is proved for every `[Next]_vars` step. `AccountsOnlyGrow` follows from `[][Kept]_vars`.
  * `SetAccountIn` writes only a fresh address. This holds because the invariant `GrowInv` records two facts: the map is empty before the alloc loop, and during the loop it holds no pending address.
  * The precompile phases keep the entries they overwrite, except for the builtin (`SetPrecompilesKeeps`).
* `ParityImplementsAbstract` (`ParityRefinement`): `Spec => PAbsSafety`, the safety part of `ParityRefinesAbstract`, for every value of the constants.
  * The mapping is `Returned`. Before the return it is `pending`, so every step maps to a stutter. The returning step maps to `Build`.
  * The invariant `PRefInv` extends `PRInv`. From `params` on, the engine is ethash. From `alloc` on, the base forks and the chain id are set, and the params, header and Ethash record are what `SetParams` wrote. The alloc balances visited so far are set, and after the loop all of them are. At `done`, `Returned = Translate(genesis)`.
  * `EthashDescribed` shows that the four setters, run in the code's order on the Frontier seed, give `Rewards`, `BombDelays` and `Transitions`:
    * at every encoded key, the latest fork's entry;
    * for every feature, its fork's block or 0.
  * `FinalAccounts` gives the accounts map. `DocumentIsTranslation` assembles the document.
  * The proof needs nothing about what `EncodeBig` computes, because the builder and the abstract module key their maps by the same operator. `PRefInv` was checked by TLC on the `parity` instance before it was proved.
  * `ParityAbstract` is reached through `INSTANCE`, so the lemma `SameModel` identifies its copies of the shared definitions with `Parity`'s.
* `ErrorsAgreeHolds` (`TranslatorProofs`): `Spec => []ErrorsAgree` for the three builders interleaved.
  * The invariant gives each builder's error as a function of the genesis alone (`AOutcome`, `BOutcome`, `COutcome`) once that builder is `done`, and `"none"` before.
  * It also records what each builder has already checked at each `pc`: the engine, then the chain id and, for Parity, the base forks.
  * One lemma per builder shows that its steps keep its part of the invariant and the genesis. The other builders' variables are untouched.
  * Parity's outcome includes the panic on a nil balance. During the alloc loop the invariant records that every visited balance was set, and from `base` on that all of them were.
  * Where the base forks, the chain id and the balances are set, `AOutcome` and `BOutcome` coincide.

* `ParityAccountsExact` (`ParityProofs`): once `newParityChainSpec` returns a document, its accounts map is exactly `PExpect(genesis, Q3(genesis))`: every alloc account, with every precompile address holding the definition of the latest phase that writes it. The invariant `PRInv` extends `PInv` with the exact map at each block, in the same way as Aleth's `RInv`.
* `PrecompileActivationAgreesHolds` (`TranslatorProofs`): `Spec => []PrecompileActivationAgrees`. Whenever both the Aleth and the Parity builders return a document, the two define precompiles at the same addresses, with the same activation blocks.
  * `ADefs(m)` and `BDefs(m)` are the precompile definitions an accounts map holds. The invariants `APrecInv` and `BPrecInv` give them at each block: none before the base block, then the phases composed with `Override`. Lemmas show the effect of each write: `setPrecompile` overrides the definitions (given that no phase defines `Nil`), and `setAccount` and the lazy `make` change none.
  * The invariant also uses `Inv` from `ErrorsAgreeHolds`: a builder that returned no error had Istanbul with Byzantium.
  * `PhaseProofs` proves the constant part. In each dialect the three phases leave definitions at `GatedAddrs(b, i)`: 1..4, 5..8 with Byzantium, and 9 with Istanbul. Each is activated at `GateOf(b, i, n)`: none for 1..4, the Istanbul block for 9, the Byzantium block for the rest. This holds even though Aleth's Istanbul table covers {6, 7, 9} and Parity's covers 6..9.
  * It rests on two assumptions, `NilNotBuiltin` and `NilNotParityBuiltin`: a builtin is a non-nil pointer, so no definition is `Nil`.
  * This proof is stated directly on `Translator`'s variables and does not reuse the per-builder invariants: `tlapm` cannot use a theorem of a module reached through `INSTANCE`.

* `ForkActivationAgreesHolds` (`ForkProofs`): if every block of `Blocks` is below `2^UintWidth`, then `Spec => []ForkActivationAgrees`.
  * The invariant `FInv` extends `Inv`. Once `SetParams` has run and no error has followed, Aleth's fork fields are the genesis blocks, and Parity's Ethash parameters are `ForkSetters(genesis)`.
  * `SettersTrans` follows a feature's transition through the Frontier seed and the four setters: each setter changes only the fields of its own fork. The field ends as `Uint64` of its fork's block.
  * `Uint64Fits` turns `Uint64(b)` into `b` under the hypothesis.
  * The hypothesis is a premise of the theorem, not an `ASSUME` of the module, because `translator_wide_block` runs the same module without it and shows that it is needed.

## What is only model-checked

The following are checked by TLC on the instances above and not proved:

* the `WF` (liveness) part of `AlethRefinesAbstract` and `ParityRefinesAbstract`;
* `Parity`'s `TypeOK` and `RewardScheduleFaithful`. Both speak of `EncodeBig`'s output. `TypeOK` says it is a digit string. `RewardScheduleFaithful` decodes the keys back to blocks (`DecodeHex`) and so needs the round trip `DecodeHex(EncodeBig(n)) = n`. `HexDigits` is a recursive function, so each of these is induction over data;
* the remaining Parity properties, which are checked by their `violation` runs.

Liveness and `ENABLED` are outside what TLAPS can prove, and so is induction over data.

## Not modelled

* `src/unnamed/part_000` (a key-generation `main`) and `part_001` (a Dockerfile) have no state machine.
* JSON marshalling, field names, the Frontier protocol constants, header and seal fields, and the `network` and `bootnodes` arguments are modelled as opaque values or left out.
