------------------------------ MODULE Translator ------------------------------
(***************************************************************************)
(* The three dialect builders of cmd/puppeth/genesis.go run on ONE genesis *)
(* model, as a network operator does to bootstrap Aleth, Parity and        *)
(* pyethereum nodes from the same genesis.  They share only the read-only  *)
(* genesis, so their steps interleave freely.  The properties are about    *)
(* what the three documents say together.                                  *)
(***************************************************************************)
EXTENDS AlethBuiltins, ParityBuiltins

VARIABLES
    genesis,
    aPc, aErr, aParams, aHeader, aAccounts, aAccountsNil, aPending,
    bPc, bErr, bEthash, bParams, bHeader, bAccounts, bPending,
    cPc, cErr, cDoc

avars == <<aPc, aErr, aParams, aHeader, aAccounts, aAccountsNil, aPending>>
bvars == <<bPc, bErr, bEthash, bParams, bHeader, bAccounts, bPending>>
cvars == <<cPc, cErr, cDoc>>
vars == <<genesis, avars, bvars, cvars>>

A == INSTANCE Aleth WITH pc <- aPc, err <- aErr, params <- aParams,
        header <- aHeader, accounts <- aAccounts, accountsNil <- aAccountsNil,
        pending <- aPending
B == INSTANCE Parity WITH pc <- bPc, err <- bErr, ethash <- bEthash,
        params <- bParams, header <- bHeader, accounts <- bAccounts,
        pending <- bPending
C == INSTANCE PyEthereum WITH pc <- cPc, err <- cErr, doc <- cDoc

Init == A!Init /\ B!Init /\ C!Init

Next ==
    \/ A!Next /\ UNCHANGED <<bvars, cvars>>
    \/ B!Next /\ UNCHANGED <<avars, cvars>>
    \/ C!Build /\ UNCHANGED <<avars, bvars>>

(* Each builder is sequential code that runs until it returns.             *)
Spec == Init /\ [][Next]_vars
        /\ WF_vars(A!Next /\ UNCHANGED <<bvars, cvars>>)
        /\ WF_vars(B!Next /\ UNCHANGED <<avars, cvars>>)
        /\ WF_vars(C!Build /\ UNCHANGED <<avars, bvars>>)

AllDone == aPc = "done" /\ bPc = "done" /\ cPc = "done"

(* The fork blocks the Parity builder dereferences unconditionally, and   *)
(* the chain id both builders dereference, are set (run parity_nil_fork    *)
(* shows what happens otherwise).                                          *)
BaseScheduled(g) ==
    /\ \A f \in {"Homestead", "EIP150", "EIP155", "EIP158"} :
          g.config.forks[f] /= Nil
    /\ g.config.chainID /= Nil

(* Every alloc balance is set: the Parity builder dereferences each one,   *)
(* the Aleth builder stores the pointer (run parity_nil_balance).          *)
BalancesSet(g) == \A a \in DOMAIN g.alloc : g.alloc[a].balance /= Nil

(* The error contract of spec sections 7 and 8, across dialects: on the    *)
(* same genesis, with the pointers Parity dereferences set, the Aleth and  *)
(* Parity builders return the same error (or both a document), and the     *)
(* pyethereum builder fails exactly when the engine is unsupported.        *)
ErrorsAgree ==
    AllDone =>
        /\ BaseScheduled(genesis) /\ BalancesSet(genesis) => aErr = bErr
        /\ (cErr = "unsupported") <=> (aErr = "unsupported")
        /\ cErr \in {"none", "unsupported"}

(* The Aleth and Parity documents define precompiles at the same           *)
(* addresses, each activated at the same block: the Istanbul overwrite     *)
(* of each dialect keeps the activation its Byzantium entry had.           *)
PrecompileActivationAgrees ==
    (aPc = "done" /\ bPc = "done" /\ aErr = "none" /\ bErr = "none") =>
        LET pa == {a \in DOMAIN aAccounts : aAccounts[a].precompiled /= Nil}
            pb == {a \in DOMAIN bAccounts : bAccounts[a].builtin /= Nil}
        IN  /\ pa = pb
            /\ \A a \in pa :
                  aAccounts[a].precompiled.start = bAccounts[a].builtin.activateAt

(* Both documents activate every scheduled fork at the same block: Aleth's *)
(* fork-block fields hold the *big.Int itself, Parity's per-EIP transition *)
(* fields hold num.Uint64() as the fork setters and the base-fork copies   *)
(* write it.                                                               *)
ForkActivationAgrees ==
    (aPc = "done" /\ bPc = "done" /\ aErr = "none" /\ bErr = "none") =>
        \A f \in B!Features :
            LET fork == B!FeatureFork[f]
            IN  (fork \in A!AlethForks /\ aParams.forks[fork] /= Nil) =>
                    bEthash.trans[f] = aParams.forks[fork]
=============================================================================
