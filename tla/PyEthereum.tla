------------------------------ MODULE PyEthereum ------------------------------
(***************************************************************************)
(* newPyEthereumGenesisSpec (cmd/puppeth/genesis.go): the Format C         *)
(* builder.  After the engine check it copies the header fields and        *)
(* genesis.Alloc verbatim; it has no fork logic and no precompiles.        *)
(***************************************************************************)
EXTENDS GenesisModel

VARIABLES
    genesis,    \* the *core.Genesis argument (read only)
    pc,         \* "check" until the function returns, then "done"
    err,        \* the error returned, or "none"
    doc         \* the returned pyEthereumGenesisSpec, Nil before or on error

pyvars == <<genesis, pc, err, doc>>

Init ==
    /\ genesis \in GenesisModels
    /\ pc = "check"
    /\ err = "none"
    /\ doc = Nil

(* The whole function: fail on a non-ethash engine, else build the spec.   *)
Build ==
    /\ pc = "check"
    /\ pc' = "done"
    /\ \/ /\ ~genesis.config.ethash
          /\ err' = "unsupported"
          /\ UNCHANGED doc
       \/ /\ genesis.config.ethash
          /\ doc' = [header |-> genesis.header, alloc |-> genesis.alloc]
          /\ UNCHANGED err
    /\ UNCHANGED genesis

Spec == Init /\ [][Build]_pyvars /\ WF_pyvars(Build)
=============================================================================
