------------------------------- MODULE MCAleth -------------------------------
(***************************************************************************)
(* Model-checking instance of Aleth.  Byzantium, Istanbul and the chain    *)
(* engine take every value (absent, at genesis, later), so that every      *)
(* branch of the precompile phases is taken; the forks that are only       *)
(* copied take two.  Prefunded addresses include precompile addresses 1   *)
(* and 6 (both overwritten later) and one ordinary address.                *)
(***************************************************************************)
EXTENDS Aleth, TLC

MCForkSchedules ==
    {s \in [ForkNames -> Blocks \cup {Nil}] :
        \A f \in ForkNames \ {"Byzantium", "Istanbul"} : s[f] \in {0, Nil}}
=============================================================================
