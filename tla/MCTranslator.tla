----------------------------- MODULE MCTranslator -----------------------------
(***************************************************************************)
(* Model-checking instance of Translator.  Homestead is at genesis or     *)
(* absent (where the Parity builder panics), the other base forks are at   *)
(* genesis; Byzantium, Constantinople, Petersburg and Istanbul take every  *)
(* value, so forks share a block or not.                                   *)
(***************************************************************************)
EXTENDS Translator, TLC

MCSchedules ==
    {s \in [ForkNames -> Blocks \cup {Nil}] :
        /\ s["Homestead"] \in {0, Nil}
        /\ \A f \in B!BaseForks \ {"Homestead"} : s[f] = 0}
=============================================================================
