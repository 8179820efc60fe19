------------------------------ MODULE MCParity ------------------------------
(***************************************************************************)
(* Model-checking instance of Parity.  The forks with setters and          *)
(* precompile phases (Byzantium, Constantinople, Petersburg, Istanbul)     *)
(* take every value: absent, at genesis, later; so forks share a block,    *)
(* which is where the keyed maps overwrite.  Homestead may be absent, to   *)
(* reach the nil dereference; the other base forks are at genesis.         *)
(***************************************************************************)
EXTENDS Parity, Functions, TLC

MCForkSchedules ==
    {s \in [ForkNames -> Blocks \cup {Nil}] :
        /\ s["Homestead"] \in {0, Nil}
        /\ \A f \in {"EIP150", "EIP155", "EIP158"} : s[f] = 0}

(* Schedules with every base fork at genesis, and the optional forks free. *)
MCBaseForksSet ==
    {s \in [ForkNames -> Blocks \cup {Nil}] : \A f \in BaseForks : s[f] = 0}

(* Parity's Ethash engine subtracts, at block n, the delays of ALL entries *)
(* of difficultyBombDelays with a key not above n.                         *)
DelayAt(m, n) ==
    FoldFunctionOnSet(LAMBDA x, y : x + y, 0, [k \in DOMAIN m |-> DecodeHex(m[k])],
                      {k \in DOMAIN m : DecodeHex(k) <= n})

(* The bomb delay go-ethereum's ethash applies at block n (millions).      *)
GethBombDelay(g, n) ==
    LET b == g.config.forks["Byzantium"]
        c == g.config.forks["Constantinople"]
    IN  IF c /= Nil /\ n >= c THEN ByzantiumBombDelay + ConstantinopleBombDelay
        ELSE IF b /= Nil /\ n >= b THEN ByzantiumBombDelay
        ELSE 0

(* The difficultyBombDelays map the builder writes delays the bomb, read   *)
(* the way Parity reads it, by as much as go-ethereum does at every block, *)
(* for every ordered schedule.                                             *)
BombDelayFaithful ==
    (Built /\ ForkOrdered(genesis)) =>
        \A n \in CheckedBlocks :
            DelayAt(ethash.delays, n) = GethBombDelay(genesis, n)
=============================================================================
