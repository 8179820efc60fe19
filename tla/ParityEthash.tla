----------------------------- MODULE ParityEthash -----------------------------
(***************************************************************************)
(* The Ethash section of the Parity chain spec that newParityChainSpec     *)
(* writes (cmd/puppeth/genesis.go): the block rewards and bomb delays of   *)
(* the eras, the per-EIP transition fields by the fork that sets them, and *)
(* common.EncodeBig, which makes the block-number keys and the values of   *)
(* the era maps.  Shared by the builder and by what it promises.           *)
(***************************************************************************)
EXTENDS GenesisModel, Sequences

(* common.EncodeBig / EncodeUint64: the hexadecimal digits of n, most     *)
(* significant first, no leading zero ("0x0" for zero; the "0x" prefix is  *)
(* the same for all keys and is left out).                                 *)
HexDigits[n \in Nat] ==
    IF n < 16 THEN <<n>> ELSE Append(HexDigits[n \div 16], n % 16)

EncodeBig(n) == HexDigits[n]

(* ethash.FrontierBlockReward, ByzantiumBlockReward,                      *)
(* ConstantinopleBlockReward (ether), and the bomb delays of               *)
(* setByzantium and setConstantinople (millions of blocks).               *)
FrontierBlockReward       == 5
ByzantiumBlockReward      == 3
ConstantinopleBlockReward == 2
ByzantiumBombDelay        == 3
ConstantinopleBombDelay   == 2

(* The per-EIP transition fields of the spec, by the config fork whose     *)
(* block the code copies into them.                                        *)
FeatureFork ==
    [homestead |-> "Homestead", eip150 |-> "EIP150",
     eip155 |-> "EIP155", eip160 |-> "EIP155",
     eip161abc |-> "EIP158", eip161d |-> "EIP158",
     eip100b |-> "Byzantium", eip140 |-> "Byzantium", eip211 |-> "Byzantium",
     eip214 |-> "Byzantium", eip658 |-> "Byzantium",
     eip145 |-> "Constantinople", eip1014 |-> "Constantinople",
     eip1052 |-> "Constantinople", eip1283 |-> "Constantinople",
     eip1283Disable |-> "Petersburg",
     eip1344 |-> "Istanbul", eip1884 |-> "Istanbul", eip2028 |-> "Istanbul",
     eip1283Reenable |-> "Istanbul"]

Features == DOMAIN FeatureFork

(* The forks read unconditionally, with .Uint64() on a possibly nil        *)
(* pointer (385-396).                                                      *)
BaseForks == {"Homestead", "EIP150", "EIP155", "EIP158"}

=============================================================================
