---------------------------- MODULE MCGovernance ----------------------------
(***************************************************************************)
(* Instance of Governance for TLC: changes of one switch for the current   *)
(* and for later heights, of the limit on heights itself, and changes that *)
(* no module accepts; both lists with overlapping addresses.               *)
(***************************************************************************)
EXTENDS Governance

CONSTANTS a1, a2

ParamChange(subspace, key, value, h) ==
  [type |-> "params", changes |-> <<[subspace |-> subspace, key |-> key, value |-> value]>>, height |-> h,
   addrs |-> <<>>, added |-> FALSE]

ListChange(type, addrs, added) ==
  [type |-> type, changes |-> <<>>, height |-> 0, addrs |-> addrs, added |-> added]

MCContents ==
  {ParamChange("evm", "EnableCreate", v, h) : v \in {1, -1}, h \in {1, 2, 3, 9}}
    \cup {ParamChange("params", "EnableCall", 1, 2)} \cup {ParamChange("params", "MaxBlockHeight", v, 2) : v \in {0, 1, 15}}
    \cup {ListChange("whitelist", <<a1>>, TRUE), ListChange("whitelist", <<a1, a2>>, FALSE),
          ListChange("blocked", <<a1, a1>>, TRUE), ListChange("blocked", <<a1, a2>>, TRUE)}

Params(maxBlockHeight) ==
  [key \in Keys |-> CASE key = "MaxBlockHeight" -> maxBlockHeight [] key = "MinDeposit" -> 10 [] OTHER -> 0]
MCInitialParams == {Params(1), Params(2)}

MCCoins == [p \in Proposers |-> 1]
=============================================================================
