------------------------------ MODULE MCToken ------------------------------
(***************************************************************************)
(* Instance of Token for TLC.  A behaviour uses one of several mixes of    *)
(* messages, chosen at its start, so that every pair of kinds of messages  *)
(* that share state meets without the product of all of them.              *)
(***************************************************************************)
EXTENDS Token, TLC

CONSTANT Mixes
VARIABLE mix

AmountsAround == -1..2
AllMixes == {{"owners", "chain", "supply"}, {"sends", "locks"}, {"sends", "supply"}, {"locks", "supply"},
             {"locks", "chain"}}

MCInit == Init /\ mix \in Mixes

MCNext ==
  /\ UNCHANGED mix
  /\ \/ "supply" \in mix /\ SupplyMessages
     \/ "sends" \in mix /\ SendMessages
     \/ "owners" \in mix /\ OwnerMessages
     \/ "locks" \in mix /\ LockCalls
     \/ "chain" \in mix /\ ChainSteps

MCSpec == MCInit /\ [][MCNext]_<<vars, mix>>

Symmetry == Permutations(Accounts)
=============================================================================
