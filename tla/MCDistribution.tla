-------------------------- MODULE MCDistribution --------------------------
(* Instances of Distribution for TLC. *)
EXTENDS DistributionGenesis, TLC

Symmetry == Permutations(Validators)
===========================================================================
