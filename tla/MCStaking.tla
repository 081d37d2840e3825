------------------------------ MODULE MCStaking ------------------------------
(***************************************************************************)
(* Instances of Staking for TLC.  Validators are numbers, because the      *)
(* power index orders them by address; delegators are model values where   *)
(* nothing orders them, so their permutations are a symmetry.              *)
(*                                                                         *)
(* A behaviour follows one of two scenarios, chosen at its start: the      *)
(* validators without delegators over four blocks, or the votes of the     *)
(* delegators for two validators over two blocks, with a change of week    *)
(* between them.  After the first block the chain may be started again     *)
(* from its exported state.                                                *)
(***************************************************************************)
EXTENDS StakingGenesis, TLC

VARIABLES scenario, restarted

DelegatorSymmetry == Permutations(Delegators)

\* What a scenario leaves out, and how far it goes.
Within ==
  \/ /\ scenario = "validators"
     /\ restarted => height <= 1
     /\ \A d \in Delegators : ~del[d].found
  \/ /\ scenario = "votes"
     /\ height <= IF restarted THEN 1 ELSE 2
     /\ \A v \in Validators \ GenesisValidators : ~Exists(val, v)
     /\ ~val[Max(GenesisValidators)].jailed

BlockTime == IF scenario = "validators" THEN Min(TimeSteps) ELSE Max(TimeSteps)

MCInit == Init /\ scenario \in {"validators", "votes"} /\ restarted = FALSE

\* The end of a scenario.
Done ==
  /\ phase = "idle"
  /\ IF restarted THEN height = 1 ELSE scenario = "votes" /\ height = 2
  /\ UNCHANGED <<vars, restarted>>

MCNext ==
  /\ UNCHANGED scenario
  /\ \/ /\ Next
        /\ UNCHANGED restarted
        /\ restarted /\ scenario = "votes" => UNCHANGED delVars
        /\ Within'
        /\ now' \in {now, now + BlockTime}
        /\ params' # params =>
             /\ ~restarted /\ scenario = "validators"
             /\ params.epoch = DefaultEpoch /\ params'.epoch # DefaultEpoch
     \/ ~restarted /\ params.epoch = DefaultEpoch /\ height > 0 /\ Restart /\ restarted' = TRUE
     \/ Done

MCSpec == MCInit /\ [][MCNext]_<<vars, scenario, restarted>>
============================================================================
