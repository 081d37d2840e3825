------------------------- MODULE StakingEndBlocker -------------------------
(***************************************************************************)
(* Blocks: slashing's jailing at the beginning of a block and the staking  *)
(* EndBlocker (staking/handler.go), which elects validators at the end of  *)
(* an epoch, kicks out validators within one, and completes the unbonding  *)
(* of validators and delegators.  EndBlocker is sequential code: its three *)
(* parts are three phases of a block, during which nothing else runs.      *)
(*                                                                         *)
(* A panic of the EndBlocker stops every node of the chain: it is modelled *)
(* by the variable halted.                                                 *)
(***************************************************************************)
EXTENDS StakingHandler, Sums

CONSTANT DefaultEpoch     \* types.DefaultEpoch, used until an epoch has ended

VARIABLES
  phase,            \* where the block is: see Phases
  epoch,            \* KeyEpoch, or DefaultEpoch while it is not set
  endOfLastEpoch,   \* KeyTheEndOfLastEpoch
  params,           \* the parameters Epoch and MaxValidators
  tendermint,       \* power of the validators in Tendermint's set, 0 outside of it
  halted            \* the EndBlocker panicked

ASSUME EpochAssumption == DefaultEpoch \in Nat \ {0}

Phases == {"idle", "begin", "deliver", "mature", "undelegate"}

blockVars == <<phase, epoch, endOfLastEpoch, params, tendermint, halted, height, now>>

AbandonedSet == {abandoned[i] : i \in 1..Len(abandoned)}

----------------------------------------------------------------------------
(* Jailing: keeper/slash.go as the slashing module of the SDK calls it *)

\* Jail and AppendAbandonedValidatorAddrs.  Slashing punishes validators whose votes
\* it sees, which are bonded or have left the set a few blocks ago.
Jail(v) ==
  /\ val[v].status \in {"bonded", "unbonding"}
  /\ ~val[v].jailed
  /\ val' = [val EXCEPT ![v].jailed = TRUE]
  /\ powerIndex' = powerIndex \ {PowerKey(val, v)}
  /\ abandoned' = Append(abandoned, v)
  /\ UNCHANGED <<lastPower, lastTotalPower, validatorQueue, delVars, coinVars>>

\* Mutant: a destroyed validator may leave the jail.
UnjailDestroyed(v) ==
  /\ Exists(val, v) /\ val[v].jailed /\ v \notin AbandonedSet
  /\ val' = [val EXCEPT ![v].jailed = FALSE]
  /\ powerIndex' = Reindex(powerIndex, val, val', {v})
  /\ UNCHANGED <<lastPower, lastTotalPower, abandoned, validatorQueue, delVars, coinVars>>

\* Unjail.  Slashing refuses it before JailedUntil, which lies after the block of the
\* jailing, and for a destroyed validator.
Unjail(v) ==
  /\ Exists(val, v)
  /\ val[v].jailed
  /\ val[v].msd # 0
  /\ v \notin AbandonedSet
  /\ val' = [val EXCEPT ![v].jailed = FALSE]
  /\ powerIndex' = Reindex(powerIndex, val, val', {v})
  /\ UNCHANGED <<lastPower, lastTotalPower, abandoned, validatorQueue, delVars, coinVars>>

----------------------------------------------------------------------------
(* The validator set: keeper/val_state_change.go, keeper/val_state.go *)

\* PotentialConsensusPowerByShares of the validators.
Powers == [v \in Validators |-> Power(val[v].shares)]

\* Order of a reverse iteration over the keys power || inverted address.
Precedes(k, l) == k[1] > l[1] \/ (k[1] = l[1] /\ k[2] < l[2])

HasPower(k) == Power(val[k[2]].shares) # 0
MayBeElected(k) == HasPower(k) /\ val[k[2]].msd >= ElectMsd

\* bondValidator on the validators of up, beginUnbondingValidator on those of down.
ChangedStatus(up, down) ==
  [v \in Validators |->
     IF v \in down THEN [val[v] EXCEPT !.status = "unbonding", !.unbondingTime = now + UnbondingTime]
     ELSE IF v \in up THEN [val[v] EXCEPT !.status = "bonded"]
     ELSE val[v]]

\* Mutant: a validator that bonds again stays in the queue.
InsertOnlyQueue(up, down) == validatorQueue \cup {<<now + UnbondingTime, v>> : v \in down}

ChangedQueue(up, down) ==
  (validatorQueue \ {<<val[v].unbondingTime, v>> : v \in up})
    \cup {<<now + UnbondingTime, v>> : v \in down}

\* Mutant: DeleteLastValidatorPower is forgotten.
KeepLastPowers(updates) ==
  /\ lastPower' = [v \in Validators |-> IF v \in DOMAIN updates /\ updates[v] # 0 THEN updates[v] ELSE lastPower[v]]
  /\ tendermint' = [v \in Validators |-> IF v \in DOMAIN updates THEN updates[v] ELSE tendermint[v]]

\* Mutant: the zero update of a leaving validator is not returned.
NoZeroUpdates(updates) ==
  /\ lastPower' = [v \in Validators |-> IF v \in DOMAIN updates THEN updates[v] ELSE lastPower[v]]
  /\ tendermint' = [v \in Validators |-> IF v \in DOMAIN updates /\ updates[v] # 0 THEN updates[v] ELSE tendermint[v]]

\* The validator updates, zero for a validator that leaves: the store entries that go
\* with them, and Tendermint's set, which is changed by nothing else (external).
UpdateValidatorSet(updates) ==
  LET overwritten(f) == [v \in Validators |-> IF v \in DOMAIN updates THEN updates[v] ELSE f[v]]
  IN  /\ lastPower' = overwritten(lastPower)
      /\ tendermint' = overwritten(tendermint)

\* ApplyAndReturnValidatorSetUpdates.  Reached: the keys the loop visits, until it has
\* counted MaxValidators or meets a validator without power.
ApplyReached ==
  {k \in powerIndex :
     /\ \A l \in powerIndex : Precedes(l, k) => HasPower(l)
     /\ Cardinality({l \in powerIndex : Precedes(l, k) /\ MayBeElected(l)}) < params.maxValidators}

Elected == {k[2] : k \in {l \in ApplyReached : MayBeElected(l)}}

getLastValidatorsByAddr == {v \in Validators : lastPower[v] # 0}

\* What is left of the last set once the elected are taken out; the order does not matter.
noLongerBonded == getLastValidatorsByAddr \ Elected

ApplyPanics ==
  \/ \E k \in ApplyReached : ~Exists(val, k[2]) \/ val[k[2]].jailed
  \/ \E v \in noLongerBonded : val[v].status # "bonded"

ApplyAndReturnValidatorSetUpdates ==
  LET up == {v \in Elected : val[v].status # "bonded"}
      down == noLongerBonded
      updates == [v \in down \cup {w \in Elected : lastPower[w] # Powers[w]} |->
                    IF v \in Elected THEN Powers[v] ELSE 0]
  IN  /\ val' = ChangedStatus(up, down)
      /\ powerIndex' = Reindex(powerIndex, val, val', up \cup down)
      /\ validatorQueue' = ChangedQueue(up, down)
      /\ UpdateValidatorSet(updates)
      /\ lastTotalPower' = IF DOMAIN updates = {} THEN lastTotalPower
                           ELSE SumOf(Powers, Elected)

\* KickOutAndReturnValidatorSetUpdates: as many candidates are promoted as there are
\* entries in the list, then the validators of the list are discharged.
Candidates == {k \in powerIndex : lastPower[k[2]] = 0}

KickOutReached ==
  {k \in Candidates :
     Cardinality({l \in Candidates : Precedes(l, k) /\ MayBeElected(l)}) < Len(abandoned)}

Promoted == {k[2] : k \in {l \in KickOutReached : MayBeElected(l)}}

\* Mutant: only the first entry of the list is discharged.
DischargedFirst == {v \in {abandoned[1]} : val[v].status = "bonded" \/ v \in Promoted}

\* Mutant: the status of the validators of the list is not looked at.
DischargedAll == AbandonedSet

Discharged == {v \in AbandonedSet : val[v].status = "bonded" \/ v \in Promoted}

KickOutPanics ==
  \/ \E k \in KickOutReached : ~Exists(val, k[2])
  \/ \E v \in Promoted : val[v].status = "bonded"
  \/ \E v \in AbandonedSet : ~Exists(val, v)
  \/ \E v \in Discharged : lastPower[v] = 0

KickOutTotalPower ==
  lastTotalPower + SumOf(Powers, Promoted) - SumOf(lastPower, Discharged)

KickOutAndReturnValidatorSetUpdates ==
  LET updates == [v \in Promoted \cup Discharged |-> IF v \in Discharged THEN 0 ELSE Powers[v]]
  IN  /\ val' = ChangedStatus(Promoted, Discharged)
      /\ powerIndex' = Reindex(powerIndex, val, val', Promoted \cup Discharged)
      /\ validatorQueue' = ChangedQueue(Promoted, Discharged)
      /\ UpdateValidatorSet(updates)
      /\ lastTotalPower' = KickOutTotalPower

----------------------------------------------------------------------------
(* The EndBlocker *)

\* Mutant: the parameter takes effect before the running epoch has ended.
IsEndOfParamEpoch == (height - endOfLastEpoch) % params.epoch = 0

IsEndOfEpoch == (height - endOfLastEpoch) % epoch = 0

Halt == halted' = TRUE /\ UNCHANGED <<storeVars, phase, epoch, endOfLastEpoch, params, tendermint, height, now>>

\* The end of an epoch: the epoch length follows its parameter, then the election.
EndEpoch ==
  /\ phase = "deliver" /\ ~halted
  /\ IsEndOfEpoch
  /\ \/ ApplyPanics /\ Halt
     \/ /\ ~ApplyPanics
        /\ epoch' = params.epoch
        /\ endOfLastEpoch' = height
        /\ ApplyAndReturnValidatorSetUpdates
        /\ abandoned' = <<>>
        /\ phase' = "mature"
        /\ UNCHANGED <<delVars, coinVars, params, halted, height, now>>

\* Within an epoch: IsKickedOut decides whether there is anything to do.
KickOut ==
  /\ phase = "deliver" /\ ~halted
  /\ ~IsEndOfEpoch
  /\ abandoned # <<>>
  /\ \/ KickOutPanics /\ Halt
     \/ /\ ~KickOutPanics
        /\ KickOutAndReturnValidatorSetUpdates
        /\ abandoned' = <<>>
        /\ phase' = "mature"
        /\ UNCHANGED <<delVars, coinVars, epoch, endOfLastEpoch, params, halted, height, now>>

KeepValidatorSet ==
  /\ phase = "deliver" /\ ~halted
  /\ ~IsEndOfEpoch
  /\ abandoned = <<>>
  /\ phase' = "mature"
  /\ UNCHANGED <<storeVars, epoch, endOfLastEpoch, params, tendermint, halted, height, now>>

\* Mutant: the end of the iteration is taken as exclusive.
QueueEndExclusive == now - 1

\* ValidatorQueueIterator ends with the current time, included.
QueueEnd == now

MatureValidators == {v \in Validators : \E t \in 0..QueueEnd : <<t, v>> \in validatorQueue}

\* UnbondAllMatureValidatorQueue: the unbonding of every validator whose time has come
\* completes; one without shares and msd is removed (RemoveValidator).
UnbondAllMatureValidatorQueue ==
  /\ phase = "mature" /\ ~halted
  /\ \/ (\E v \in MatureValidators : val[v].status # "unbonding") /\ Halt
     \/ LET gone == {v \in MatureValidators : val[v].shares = 0 /\ val[v].msd = 0}
        IN  /\ \A v \in MatureValidators : val[v].status = "unbonding"
            /\ val' = [v \in Validators |->
                         IF v \in gone THEN NoValidator
                         ELSE IF v \in MatureValidators THEN [val[v] EXCEPT !.status = "unbonded"]
                         ELSE val[v]]
            /\ powerIndex' = powerIndex \ {PowerKey(val, v) : v \in gone}
            /\ validatorQueue' = {e \in validatorQueue : e[1] > QueueEnd}
            /\ phase' = "undelegate"
            /\ UNCHANGED <<lastPower, lastTotalPower, abandoned, delVars, coinVars, epoch,
                           endOfLastEpoch, params, tendermint, halted, height, now>>

\* The loop over IterateKeysBeforeCurrentTime, one key a step: the key is deleted, and
\* CompleteUndelegation pays.  Its error (nothing pending, or missing coins) is only logged.
CompleteUndelegation(t, a) ==
  LET quantity == undelegation[a].quantity
      pays == quantity # 0 /\ notBondedPool >= quantity
  IN  /\ phase = "undelegate" /\ ~halted
      /\ <<t, a>> \in undelegateQueue /\ t <= now
      /\ undelegateQueue' = undelegateQueue \ {<<t, a>>}
      /\ IF pays
           THEN /\ notBondedPool' = notBondedPool - quantity
                /\ balance' = [balance EXCEPT ![a] = @ + quantity]
                /\ undelegation' = [undelegation EXCEPT ![a] = NoUndelegation]
           ELSE UNCHANGED <<notBondedPool, balance, undelegation>>
      /\ UNCHANGED <<valVars, delVars, bondedPool, blockVars>>

EndBlockReturns ==
  /\ phase = "undelegate" /\ ~halted
  /\ \A e \in undelegateQueue : e[1] > now
  /\ phase' = "idle"
  /\ UNCHANGED <<storeVars, epoch, endOfLastEpoch, params, tendermint, halted, height, now>>

============================================================================
