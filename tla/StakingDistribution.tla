------------------------ MODULE StakingDistribution ------------------------
(***************************************************************************)
(* Staking and distribution in one chain: distribution's BeginBlocker runs *)
(* first in a block, its hooks run inside the steps of staking that create *)
(* and remove validators, and its messages are delivered between those of  *)
(* staking.  The votes a block brings are those of the validator set of    *)
(* the block before, and Tendermint applies the updates of a block two     *)
(* blocks later.  Coins paid out by distribution are not staked again.     *)
(***************************************************************************)
EXTENDS Staking

CONSTANTS
  CommunityAddress, Unit, CommunityTax, FeeChoices, MaxFees

VARIABLES
  feeCollector, moduleAcc, communityPool, commission, withdrawAddr, withdrawAddrEnabled,
  received, broken,
  sets      \* the validator sets of the last block and of the one being executed

distributionVars ==
  <<feeCollector, moduleAcc, communityPool, commission, withdrawAddr, withdrawAddrEnabled,
    received, broken>>

StkView ==
  [v \in Validators |-> [exists |-> Exists(val, v), jailed |-> val[v].jailed, shares |-> val[v].shares]]

D == INSTANCE Distribution WITH
  stk <- StkView, Addresses <- Validators \cup {CommunityAddress},
  Blacklisted <- {CommunityAddress}, SpendChoices <- {}, ShareChoices <- Nat

chainVars == <<vars, distributionVars, sets>>

InSet(powers) == {v \in Validators : powers[v] # 0}

ChainInit ==
  /\ Init
  /\ D!Init
  /\ withdrawAddrEnabled
  /\ sets = <<{}, InSet(tendermint)>>

\* The validators in the LastCommitInfo of the block that begins.
Voters == sets[1]

ChainBeginBlock ==
  /\ BeginBlock
  /\ broken = ""
  /\ IF height' > 1 THEN D!BeginBlocker(Voters) ELSE UNCHANGED distributionVars
  /\ sets' = <<sets[2], InSet(tendermint)>>

\* The steps of staking, with the hooks they call.
StakingSteps ==
  \/ \E v \in Validators : SlashingJails(v)
  \/ BeginBlockReturns
  \/ DeliverTx
  \/ EndEpoch
  \/ KickOut
  \/ KeepValidatorSet
  \/ UnbondAllMatureValidatorQueue
  \/ \E e \in undelegateQueue : CompleteUndelegation(e[1], e[2])
  \/ EndBlockReturns

DistributionTx ==
  \/ \E v \in Validators, a \in Validators : D!handleMsgModifyWithdrawAddress(v, a)
  \/ \E v \in Validators : D!handleMsgWithdrawValidatorCommission(v)
  \/ \E fees \in FeeChoices : D!CollectFees(fees)

ChainNext ==
  \/ ChainBeginBlock
  \/ broken = "" /\ StakingSteps /\ D!HooksCalled /\ UNCHANGED sets
  \/ phase = "deliver" /\ ~halted /\ UNCHANGED <<vars, sets>> /\ DistributionTx
  \/ Horizon /\ UNCHANGED <<distributionVars, sets>>

ChainSpec == ChainInit /\ [][ChainNext]_chainVars
----------------------------------------------------------------------------
(* Properties *)

\* Staking keeps what distribution relies on, and every step of the chain is a step of
\* Distribution: a validator appears with shares and unjailed, is removed once, and never
\* is without shares while it is not jailed (RemoveValidator, AfterValidatorRemoved,
\* WithdrawMinSelfDelegation).
ImplementsDistribution == D!Spec

\* The BeginBlocker returns: it distributes the rewards of the previous block.
RewardsAreDistributed == broken # "division"
=============================================================================
