---------------------------- MODULE Distribution ----------------------------
(***************************************************************************)
(* The distribution module: fees collected in a block are shared out at    *)
(* the beginning of the next one, to the validators that voted (equally),  *)
(* to all validators (by shares) and to the community address; operators   *)
(* withdraw their commissions.  The module follows the validators of       *)
(* staking by hooks: stk is what it sees of them, and an environment step  *)
(* changes stk in any way that staking may (see StakingStep).              *)
(*                                                                         *)
(* Amounts are counted in the smallest unit of sdk.Dec, Unit of which are  *)
(* a coin, and fractions in 1/Unit, so products and quotients truncate.    *)
(* The previous proposer is recorded by the code but only ever logged; it  *)
(* is left out.                                                            *)
(***************************************************************************)
EXTENDS Integers, FiniteSets, Sums

CONSTANTS
  Validators,        \* operator addresses
  Addresses,         \* addresses that may receive coins; every operator is one
  CommunityAddress,
  Blacklisted,       \* module accounts, which may not receive withdrawals
  Unit,              \* 10^18 in sdk.Dec
  CommunityTax,      \* parameter, as a fraction
  FeeChoices,        \* fees of a block
  SpendChoices,      \* amounts of community-pool proposals
  ShareChoices,      \* shares a validator may have
  MaxFees            \* bound of the instance: all the fees there ever are

VARIABLES
  stk,               \* validators as stakingKeeper shows them
  feeCollector,      \* coins of the fee_collector module account
  moduleAcc,         \* coins of the distribution module account
  communityPool,     \* FeePool
  commission,        \* ValidatorAccumulatedCommission, by validator
  withdrawAddr,      \* DelegatorWithdrawAddr, by default the operator itself
  withdrawAddrEnabled,
  received,          \* coins paid to the addresses
  broken             \* why the BeginBlocker or a hook panicked, if one did

ownVars == <<feeCollector, moduleAcc, communityPool, commission, withdrawAddr,
             withdrawAddrEnabled, received, broken>>
distrVars == <<stk, ownVars>>

ASSUME DistributionAssumption ==
  /\ IsFiniteSet(Validators) /\ Validators \subseteq Addresses /\ CommunityAddress \in Addresses
  /\ Unit \in Nat \ {0} /\ CommunityTax \in 0..Unit
  /\ FeeChoices \subseteq Nat /\ SpendChoices \subseteq Nat /\ ShareChoices \subseteq Nat /\ MaxFees \in Nat

NoRecord == [found |-> FALSE, coins |-> 0]
Record(n) == [found |-> TRUE, coins |-> n]     \* SetValidatorAccumulatedCommission
ValidatorView == [exists : BOOLEAN, jailed : BOOLEAN, shares : ShareChoices]
NoView == [exists |-> FALSE, jailed |-> FALSE, shares |-> 0]

\* Mutant of MulDecTruncate: the product is rounded.
MulDecRound(amount, fraction) == (2 * amount * fraction + Unit) \div (2 * Unit)

MulDecTruncate(amount, fraction) == (amount * fraction) \div Unit
QuoTruncate(a, b) == (a * Unit) \div b

valPortion == (Unit * 20) \div 100
votePortion == (Unit * 80) \div 100

----------------------------------------------------------------------------
(* keeper/allocation.go *)

feesToVals(fees) == MulDecTruncate(fees, Unit - CommunityTax)
feeByEqual(fees) == MulDecTruncate(feesToVals(fees), valPortion)
feeByVote(fees) == MulDecTruncate(feesToVals(fees), votePortion)

Unjailed(vs) == {v \in vs : stk[v].exists /\ ~stk[v].jailed}

\* allocateByEqual: what each of the n unjailed voters gets.
EqualReward(rewards, n) == MulDecTruncate(rewards, QuoTruncate(1, n))

\* allocateByShares: what validator v gets.
ShareReward(rewards, v) ==
  LET totalVotes == SumOf([w \in Validators |-> stk[w].shares], Unjailed(Validators))
  IN  MulDecTruncate(rewards, QuoTruncate(stk[v].shares, totalVotes))

\* What AllocateTokens adds to the commission of v.
RewardOf(fees, voters, v) ==
  (IF v \in Unjailed(voters)
     THEN EqualReward(feeByEqual(fees), Cardinality(Unjailed(voters))) ELSE 0)
  + (IF v \in Unjailed(Validators) THEN ShareReward(feeByVote(fees), v) ELSE 0)

\* The divisions by the number of voters and by the sum of the shares.
DividesByZero(voters) ==
  \/ Unjailed(voters) = {}
  \/ Unjailed(Validators) # {} /\ \A v \in Unjailed(Validators) : stk[v].shares = 0

\* SysCoins.Sub panics when more is handed out than there is.
Overspends(fees, voters) ==
  \/ Cardinality(Unjailed(voters)) * EqualReward(feeByEqual(fees), Cardinality(Unjailed(voters)))
       > feeByEqual(fees)
  \/ SumOf([v \in Validators |-> ShareReward(feeByVote(fees), v)], Unjailed(Validators)) > feeByVote(fees)
  \/ feeByEqual(fees) + feeByVote(fees) > fees

\* Why the allocation panics, if it does.
Failure(fees, voters) ==
  IF DividesByZero(voters) THEN "division" ELSE IF Overspends(fees, voters) THEN "negative" ELSE ""

\* GetValidatorAccumulatedCommission.
Accumulated(v) == commission[v].coins

\* Mutant of PoolToCommunity: the pool keeps its coins on paper.
PoolKept(pool) ==
  /\ communityPool' = pool
  /\ moduleAcc' = (moduleAcc + feeCollector) - pool
  /\ received' = [received EXCEPT ![CommunityAddress] = @ + pool]

\* distributeFromFeePool, of the whole pool to the community address.
PoolToCommunity(pool) ==
  /\ communityPool' = 0
  /\ moduleAcc' = (moduleAcc + feeCollector) - pool
  /\ received' = [received EXCEPT ![CommunityAddress] = @ + pool]

Panic(why) ==
  /\ broken' = why
  /\ UNCHANGED <<stk, feeCollector, moduleAcc, communityPool, commission, withdrawAddr,
                 withdrawAddrEnabled, received>>

\* AllocateTokens: the pool gets what the validators do not, and is then emptied.
AllocateTokens(voters) ==
  LET fees == feeCollector
      rewarded == SumOf([v \in Validators |-> RewardOf(fees, voters, v)], Validators)
  IN  \/ fees = 0 /\ UNCHANGED distrVars
      \/ /\ fees # 0 /\ voters = {}
         /\ communityPool' = communityPool + fees
         /\ moduleAcc' = moduleAcc + fees
         /\ feeCollector' = 0
         /\ UNCHANGED <<stk, commission, withdrawAddr, withdrawAddrEnabled, received, broken>>
      \/ /\ fees # 0 /\ voters # {} /\ Failure(fees, voters) # ""
         /\ Panic(Failure(fees, voters))
      \/ /\ fees # 0 /\ voters # {} /\ Failure(fees, voters) = ""
         /\ commission' = [v \in Validators |->
                             IF v \in Unjailed(Validators)
                               THEN Record(Accumulated(v) + RewardOf(fees, voters, v))
                             ELSE commission[v]]
         /\ PoolToCommunity(communityPool + (fees - rewarded))
         /\ feeCollector' = 0
         /\ UNCHANGED <<stk, withdrawAddr, withdrawAddrEnabled, broken>>

\* BeginBlocker, from the second block on.  A vote carries power, so the total power is
\* zero exactly when there is no vote.
BeginBlocker(voters) == broken = "" /\ AllocateTokens(voters)

----------------------------------------------------------------------------
(* handler.go, keeper/keeper.go, keeper/proposal_handler.go *)

Whole(amount) == (amount \div Unit) * Unit

handleMsgModifyWithdrawAddress(v, a) ==
  /\ broken = ""
  /\ a \notin Blacklisted
  /\ withdrawAddrEnabled
  /\ withdrawAddr' = [withdrawAddr EXCEPT ![v] = a]
  /\ UNCHANGED <<stk, feeCollector, moduleAcc, communityPool, commission, withdrawAddrEnabled,
                 received, broken>>

\* What TruncateDecimal leaves of a commission.
Remainder(v) == Accumulated(v) % Unit

\* WithdrawValidatorCommission: whole coins are paid, the remainder stays.
handleMsgWithdrawValidatorCommission(v) ==
  LET coins == Whole(Accumulated(v))
  IN  /\ broken = ""
      /\ Accumulated(v) # 0
      /\ moduleAcc >= coins
      /\ commission' = [commission EXCEPT ![v] = Record(Remainder(v))]
      /\ moduleAcc' = moduleAcc - coins
      /\ received' = [received EXCEPT ![withdrawAddr[v]] = @ + coins]
      /\ UNCHANGED <<stk, feeCollector, communityPool, withdrawAddr, withdrawAddrEnabled, broken>>

\* A passed proposal; distributeFromFeePool refuses to overdraw the pool.
HandleCommunityPoolSpendProposal(amount, recipient) ==
  /\ broken = ""
  /\ recipient \notin Blacklisted
  /\ communityPool >= amount /\ moduleAcc >= amount
  /\ communityPool' = communityPool - amount
  /\ moduleAcc' = moduleAcc - amount
  /\ received' = [received EXCEPT ![recipient] = @ + amount]
  /\ UNCHANGED <<stk, feeCollector, commission, withdrawAddr, withdrawAddrEnabled, broken>>

\* Fees of the transactions of a block (ante handlers, external to this module).
CollectFees(fees) ==
  /\ broken = ""
  /\ feeCollector + moduleAcc + SumOf(received, Addresses) + fees <= MaxFees
  /\ feeCollector' = feeCollector + fees
  /\ UNCHANGED <<stk, moduleAcc, communityPool, commission, withdrawAddr, withdrawAddrEnabled,
                 received, broken>>
----------------------------------------------------------------------------
(* keeper/hooks.go *)

\* Mutant of CommissionsAfter: the record of a removed validator stays.
RemovedKeepingRecord(removed, created) ==
  [v \in Validators |-> IF v \in created THEN Record(0)
                        ELSE IF v \in removed THEN Record(Remainder(v)) ELSE commission[v]]

\* The commissions after AfterValidatorRemoved and AfterValidatorCreated.
CommissionsAfter(removed, created) ==
  [v \in Validators |-> IF v \in created THEN Record(0)
                        ELSE IF v \in removed THEN NoRecord ELSE commission[v]]

WholeCoins == [v \in Validators |-> Whole(Accumulated(v))]
Remainders == [v \in Validators |-> Remainder(v)]

\* Mutant of PaidOut: the operator is paid, whatever its withdraw address.
PaidToOperator(removed, a) == SumOf(WholeCoins, removed \cap {a})

\* AfterValidatorRemoved: whole coins to the withdraw address, the remainder to the pool.
PaidOut(removed, a) == SumOf(WholeCoins, {v \in removed : withdrawAddr[v] = a})

\* The hooks of one step of staking, which removes and creates validators.
Hooks(removed, created) ==
  LET coins == SumOf(WholeCoins, removed)
  IN  /\ commission' = CommissionsAfter(removed, created)
      /\ communityPool' = communityPool + SumOf(Remainders, removed)
      /\ moduleAcc' = moduleAcc - coins
      /\ received' = [a \in Addresses |-> received[a] + PaidOut(removed, a)]
      /\ broken' = IF moduleAcc < coins THEN "missing" ELSE broken
      /\ UNCHANGED <<feeCollector, withdrawAddr, withdrawAddrEnabled>>

\* The hooks that a change of the validators calls.
HooksCalled ==
  Hooks({v \in Validators : stk[v].exists /\ ~stk'[v].exists}, {v \in Validators : ~stk[v].exists /\ stk'[v].exists})

Presentable(view) ==
  /\ view.exists \/ view = NoView
  /\ view.exists /\ ~view.jailed => view.shares > 0

\* A step of staking.  What this module relies on: a new validator has shares and is not
\* jailed, and every unjailed validator has shares.
StakingStep ==
  /\ broken = ""
  /\ stk' \in [Validators -> {view \in ValidatorView : Presentable(view)}]
  /\ \A v \in Validators : ~stk[v].exists => ~stk'[v].jailed
  /\ HooksCalled
----------------------------------------------------------------------------
\* InitGenesis without commissions, and the hooks of the genesis validators.
Init ==
  /\ stk \in [Validators -> ValidatorView]
  /\ \A v \in Validators : Presentable(stk[v]) /\ ~stk[v].jailed
  /\ feeCollector = 0 /\ moduleAcc = 0 /\ communityPool = 0
  /\ commission = [v \in Validators |-> IF stk[v].exists THEN Record(0) ELSE NoRecord]
  /\ withdrawAddr = [v \in Validators |-> v]
  /\ withdrawAddrEnabled \in BOOLEAN
  /\ received = [a \in Addresses |-> 0]
  /\ broken = ""

Next ==
  \/ \E voters \in SUBSET Validators : BeginBlocker(voters)
  \/ \E v \in Validators, a \in Addresses : handleMsgModifyWithdrawAddress(v, a)
  \/ \E v \in Validators : handleMsgWithdrawValidatorCommission(v)
  \/ \E n \in SpendChoices, a \in Addresses : HandleCommunityPoolSpendProposal(n, a)
  \/ \E fees \in FeeChoices : CollectFees(fees)
  \/ StakingStep

Spec == Init /\ [][Next]_distrVars
----------------------------------------------------------------------------
(* keeper/invariants.go *)

NonNegativeCommissionsInvariant == \A v \in Validators : Accumulated(v) >= 0

\* All validators withdraw, one after another.
CanWithdrawInvariant == moduleAcc >= SumOf(WholeCoins, {v \in Validators : stk[v].exists})

ModuleAccountInvariant == moduleAcc = communityPool + SumOf([v \in Validators |-> Accumulated(v)], Validators)
----------------------------------------------------------------------------
(* Properties *)

\* The invariants the module registers with the crisis module: the module account holds
\* exactly the community pool and the commissions, every commission can be withdrawn and
\* none is negative, whatever the order of blocks, withdrawals, proposals, removals,
\* re-creations and restarts from an exported state (RegisterInvariants).
DistributionInvariants ==
  NonNegativeCommissionsInvariant /\ CanWithdrawInvariant /\ ModuleAccountInvariant

\* There is a commission record exactly for the validators that exist (hooks.go): none is
\* left behind by a removal, so no coins are stranded, and none is reset while it is in use.
RecordsExact == \A v \in Validators : stk[v].exists <=> commission[v].found

\* No allocation hands out more than the fees, and no hook finds coins missing, although
\* fractions are truncated (SysCoins.Sub and SendCoinsFromModuleToAccount would panic).
NeverOverspends == broken \notin {"negative", "missing"}

\* What a validator has earned leaves its commission only as whole coins for its own
\* withdraw address or, with the validator, as a remainder for the pool.
EarningsGoHome ==
  [][\A v \in Validators :
       Accumulated(v)' < Accumulated(v) =>
         received'[withdrawAddr[v]] - received[withdrawAddr[v]] >= Whole(Accumulated(v))]_distrVars
=============================================================================
