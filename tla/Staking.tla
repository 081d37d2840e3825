------------------------------ MODULE Staking ------------------------------
(***************************************************************************)
(* The staking module as a whole: blocks, each with the jailings of its    *)
(* beginning, its transactions and its EndBlocker, from a genesis with     *)
(* GenesisValidators.                                                      *)
(***************************************************************************)
EXTENDS StakingEndBlocker

CONSTANTS
  GenesisValidators,   \* created by the genesis transactions, each with ElectMsd
  InitialBalance,      \* coins of every account after genesis
  StartTime,           \* block time of genesis, from blockTimestampEpoch
  TimeSteps,           \* how far block time may advance between two blocks
  MsdChoices,          \* amounts of MsgCreateValidator
  Quantities,          \* amounts of MsgDeposit and MsgWithdraw
  EpochChoices, MaxValidatorsChoices,  \* values governance may give the parameters
  InitialMaxValidators,
  MaxHeight            \* bound of the instance: number of blocks

vars == <<storeVars, blockVars>>

ASSUME InstanceAssumption ==
  /\ GenesisValidators \subseteq Validators
  /\ {InitialBalance, StartTime, MaxHeight} \subseteq Nat
  /\ TimeSteps \subseteq Nat \ {0}
  /\ MsdChoices \subseteq Nat /\ Quantities \subseteq Nat
  /\ EpochChoices \subseteq Nat \ {0}
  /\ MaxValidatorsChoices \subseteq Nat \ {0}
  /\ InitialMaxValidators \in Nat \ {0}

\* ApplyAndReturnValidatorSetUpdates after the genesis transactions: all validators
\* have the power of their msd, so the first addresses are elected.
GenesisElected ==
  {v \in GenesisValidators :
     Cardinality({w \in GenesisValidators : w < v}) < InitialMaxValidators}

Init ==
  /\ val = [v \in Validators |->
              IF v \in GenesisValidators
                THEN [status |-> IF v \in GenesisElected THEN "bonded" ELSE "unbonded",
                      jailed |-> FALSE, shares |-> MsdShares, msd |-> ElectMsd, unbondingTime |-> 0]
                ELSE NoValidator]
  /\ powerIndex = {<<Power(MsdShares), v>> : v \in GenesisValidators}
  /\ lastPower = [v \in Validators |-> IF v \in GenesisElected THEN Power(MsdShares) ELSE 0]
  /\ tendermint = lastPower
  /\ lastTotalPower = SumOf(lastPower, Validators)
  /\ abandoned = <<>>
  /\ validatorQueue = {}
  /\ del = [d \in Delegators |-> NoDelegator]
  /\ sharesTo = [d \in Delegators |-> [v \in Validators |-> 0]]
  /\ proxyBindings = {}
  /\ undelegation = [a \in Accounts |-> NoUndelegation]
  /\ undelegateQueue = {}
  /\ balance = [a \in Accounts |-> InitialBalance]
  /\ bondedPool = ElectMsd * Cardinality(GenesisValidators)
  /\ notBondedPool = 0
  /\ height = 0 /\ now = StartTime
  /\ phase = "idle" /\ halted = FALSE
  /\ epoch = DefaultEpoch /\ endOfLastEpoch = 0
  /\ params = [epoch |-> DefaultEpoch, maxValidators |-> InitialMaxValidators]

----------------------------------------------------------------------------
BeginBlock ==
  /\ phase = "idle" /\ ~halted
  /\ height < MaxHeight
  /\ height' = height + 1
  /\ \E dt \in TimeSteps : now' = now + dt
  /\ phase' = "begin"
  /\ UNCHANGED <<storeVars, epoch, endOfLastEpoch, params, tendermint, halted>>

\* The BeginBlocker of slashing.
SlashingJails(v) ==
  /\ phase = "begin" /\ ~halted
  /\ Jail(v)
  /\ UNCHANGED blockVars

BeginBlockReturns ==
  /\ phase = "begin" /\ ~halted
  /\ phase' = "deliver"
  /\ UNCHANGED <<storeVars, epoch, endOfLastEpoch, params, tendermint, halted, height, now>>

StakingTx ==
  \/ \E v \in Validators, m \in MsdChoices : handleMsgCreateValidator(v, m)
  \/ \E v \in Validators : handleMsgDestroyValidator(v)
  \/ \E v \in Validators : Unjail(v)
  \/ \E d \in Delegators, q \in Quantities : handleMsgDeposit(d, q)
  \/ \E d \in Delegators, q \in Quantities : handleMsgWithdraw(d, q)
  \/ \E d \in Delegators, vs \in SUBSET Validators : handleMsgAddShares(d, vs)
  \/ \E d, p \in Delegators : handleMsgBindProxy(d, p)
  \/ \E d \in Delegators : handleMsgUnbindProxy(d)
  \/ \E d \in Delegators : regProxy(d)
  \/ \E d \in Delegators : unregProxy(d)

DeliverTx ==
  /\ phase = "deliver" /\ ~halted
  /\ StakingTx
  /\ UNCHANGED blockVars

\* A parameter-change proposal, executed by the gov EndBlocker before staking's.
ChangeParams ==
  /\ phase = "deliver" /\ ~halted
  /\ \E e \in EpochChoices, m \in MaxValidatorsChoices :
       params' = [epoch |-> e, maxValidators |-> m]
  /\ UNCHANGED <<storeVars, phase, epoch, endOfLastEpoch, tendermint, halted, height, now>>

\* The instance ends after MaxHeight blocks.
Horizon == phase = "idle" /\ height = MaxHeight /\ UNCHANGED vars

Next ==
  \/ BeginBlock
  \/ \E v \in Validators : SlashingJails(v)
  \/ BeginBlockReturns
  \/ DeliverTx
  \/ ChangeParams
  \/ EndEpoch
  \/ KickOut
  \/ KeepValidatorSet
  \/ UnbondAllMatureValidatorQueue
  \/ \E e \in undelegateQueue : CompleteUndelegation(e[1], e[2])
  \/ EndBlockReturns
  \/ Horizon

Spec == Init /\ [][Next]_vars
----------------------------------------------------------------------------
(* keeper/invariants.go *)

ModuleAccountInvariantsCustom ==
  /\ bondedPool = SumOf([v \in Validators |-> val[v].msd], Validators)
                    + SumOf([d \in Delegators |-> del[d].tokens], Delegators)
  /\ notBondedPool = SumOf([a \in Accounts |-> undelegation[a].quantity], Accounts)

DelegatorAddSharesInvariant ==
  \A v \in Validators : Exists(val, v) =>
    val[v].shares = (IF val[v].msd = 0 /\ val[v].jailed THEN 0 ELSE MsdShares)
                      + SumOf([d \in Delegators |-> sharesTo[d][v]], Delegators)

NonNegativePowerInvariantCustom ==
  \A k \in powerIndex : Exists(val, k[2]) /\ k = PowerKey(val, k[2]) /\ val[k[2]].shares >= 0

PositiveDelegatorInvariant == \A d \in Delegators : del[d].found => del[d].tokens > 0

----------------------------------------------------------------------------
(* Properties *)

\* Type invariant of the store of the staking keeper and of the block state; the value of
\* lastTotalPower is a subject of InvariantsHold.
TypeOK ==
  /\ val \in [Validators -> ValidatorRecord]
  /\ powerIndex \subseteq Int \X Validators
  /\ lastPower \in [Validators -> Int] /\ tendermint \in [Validators -> Int]
  /\ abandoned \in Seq(Validators)
  /\ validatorQueue \subseteq Nat \X Validators
  /\ del \in [Delegators -> DelegatorRecord]
  /\ sharesTo \in [Delegators -> [Validators -> Int]]
  /\ proxyBindings \subseteq Delegators \X Delegators
  /\ undelegation \in [Accounts -> [quantity : Nat, time : Nat]]
  /\ undelegateQueue \subseteq Nat \X Accounts
  /\ balance \in [Accounts -> Nat]
  /\ bondedPool \in Nat /\ notBondedPool \in Nat
  /\ height \in Nat /\ now \in Nat
  /\ phase \in Phases /\ halted \in BOOLEAN
  /\ epoch \in Nat \ {0} /\ endOfLastEpoch \in Nat
  /\ params \in [epoch : Nat \ {0}, maxValidators : Nat \ {0}]

\* The power index holds exactly one key for every validator that is not jailed, and it
\* is the key of the validator's current shares (NonNegativePowerInvariantCustom compares
\* the keys, and the election relies on jailed validators being absent): no handler that
\* moves shares, jails, unjails, destroys or removes a validator leaves a stale key.
PowerIndexExact ==
  powerIndex = {PowerKey(val, v) : v \in {w \in Validators : Exists(val, w) /\ ~val[w].jailed}}

\* A validator is bonded exactly when it has an entry in the last validator set, between
\* elections, kick-outs, destructions and jailings.
BondedIffInLastSet == \A v \in Validators : val[v].status = "bonded" <=> lastPower[v] # 0

\* When a block is over no jailed validator is bonded (validateGenesisStateValidators refuses
\* one): jailing and destroying leave the validator bonded, and the EndBlocker of the same
\* block discharges it, by a kick-out or by an election, however many there are.
JailedNotBonded == phase = "idle" => \A v \in Validators : val[v].jailed => val[v].status # "bonded"

\* The unbonding queue holds exactly the unbonding validators, under their completion
\* times: a validator that is bonded again in the meantime has left it.
ValidatorQueueExact ==
  validatorQueue = {<<val[v].unbondingTime, v>> : v \in {w \in Validators : val[w].status = "unbonding"}}

\* No panic of the EndBlocker is reachable: the "should never retrieve a jailed validator",
\* "Candidate validator is not allowed to be in bonded status", "Never occur", "bad state
\* transition" and "validator in the unbonding queue was not found" branches are dead.
NeverHalts == ~halted

\* The updates returned to Tendermint, accumulated over all blocks, give the validator set
\* the application has recorded as its last one.
TendermintHasLastSet == tendermint = lastPower

\* None of the invariants that the module registers with the crisis module is ever broken
\* (RegisterInvariantsCustom): the pools hold the msd of the validators, the tokens of the
\* delegators and the pending undelegations; the shares of the votes and of the msd add up to
\* the shares of every validator, which are not negative; no delegator is without tokens.  Beyond
\* them, what a delegator would take back from a validator of its vote is what it added to it, and
\* LastTotalPower is the power of the last set, although a kick-out adjusts it by differences and
\* an election sets it only when there are updates.
InvariantsHold ==
  /\ ModuleAccountInvariantsCustom /\ DelegatorAddSharesInvariant
  /\ NonNegativePowerInvariantCustom /\ PositiveDelegatorInvariant
  /\ \A d \in Delegators, v \in Validators :
       sharesTo[d][v] = IF v \in del[d].vals /\ Exists(val, v) THEN del[d].shares ELSE 0
  /\ lastTotalPower = SumOf(lastPower, Validators)

\* The binding keys are exactly the ProxyAddress fields, a proxy named by one exists, is
\* registered and is itself not bound, a delegator under a proxy has no vote of its own, and the
\* TotalDelegatedTokens of a proxy are the tokens of the delegators bound to it, over deposits,
\* withdrawals, rebinding and deregistration.
BindingsExact ==
  /\ proxyBindings = {<<del[d].proxy, d>> : d \in {e \in Delegators : del[e].proxy # NoProxy}}
  /\ \A d \in Delegators : del[d].proxy # NoProxy =>
       /\ del[d].found /\ ~del[d].isProxy /\ del[d].shares = 0
       /\ del[del[d].proxy].found /\ del[del[d].proxy].isProxy
  /\ \A p \in Delegators :
       del[p].total = SumOf([d \in Delegators |-> IF del[d].proxy = p THEN del[d].tokens ELSE 0], Delegators)

\* Every pending undelegation has exactly one time key, that of its completion time:
\* merging undelegations never leaves a key that would pay early or a record without key, and
\* when a block is over none that was due is left.
UndelegateQueueExact ==
  /\ undelegateQueue = {<<undelegation[a].time, a>> : a \in {b \in Accounts : undelegation[b].quantity # 0}}
  /\ phase = "idle" => \A a \in Accounts : undelegation[a].quantity # 0 => undelegation[a].time > now

\* An election comes within one epoch of the last, also when the parameter changes.
EpochsEnd == height - endOfLastEpoch <= epoch /\ (phase = "idle" => height - endOfLastEpoch < epoch)

\* No more validators are bonded than the parameter "maximum number of bonded validators"
\* allows; KickOutAndReturnValidatorSetUpdates promotes one candidate per entry of the list
\* of validators to kick out, and a validator that is jailed and destroyed in one block has
\* two.  MaxValidators is constant in the run.
BondedWithinMax == Cardinality({v \in Validators : val[v].status = "bonded"}) <= params.maxValidators

============================================================================
