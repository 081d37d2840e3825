--------------------------- MODULE StakingGenesis ---------------------------
(***************************************************************************)
(* The chain is stopped after a block, its state exported, and a new chain *)
(* started from the exported genesis state (staking/genesis.go).  Lists of *)
(* the genesis state are sets of pairs of a key and a record; the indices, *)
(* the queues and the length of the epoch are not part of it.              *)
(*                                                                         *)
(* Balances and pools are exported by the modules of the SDK.              *)
(***************************************************************************)
EXTENDS Staking

\* The iterators of the keeper.
IterateValidators == {<<v, val[v]>> : v \in {w \in Validators : Exists(val, w)}}
IterateLastValidatorPowers == {<<v, lastPower[v]>> : v \in {w \in Validators : lastPower[w] # 0}}
IterateDelegator == {<<d, del[d]>> : d \in {e \in Delegators : del[e].found}}
IterateUndelegationInfo == {<<a, undelegation[a]>> : a \in {b \in Accounts : undelegation[b].quantity # 0}}
IterateShares == {<<<<d, v>>, sharesTo[d][v]>> : <<d, v>> \in {k \in Delegators \X Validators : sharesTo[k[1]][k[2]] # 0}}
IterateProxy == {<<b[2], b[1]>> : b \in proxyBindings}

ExportGenesis ==
  [lastTotalPower |-> lastTotalPower, lastValidatorPowers |-> IterateLastValidatorPowers,
   validators |-> IterateValidators, delegators |-> IterateDelegator,
   unbondingDelegations |-> IterateUndelegationInfo, allShares |-> IterateShares,
   proxyDelegatorKeys |-> IterateProxy]

\* A record of a list, or what the store answers where there is none.
Listed(list, key, none) ==
  IF \E e \in list : e[1] = key THEN (CHOOSE e \in list : e[1] = key)[2] ELSE none

\* The validators and the indices that go with them.
initValidators(list) ==
  LET unbonding == {e \in list : e[2].status = "unbonding"} IN
  /\ val' = [v \in Validators |-> Listed(list, v, NoValidator)]
  /\ powerIndex' = {PowerKey(val', e[1]) : e \in {x \in list : ~x[2].jailed}}
  /\ validatorQueue' = {<<e[2].unbondingTime, e[1]>> : e \in unbonding}

initDelegators(list) == del' = [d \in Delegators |-> Listed(list, d, NoDelegator)]

initUnbondingDelegations(list) ==
  /\ undelegation' = [a \in Accounts |-> Listed(list, a, NoUndelegation)]
  /\ undelegateQueue' = {<<e[2].time, e[1]>> : e \in list}

\* A pool that holds coins must hold exactly those of the genesis state.
checkTokenSum(tokenSum, pool) == pool # 0 => tokenSum = pool

checkPools(data) ==
  /\ checkTokenSum(SumOf([e \in data.validators |-> e[2].msd], data.validators)
                     + SumOf([e \in data.delegators |-> e[2].tokens], data.delegators), bondedPool)
  /\ checkTokenSum(SumOf([e \in data.unbondingDelegations |-> e[2].quantity], data.unbondingDelegations),
                   notBondedPool)

\* Tendermint starts with the validators that InitGenesis returns.
InitGenesis(data) ==
  /\ initValidators(data.validators)
  /\ initDelegators(data.delegators)
  /\ initUnbondingDelegations(data.unbondingDelegations)
  /\ sharesTo' = [d \in Delegators |-> [v \in Validators |-> Listed(data.allShares, <<d, v>>, 0)]]
  /\ proxyBindings' = {<<e[2], e[1]>> : e \in data.proxyDelegatorKeys}
  /\ lastTotalPower' = data.lastTotalPower
  /\ lastPower' = [v \in Validators |-> Listed(data.lastValidatorPowers, v, 0)]
  /\ tendermint' = lastPower'
  /\ halted' = ~(checkPools(data) /\ \A e \in data.lastValidatorPowers : \E x \in data.validators : x[1] = e[1])

\* Bound: the exported unbonding time is that of the store, which GetParams overrides from
\* LevelUpHeight on.
Restart ==
  /\ phase = "idle" /\ ~halted /\ height < LevelUpHeight
  /\ InitGenesis(ExportGenesis)
  /\ abandoned' = <<>> /\ height' = 0
  /\ epoch' = DefaultEpoch /\ endOfLastEpoch' = 0
  /\ UNCHANGED <<balance, bondedPool, notBondedPool, now, phase, params>>
=============================================================================
