--------------------------- MODULE StakingKeeper ---------------------------
(***************************************************************************)
(* The store of the staking module (staking/keeper, staking/types) and the *)
(* keeper functions its handlers share.  A function of the keeper that     *)
(* reads and writes records is an operator from the tables it reads to the *)
(* tables it leaves, so a handler that calls several of them threads the   *)
(* tables through the calls in the order of the code.                      *)
(*                                                                         *)
(* Units.  Tokens are whole numbers.  A share is counted in 1/WeeksPerYear *)
(* of a share, so that calculateWeight (tokens * week / 52) stays whole.   *)
(* Time is counted from blockTimestampEpoch.                               *)
(***************************************************************************)
EXTENDS Integers, FiniteSets, Sequences

CONSTANTS
  Validators,      \* operator addresses: numbers, because keys are ordered by address
  Delegators,      \* accounts that delegate; an operator may be one of them
  NoProxy,         \* the nil ProxyAddress
  WeeksPerYear,    \* 52 in weight.go; also the number of units of one share
  SecondsPerWeek,  \* length of a week, in ticks of block time
  MinDelegation,   \* params.MinDelegation
  MinMsd,          \* 500: least MinSelfDelegation of MsgCreateValidator
  ElectMsd,        \* 1000: least MinSelfDelegation of an elected validator
  MaxValsToAddShares,
  UnbondingTimeParam,     \* params.UnbondingTime
  LevelUpHeight,          \* sdk.DefaultLevelUpBlockHeight
  LevelUpUnbondingTime    \* sdk.DefaultLevelUpUnbondingTime

VARIABLES
  val,            \* validator records, by operator address
  powerIndex,     \* ValidatorsByPowerIndexKey: the set of keys <<power, operator>>
  lastPower,      \* LastValidatorPowerKey, 0 where there is no entry
  lastTotalPower, \* LastTotalPowerKey
  abandoned,      \* ValidatorAbandonedKey: the list of validators to kick out
  validatorQueue, \* ValidatorQueueKey: the pairs <<completion time, operator>>
  del,            \* delegator records
  sharesTo,       \* SharesKey: shares of a delegator on a validator, 0 where absent
  proxyBindings,  \* ProxyKey: the pairs <<proxy, delegator>>
  undelegation,   \* UnDelegationInfoKey, by account
  undelegateQueue,\* UnDelegateQueueKey: the pairs <<completion time, account>>
  balance,        \* coins of the accounts
  bondedPool, notBondedPool,
  height, now     \* of the block being executed

valVars == <<val, powerIndex, lastPower, lastTotalPower, abandoned, validatorQueue>>
delVars == <<del, sharesTo, proxyBindings>>
coinVars == <<undelegation, undelegateQueue, balance, bondedPool, notBondedPool>>
storeVars == <<valVars, delVars, coinVars>>

ASSUME StakingAssumption ==
  /\ Validators \subseteq Nat /\ IsFiniteSet(Validators)
  /\ IsFiniteSet(Delegators)
  /\ NoProxy \notin Delegators
  /\ {WeeksPerYear, SecondsPerWeek, MinDelegation, MinMsd, ElectMsd} \subseteq Nat \ {0}
  /\ {UnbondingTimeParam, LevelUpUnbondingTime} \subseteq Nat \ {0}
  /\ MaxValsToAddShares \in Nat /\ LevelUpHeight \in Nat

Accounts == Validators \cup Delegators

Status == {"none", "unbonded", "unbonding", "bonded"}

\* types.Validator.  status "none": there is no record under the operator's key.
ValidatorRecord ==
  [status : Status, jailed : BOOLEAN, shares : Int, msd : Nat, unbondingTime : Nat]

NoValidator == [status |-> "none", jailed |-> FALSE, shares |-> 0, msd |-> 0, unbondingTime |-> 0]

\* types.Delegator.  vals stands for ValidatorAddresses, which holds no duplicate.
DelegatorRecord ==
  [found : BOOLEAN, tokens : Nat, shares : Int, vals : SUBSET Validators,
   isProxy : BOOLEAN, total : Int, proxy : Delegators \cup {NoProxy}]

NoDelegator == [found |-> FALSE, tokens |-> 0, shares |-> 0, vals |-> {},
                isProxy |-> FALSE, total |-> 0, proxy |-> NoProxy]

\* types.NewDelegator, and SetDelegator under its key.
NewDelegator == [NoDelegator EXCEPT !.found = TRUE]

\* types.UndelegationInfo; there is none where the quantity is 0.
NoUndelegation == [quantity |-> 0, time |-> 0]

Exists(vl, v) == vl[v].status # "none"

\* getSharesFromDefaultMinSelfDelegation: any msd is worth one share.
MsdShares == WeeksPerYear

\* sharesToConsensusPower, with the power reduction of one share per power.
Power(shares) == shares \div WeeksPerYear

\* getValidatorPowerRank: prefix || power || inverted address.
PowerKey(vl, v) == <<Power(vl[v].shares), v>>

\* Mutant: jailed validators are put back into the index.
ReindexJailed(ix, vl, vl2, vs) ==
  (ix \ {PowerKey(vl, v) : v \in vs}) \cup {PowerKey(vl2, v) : v \in {w \in vs : Exists(vl2, w)}}

\* DeleteValidatorByPowerIndex on the records of vl and SetValidatorByPowerIndex
\* on those of vl2, for every validator of vs: a jailed validator gets no key.
Reindex(ix, vl, vl2, vs) ==
  (ix \ {PowerKey(vl, v) : v \in vs})
    \cup {PowerKey(vl2, v) : v \in {w \in vs : Exists(vl2, w) /\ ~vl2[w].jailed}}

\* calculateWeight: nowWeek / 52 shares a token.
calculateWeight(tokens) == tokens * (now \div SecondsPerWeek)

\* GetParams / UnbondingTime, with the hard-coded value from the level-up height on.
UnbondingTime == IF height >= LevelUpHeight THEN LevelUpUnbondingTime ELSE UnbondingTimeParam

----------------------------------------------------------------------------
(* Shares: keeper/proxy.go.  A store s holds the four tables they touch. *)

Stored == [val |-> val, del |-> del, to |-> sharesTo, ix |-> powerIndex]

Save(s) == /\ val' = s.val
           /\ del' = s.del
           /\ sharesTo' = s.to
           /\ powerIndex' = s.ix

\* Mutant: jailed validators are skipped like removed ones.
LastValsUnjailed(s, d) == {v \in s.del[d].vals : Exists(s.val, v) /\ ~s.val[v].jailed}

\* GetLastValsAddedSharesExisted.
LastVals(s, d) == {v \in s.del[d].vals : Exists(s.val, v)}

\* UpdateShares fails when one of the validators voted for was destroyed.
UpdateSharesOk(s, d) == \A v \in LastVals(s, d) : s.val[v].msd # 0

\* UpdateShares: the last shares of d are replaced on every validator of its
\* vote.  The delegator record is written only when there is such a validator.
UpdateShares(s, d, tokens) ==
  LET vs == LastVals(s, d)
      shares == calculateWeight(tokens)
      vl == [v \in Validators |->
               IF v \in vs THEN [s.val[v] EXCEPT !.shares = (@ - s.del[d].shares) + shares]
               ELSE s.val[v]]
  IN  [val |-> vl,
       del |-> IF vs = {} THEN s.del ELSE [s.del EXCEPT ![d].shares = shares],
       to  |-> [s.to EXCEPT ![d] = [v \in Validators |-> IF v \in vs THEN shares ELSE s.to[d][v]]],
       ix  |-> Reindex(s.ix, s.val, vl, vs)]

\* WithdrawLastShares: the votes of d are taken back; an unbonded, destroyed
\* validator that is left without shares is removed (RemoveValidator).
WithdrawLastShares(s, d) ==
  LET vs == LastVals(s, d)
      left(v) == s.val[v].shares - s.del[d].shares
      gone(v) == s.val[v].status = "unbonded" /\ s.val[v].msd = 0 /\ left(v) = 0
      vl == [v \in Validators |->
               IF v \notin vs THEN s.val[v]
               ELSE IF gone(v) THEN NoValidator
               ELSE [s.val[v] EXCEPT !.shares = left(v)]]
  IN  [val |-> vl,
       del |-> s.del,
       to  |-> [s.to EXCEPT ![d] = [v \in Validators |-> IF v \in vs THEN 0 ELSE s.to[d][v]]],
       ix  |-> Reindex(s.ix, s.val, vl, vs)]

\* AddSharesToValidators, and the delegator record handleMsgAddShares writes after it.
AddShares(s, d, vs, tokens) ==
  LET shares == calculateWeight(tokens)
      vl == [v \in Validators |->
               IF v \in vs THEN [s.val[v] EXCEPT !.shares = @ + shares] ELSE s.val[v]]
  IN  [val |-> vl,
       del |-> [s.del EXCEPT ![d].vals = vs, ![d].shares = shares],
       to  |-> [s.to EXCEPT ![d] = [v \in Validators |-> IF v \in vs THEN shares ELSE s.to[d][v]]],
       ix  |-> Reindex(s.ix, s.val, vl, vs)]

\* UpdateProxy: it does nothing for a delegator without proxy; it fails when the
\* proxy is gone, its total would turn negative or its UpdateShares fails.
UpdateProxyOk(s, d, tokens) ==
  LET p == s.del[d].proxy
  IN  p # NoProxy => /\ s.del[p].found
                     /\ s.del[p].total + tokens >= 0
                     /\ UpdateSharesOk(s, p)

UpdateProxy(s, d, tokens) ==
  LET p == s.del[d].proxy
      total == s.del[p].total + tokens
  IN  IF p = NoProxy THEN s
      ELSE UpdateShares([s EXCEPT !.del[p].total = total], p, total + s.del[p].tokens)

----------------------------------------------------------------------------
(* Undelegations: the common tail of Withdraw and WithdrawMinSelfDelegation *)

\* Mutant: the old time key is not deleted.
AddUndelegationKeepingKey(a, quantity) ==
  LET time == now + UnbondingTime
  IN  /\ undelegation' = [undelegation EXCEPT
            ![a] = [quantity |-> @.quantity + quantity, time |-> time]]
      /\ undelegateQueue' = undelegateQueue \cup {<<time, a>>}

\* The quantity is merged into the pending undelegation of the account, whose
\* completion time starts again; its old time key is replaced.
AddUndelegation(a, quantity) ==
  LET time == now + UnbondingTime
  IN  /\ undelegation' = [undelegation EXCEPT
            ![a] = [quantity |-> @.quantity + quantity, time |-> time]]
      /\ undelegateQueue' =
            (undelegateQueue
               \ (IF undelegation[a].quantity = 0 THEN {} ELSE {<<undelegation[a].time, a>>}))
            \cup {<<time, a>>}

\* bondedTokensToNotBonded; its panic on missing coins aborts the transaction.
BondedToNotBonded(quantity) ==
  /\ bondedPool >= quantity
  /\ bondedPool' = bondedPool - quantity
  /\ notBondedPool' = notBondedPool + quantity

\* DelegateCoinsFromAccountToModule(BondedPoolName), external.
AccountToBonded(a, quantity) ==
  /\ balance[a] >= quantity
  /\ balance' = [balance EXCEPT ![a] = @ - quantity]
  /\ bondedPool' = bondedPool + quantity
  /\ UNCHANGED notBondedPool

============================================================================
