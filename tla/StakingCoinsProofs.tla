------------------------- MODULE StakingCoinsProofs -------------------------
(***************************************************************************)
(* The last part of the proofs about Staking: the validators' side of the  *)
(* votes and of the coins, and the theorems.  For every set of validators  *)
(* and delegators the invariants the module registers with the crisis      *)
(* module hold, the bindings of proxies agree with their totals, and every *)
(* undelegation has exactly one time key.                                  *)
(*                                                                         *)
(* The argument.  A transaction of a delegator is a DelegatorChange        *)
(* (StakingVotesProofs, StakingProxyProofs): it moves q tokens of one      *)
(* delegator, and q coins of the bonded pool.  Everything else is a        *)
(* ValidatorChange: no vote is touched, and a validator that goes has no   *)
(* shares but its own, so nobody votes for it.  The sums the pools and     *)
(* LastTotalPower are compared with change by the terms that change        *)
(* (SumTheorems).                                                          *)
(***************************************************************************)
EXTENDS Integers, FiniteSets, StakingProxyProofs

----------------------------------------------------------------------------
(* Validators *)

\* What may happen to a validator in a step that touches no vote: it keeps the shares of the
\* votes, it is removed with no shares but its own, it is created with its own, or nothing.
Stands(vl, vl2, v) ==
  \/ /\ Exists(vl, v) /\ Exists(vl2, v)
     /\ vl2[v].msd = 0 => vl2[v].jailed
     /\ vl2[v].shares = vl[v].shares + (OwnShares(vl2[v]) - OwnShares(vl[v]))
  \/ Exists(vl, v) /\ vl[v].shares = OwnShares(vl[v]) /\ vl2[v] = NoValidator
  \/ ~Exists(vl, v) /\ Exists(vl2, v) /\ vl2[v].shares = OwnShares(vl2[v]) /\ vl2[v].msd # 0
  \/ vl2[v] = vl[v]

\* Then the tables of shares agree afterwards.
LEMMA StandsVotes ==
  ASSUME NEW s, StoreOk(s), VotesOk(s), NEW t, t.del = s.del, t.to = s.to,
         \A v \in Validators : Stands(s.val, t.val, v)
  PROVE  VotesOk(t)
<1>1. \A v \in Validators : Added(t, v) = Added(s, v)
  BY Zenon DEF Added
<1>2. \A v \in Validators : s.val[v].shares \in Int
  BY Zenon, StoreFields DEF StoreOk, Store, ValidatorRecord
<1>3. MsdShares \in Int /\ 0 \in Int
  BY StakingAssumption DEF MsdShares
<1>4. ASSUME NEW v \in Validators, s.val[v].shares = OwnShares(s.val[v]), Exists(s.val, v)
      PROVE  \A d \in Delegators : v \notin s.del[d].vals /\ s.to[d][v] = 0
  <2>1. s.val[v].shares = OwnShares(s.val[v]) + SumOf(Added(s, v), Delegators)
    BY Zenon, <1>4 DEF VotesOk, ValidatorOk
  <2>2. SumOf(Added(s, v), Delegators) \in Nat /\ OwnShares(s.val[v]) \in Int
    BY Zenon, <1>3, AddedNat DEF OwnShares
  <2>3. SumOf(Added(s, v), Delegators) = 0
    BY <1>4, <2>1, <2>2
  <2> QED BY Zenon, <2>3, NoVotes
<1>5. ASSUME NEW v \in Validators, ~Exists(s.val, v)
      PROVE  \A d \in Delegators : v \notin s.del[d].vals /\ s.to[d][v] = 0
  BY Zenon, <1>5 DEF VotesOk, VoteOk
<1>6. ASSUME NEW d \in Delegators PROVE VoteOk(t, d)
  <2>1. \A v \in s.del[d].vals : v \in Validators
    BY Zenon, StoreFields DEF StoreOk, Store, DelegatorRecord
  <2>2. \A v \in s.del[d].vals : Exists(s.val, v)
    BY Zenon DEF VotesOk, VoteOk
  <2>3. \A v \in s.del[d].vals : Exists(t.val, v)
    BY Zenon, <1>4, <2>1, <2>2 DEF Stands, Exists
  <2> QED BY Zenon, <2>3 DEF VotesOk, VoteOk
<1>7. ASSUME NEW v \in Validators PROVE ValidatorOk(t, v)
  <2>1. SumOf(Added(t, v), Delegators) = SumOf(Added(s, v), Delegators)
    BY Zenon, <1>1
  <2>2. SumOf(Added(s, v), Delegators) \in Int
    BY AddedNat
  <2>3. ValidatorOk(s, v)
    BY Zenon DEF VotesOk
  <2>4. CASE /\ Exists(s.val, v) /\ Exists(t.val, v)
             /\ t.val[v].msd = 0 => t.val[v].jailed
             /\ t.val[v].shares = s.val[v].shares + (OwnShares(t.val[v]) - OwnShares(s.val[v]))
    <3>1. s.val[v].shares = OwnShares(s.val[v]) + SumOf(Added(s, v), Delegators)
      BY Zenon, <2>3, <2>4 DEF ValidatorOk
    <3>2. OwnShares(s.val[v]) \in Int /\ OwnShares(t.val[v]) \in Int
      BY Zenon, <1>3 DEF OwnShares
    <3>3. t.val[v].shares = OwnShares(t.val[v]) + SumOf(Added(s, v), Delegators)
      BY <2>2, <2>4, <3>1, <3>2
    <3> QED BY Zenon, <2>1, <2>4, <3>3 DEF ValidatorOk
  <2>5. CASE t.val[v] = NoValidator
    BY <2>5 DEF ValidatorOk, Exists, NoValidator
  <2>6. CASE ~Exists(s.val, v) /\ Exists(t.val, v) /\ t.val[v].shares = OwnShares(t.val[v]) /\ t.val[v].msd # 0
    <3>1. \A d \in Delegators : Added(s, v)[d] = 0
      BY Zenon, <1>5, <2>6 DEF Added
    <3>2. IsFiniteSet(Delegators)
      BY Zenon, StakingAssumption
    <3>3. SumOf(Added(s, v), Delegators) = 0
      BY Zenon, <3>1, <3>2, SumZero
    <3>4. OwnShares(t.val[v]) \in Int
      BY Zenon, <1>3 DEF OwnShares
    <3>5. t.val[v].shares = OwnShares(t.val[v]) + SumOf(Added(s, v), Delegators)
      BY <2>6, <3>3, <3>4
    <3> QED BY Zenon, <2>1, <2>6, <3>5 DEF ValidatorOk
  <2>7. CASE t.val[v] = s.val[v]
    BY Zenon, <2>1, <2>3, <2>7 DEF ValidatorOk, Exists
  <2> QED BY Zenon, <2>4, <2>5, <2>6, <2>7 DEF Stands
<1> QED BY Zenon, <1>6, <1>7 DEF VotesOk

\* The same for a step.
LEMMA StandsStep ==
  ASSUME Inv, UNCHANGED <<del, sharesTo>>, \A v \in Validators : Stands(val, val', v), VotesOk(Stored)
  PROVE  VotesOk(Stored')
<1> DEFINE t == Stored'
<1>1. StoreOk(Stored)
  BY Zenon, StoredOk DEF Inv
<1>2. /\ Stored.val = val /\ t.val = val'
      /\ Stored.del = del /\ t.del = del' /\ Stored.to = sharesTo /\ t.to = sharesTo'
  BY Zenon DEF Stored
<1>3. t.del = Stored.del /\ t.to = Stored.to
  BY Zenon, <1>2
<1>4. \A v \in Validators : Stands(Stored.val, t.val, v)
  BY Zenon, <1>2
<1> HIDE DEF t
<1>5. VotesOk(t)
  BY Zenon, <1>1, <1>3, <1>4, StandsVotes
<1> QED BY Zenon, <1>5 DEF t

\* The bonded pool stays where no msd changes.
LEMMA BondedSame ==
  ASSUME BondedOk(bondedPool, val, del), UNCHANGED <<bondedPool, del>>,
         \A v \in Validators : val'[v].msd = val[v].msd /\ (val[v].msd # 0 => Exists(val', v))
  PROVE  BondedOk(bondedPool', val', del')
<1>1. \A v \in Validators : Msds(val')[v] = Msds(val)[v]
  BY Zenon DEF Msds
<1>2. IsFiniteSet(Validators)
  BY Zenon, StakingAssumption
<1>3. SumOf(Msds(val'), Validators) = SumOf(Msds(val), Validators)
  BY Zenon, <1>1, <1>2, SumEqual
<1> QED BY <1>3 DEF BondedOk

\* What a step that touches no vote is shown to do.
ValidatorChange ==
  /\ UNCHANGED <<del, proxyBindings>>
  /\ VotesOk(Stored) => VotesOk(Stored')
  /\ BondedOk(bondedPool', val', del')

\* handleMsgCreateValidator.
LEMMA CreateChange ==
  ASSUME Inv, Inv', BondedOk(bondedPool, val, del), NEW v \in Validators, NEW m \in Nat,
         handleMsgCreateValidator(v, m)
  PROVE  ValidatorChange
<1> DEFINE r == [status |-> "unbonded", jailed |-> FALSE, shares |-> MsdShares,
                 msd |-> m, unbondingTime |-> 0]
<1>1. /\ m >= MinMsd /\ ~Exists(val, v)
      /\ bondedPool' = bondedPool + m
      /\ val' = [val EXCEPT ![v] = r]
      /\ UNCHANGED <<del, sharesTo, proxyBindings>>
  BY Zenon DEF handleMsgCreateValidator, ValidateCreateValidator, AccountToBonded, delVars
<1>2. val \in [Validators -> ValidatorRecord]
  BY Zenon DEF Inv, TypeOK
<1>3. val'[v] = r /\ \A w \in Validators \ {v} : val'[w] = val[w]
  BY Zenon, <1>1, <1>2
<1>4. m # 0
  BY <1>1, StakingAssumption
<1>5. val[v].msd = 0
  BY Zenon, <1>1 DEF BondedOk
<1>6. r.msd = m /\ r.status = "unbonded" /\ r.shares = MsdShares
  BY Zenon
<1> HIDE DEF r
<1>7. \A w \in Validators : Stands(val, val', w)
  BY <1>1, <1>3, <1>4, <1>6 DEF Stands, Exists, OwnShares
<1>8. BondedOk(bondedPool', val', del')
  <2>1. val'[v].msd = val[v].msd + m
    BY <1>3, <1>5, <1>6
  <2>2. val'[v].msd # 0 => Exists(val', v)
    BY Zenon, <1>3, <1>6 DEF Exists
  <2>3. del' = del /\ bondedPool' = bondedPool + m /\ m \in Int
    BY <1>1
  <2> QED BY Zenon, <1>3, <2>1, <2>2, <2>3, MsdChange
<1> QED BY Zenon, <1>1, <1>7, <1>8, StandsStep DEF ValidatorChange

\* handleMsgDestroyValidator.
LEMMA DestroyChange ==
  ASSUME Inv, Inv', BondedOk(bondedPool, val, del), NEW v \in Validators,
         handleMsgDestroyValidator(v)
  PROVE  ValidatorChange
<1> DEFINE remain == RemainShares(v)
           gone == val[v].status = "unbonded" /\ remain = 0
           r == IF gone THEN NoValidator
                ELSE [val[v] EXCEPT !.msd = 0, !.jailed = TRUE, !.shares = remain]
           m == val[v].msd
<1>1. /\ Exists(val, v) /\ m # 0
      /\ bondedPool' = bondedPool - m
      /\ val' = [val EXCEPT ![v] = r]
      /\ UNCHANGED <<del, sharesTo, proxyBindings>>
  BY Zenon DEF handleMsgDestroyValidator, WithdrawMinSelfDelegation, BondedToNotBonded, delVars
<1>2. val \in [Validators -> ValidatorRecord] /\ bondedPool \in Nat
  BY Zenon DEF Inv, TypeOK
<1>3. val'[v] = r /\ \A w \in Validators \ {v} : val'[w] = val[w]
  BY Zenon, <1>1, <1>2
<1>4. m \in Nat /\ val[v].shares \in Int /\ MsdShares \in Nat
  BY Zenon, <1>2, StakingAssumption DEF ValidatorRecord, MsdShares
<1>5. r.msd = 0
  BY Zenon, <1>2 DEF NoValidator, ValidatorRecord
<1>6. gone => r = NoValidator
  BY Zenon
<1>7. ~gone => r.jailed /\ r.shares = remain /\ r.status = val[v].status
  BY Zenon, <1>2 DEF ValidatorRecord
<1>8. remain = val[v].shares - MsdShares
  BY Zenon DEF RemainShares
<1> HIDE DEF r, remain
<1>9. Stands(val, val', v)
  <2>1. CASE gone
    BY <1>1, <1>3, <1>4, <1>6, <1>8, <2>1 DEF Stands, OwnShares
  <2>2. CASE ~gone
    <3>1. Exists(val', v) /\ val'[v].jailed
      BY Zenon, <1>1, <1>3, <1>7, <2>2 DEF Exists
    <3>2. val'[v].shares = val[v].shares - MsdShares
      BY Zenon, <1>3, <1>7, <1>8, <2>2
    <3>3. OwnShares(val'[v]) = 0 /\ OwnShares(val[v]) = MsdShares
      BY Zenon, <1>1, <1>3, <1>5 DEF OwnShares
    <3>4. val'[v].shares = val[v].shares + (OwnShares(val'[v]) - OwnShares(val[v]))
      BY <1>4, <3>2, <3>3
    <3> QED BY Zenon, <1>1, <3>1, <3>4 DEF Stands
  <2> QED BY Zenon, <2>1, <2>2
<1>10. \A w \in Validators : Stands(val, val', w)
  <2>1. \A w \in Validators \ {v} : Stands(val, val', w)
    BY Zenon, <1>3 DEF Stands
  <2> QED BY Zenon, <1>9, <2>1
<1>11. BondedOk(bondedPool', val', del')
  <2>1. val'[v].msd = val[v].msd + (-m)
    BY <1>3, <1>4, <1>5
  <2>2. val'[v].msd # 0 => Exists(val', v)
    BY Zenon, <1>3, <1>5
  <2>3. del' = del /\ bondedPool' = bondedPool + (-m) /\ -m \in Int
    BY <1>1, <1>2, <1>4
  <2> HIDE DEF m
  <2> QED BY Zenon, <1>3, <2>1, <2>2, <2>3, MsdChange
<1> QED BY Zenon, <1>1, <1>10, <1>11, StandsStep DEF ValidatorChange

\* Jailing and unjailing.
LEMMA JailChange ==
  ASSUME Inv, BondedOk(bondedPool, val, del), NEW v \in Validators,
         Jail(v) \/ Unjail(v)
  PROVE  ValidatorChange
<1>1. /\ Exists(val, v)
      /\ \/ val' = [val EXCEPT ![v].jailed = TRUE]
         \/ val[v].msd # 0 /\ val' = [val EXCEPT ![v].jailed = FALSE]
      /\ UNCHANGED <<del, sharesTo, proxyBindings, bondedPool>>
  BY Zenon DEF Jail, Unjail, Exists, delVars, coinVars
<1>2. val \in [Validators -> ValidatorRecord]
  BY Zenon DEF Inv, TypeOK
<1>3. /\ val'[v].msd = val[v].msd /\ val'[v].shares = val[v].shares /\ val'[v].status = val[v].status
      /\ val[v].msd = 0 => val'[v].jailed
      /\ \A w \in Validators \ {v} : val'[w] = val[w]
  BY <1>1, <1>2 DEF ValidatorRecord
<1>4. Stands(val, val', v)
  <2>1. val[v].shares \in Int /\ OwnShares(val[v]) \in Int
    BY <1>2, StakingAssumption DEF ValidatorRecord, OwnShares, MsdShares
  <2>2. OwnShares(val'[v]) = OwnShares(val[v])
    BY Zenon, <1>3 DEF OwnShares
  <2>3. val'[v].shares = val[v].shares + (OwnShares(val'[v]) - OwnShares(val[v]))
    BY <1>3, <2>1, <2>2
  <2> QED BY Zenon, <1>1, <1>3, <2>3 DEF Stands, Exists
<1>5. \A w \in Validators : Stands(val, val', w)
  <2>1. \A w \in Validators \ {v} : Stands(val, val', w)
    BY Zenon, <1>3 DEF Stands
  <2> QED BY Zenon, <1>4, <2>1
<1>6. \A w \in Validators : val'[w].msd = val[w].msd /\ (val[w].msd # 0 => Exists(val', w))
  BY Zenon, <1>1, <1>3 DEF BondedOk, Exists
<1> QED BY Zenon, <1>1, <1>5, <1>6, BondedSame, StandsStep DEF ValidatorChange

\* Elections and kick-outs: the status of validators that exist changes.
LEMMA StatusChange ==
  ASSUME Inv, BondedOk(bondedPool, val, del), UNCHANGED <<del, sharesTo, proxyBindings, bondedPool>>,
         NEW up, NEW down, val' = ChangedStatus(up, down),
         \A v \in up \cup down : Exists(val, v)
  PROVE  ValidatorChange
<1>1. val \in [Validators -> ValidatorRecord]
  BY Zenon DEF Inv, TypeOK
<1>2. ASSUME NEW v \in Validators
      PROVE  \/ val'[v] = val[v]
             \/ /\ Exists(val, v) /\ Exists(val', v)
                /\ val'[v].msd = val[v].msd /\ val'[v].shares = val[v].shares
                /\ val'[v].jailed = val[v].jailed
  BY Zenon, <1>1 DEF ChangedStatus, Exists, ValidatorRecord
<1>3. ASSUME VotesOk(Stored), NEW v \in Validators PROVE Stands(val, val', v)
  <2>1. val[v].shares \in Int /\ OwnShares(val[v]) \in Int
    BY <1>1, StakingAssumption DEF ValidatorRecord, OwnShares, MsdShares
  <2>2. Stored.val = val
    BY Zenon DEF Stored
  <2>3. Exists(val, v) /\ val[v].msd = 0 => val[v].jailed
    BY Zenon, <1>3, <2>2 DEF VotesOk, ValidatorOk, Exists
  <2>4. CASE val'[v] = val[v]
    BY Zenon, <2>4 DEF Stands
  <2>5. CASE /\ Exists(val, v) /\ Exists(val', v)
             /\ val'[v].msd = val[v].msd /\ val'[v].shares = val[v].shares
             /\ val'[v].jailed = val[v].jailed
    <3>1. OwnShares(val'[v]) = OwnShares(val[v])
      BY Zenon, <2>5 DEF OwnShares
    <3>2. val'[v].shares = val[v].shares + (OwnShares(val'[v]) - OwnShares(val[v]))
      BY <2>1, <2>5, <3>1
    <3> QED BY Zenon, <2>3, <2>5, <3>2 DEF Stands
  <2> QED BY Zenon, <1>2, <2>4, <2>5
<1>4. \A v \in Validators : val'[v].msd = val[v].msd /\ (val[v].msd # 0 => Exists(val', v))
  BY Zenon, <1>2 DEF BondedOk, Exists
<1>5. VotesOk(Stored) => VotesOk(Stored')
  BY Zenon, <1>3, StandsStep
<1>6. BondedOk(bondedPool', val', del')
  BY Zenon, <1>4, BondedSame
<1> QED BY Zenon, <1>5, <1>6 DEF ValidatorChange

\* The end of the unbonding of validators, some of which are removed.
LEMMA MatureChange ==
  ASSUME Inv, BondedOk(bondedPool, val, del), UnbondAllMatureValidatorQueue, ~halted'
  PROVE  ValidatorChange
<1> DEFINE gone == {v \in MatureValidators : val[v].shares = 0 /\ val[v].msd = 0}
<1>1. /\ \A v \in MatureValidators : val[v].status = "unbonding"
      /\ val' = [v \in Validators |->
                         IF v \in gone THEN NoValidator
                         ELSE IF v \in MatureValidators THEN [val[v] EXCEPT !.status = "unbonded"]
                         ELSE val[v]]
      /\ UNCHANGED <<del, sharesTo, proxyBindings, bondedPool>>
  BY Zenon DEF UnbondAllMatureValidatorQueue, Halt, delVars, coinVars
<1>2. val \in [Validators -> ValidatorRecord]
  BY Zenon DEF Inv, TypeOK
<1>3. ASSUME NEW v \in Validators
      PROVE  \/ val'[v] = val[v]
             \/ Exists(val, v) /\ val[v].shares = 0 /\ val[v].msd = 0 /\ val'[v] = NoValidator
             \/ /\ Exists(val, v) /\ Exists(val', v)
                /\ val'[v].msd = val[v].msd /\ val'[v].shares = val[v].shares
                /\ val'[v].jailed = val[v].jailed
  BY Zenon, <1>1, <1>2 DEF Exists, ValidatorRecord
<1>4. ASSUME VotesOk(Stored), NEW v \in Validators PROVE Stands(val, val', v)
  <2>1. val[v].shares \in Int /\ OwnShares(val[v]) \in Int
    BY <1>2, StakingAssumption DEF ValidatorRecord, OwnShares, MsdShares
  <2>2. Stored.val = val
    BY Zenon DEF Stored
  <2>3. Exists(val, v) /\ val[v].msd = 0 => val[v].jailed
    BY Zenon, <1>4, <2>2 DEF VotesOk, ValidatorOk, Exists
  <2>4. CASE val'[v] = val[v]
    BY Zenon, <2>4 DEF Stands
  <2>5. CASE Exists(val, v) /\ val[v].shares = 0 /\ val[v].msd = 0 /\ val'[v] = NoValidator
    BY Zenon, <2>5 DEF Stands, OwnShares
  <2>6. CASE /\ Exists(val, v) /\ Exists(val', v)
             /\ val'[v].msd = val[v].msd /\ val'[v].shares = val[v].shares
             /\ val'[v].jailed = val[v].jailed
    <3>1. OwnShares(val'[v]) = OwnShares(val[v])
      BY Zenon, <2>6 DEF OwnShares
    <3>2. val'[v].shares = val[v].shares + (OwnShares(val'[v]) - OwnShares(val[v]))
      BY <2>1, <2>6, <3>1
    <3> QED BY Zenon, <2>3, <2>6, <3>2 DEF Stands
  <2> QED BY Zenon, <1>3, <2>4, <2>5, <2>6
<1>5. \A v \in Validators : val'[v].msd = val[v].msd /\ (val[v].msd # 0 => Exists(val', v))
  BY <1>3 DEF BondedOk, Exists, NoValidator
<1>6. VotesOk(Stored) => VotesOk(Stored')
  BY Zenon, <1>1, <1>4, StandsStep
<1>7. BondedOk(bondedPool', val', del')
  BY Zenon, <1>1, <1>5, BondedSame
<1> QED BY Zenon, <1>1, <1>6, <1>7 DEF ValidatorChange

----------------------------------------------------------------------------
(* LastTotalPower *)

\* An election sets it to the power of the elected, or keeps it with the set.
LEMMA EndEpochPower ==
  ASSUME Inv, EndEpoch, lastTotalPower = SumOf(lastPower, Validators)
  PROVE  lastTotalPower' = SumOf(lastPower', Validators)
<1> DEFINE D == noLongerBonded \cup {w \in Elected : lastPower[w] # Powers[w]}
           updates == [v \in D |-> IF v \in Elected THEN Powers[v] ELSE 0]
<1>1. /\ Elected \subseteq Validators
      /\ \A v \in Elected : Powers[v] \in Int
      /\ ~ApplyPanics
  BY Zenon, ElectionFacts
<1>2. ApplyAndReturnValidatorSetUpdates
  BY Zenon, <1>1 DEF EndEpoch
<1>3. UpdateValidatorSet(updates)
      /\ lastTotalPower' = IF DOMAIN updates = {} THEN lastTotalPower ELSE SumOf(Powers, Elected)
  BY Zenon, <1>2 DEF ApplyAndReturnValidatorSetUpdates
<1>4. DOMAIN updates = D
  BY Zenon
<1>5. lastPower' = [v \in Validators |-> IF v \in D THEN updates[v] ELSE lastPower[v]]
  BY Zenon, <1>3, <1>4 DEF UpdateValidatorSet
<1>6. lastPower \in [Validators -> Int]
  BY Zenon DEF Inv, TypeOK
<1>7. CASE D = {}
  <2>1. lastPower' = lastPower
    BY Zenon, <1>5, <1>6, <1>7
  <2> QED BY Zenon, <1>3, <1>4, <1>7, <2>1
<1>8. CASE D # {}
  <2>1. lastTotalPower' = SumOf(Powers, Elected)
    BY Zenon, <1>3, <1>4, <1>8
  <2>2. \A v \in Elected : lastPower'[v] = Powers[v]
    BY Zenon, <1>1, <1>5, <1>6
  <2>3. \A v \in Validators \ Elected : lastPower'[v] = 0
    BY Zenon, <1>5, <1>6 DEF noLongerBonded, getLastValidatorsByAddr
  <2>4. IsFiniteSet(Validators) /\ IsFiniteSet(Elected)
    BY Zenon, <1>1, StakingAssumption, FS_Subset
  <2>5. \A v \in Validators : lastPower'[v] \in Int
    BY <1>1, <2>2, <2>3
  <2> DEFINE f == lastPower'
  <2>6. /\ \A v \in Elected : f[v] = Powers[v]
        /\ \A v \in Validators \ Elected : f[v] = 0
        /\ \A v \in Validators : f[v] \in Int
    BY Zenon, <2>2, <2>3, <2>5
  <2> HIDE DEF f, D, updates
  <2>7. SumOf(f, Validators) = SumOf(f, Elected)
    BY Zenon, <1>1, <2>4, <2>6, SumSubset
  <2>8. SumOf(f, Elected) = SumOf(Powers, Elected)
    BY Zenon, <2>4, <2>6, SumEqual
  <2>9. SumOf(f, Validators) = SumOf(Powers, Elected)
    BY Zenon, <2>7, <2>8
  <2> QED BY Zenon, <2>1, <2>9 DEF f
<1> QED BY Zenon, <1>7, <1>8

\* A kick-out adjusts it by the powers of the promoted and of the discharged, which are
\* different validators.
LEMMA KickOutPower ==
  ASSUME Inv, KickOut, lastTotalPower = SumOf(lastPower, Validators)
  PROVE  lastTotalPower' = SumOf(lastPower', Validators)
<1> DEFINE updates == [v \in Promoted \cup Discharged |-> IF v \in Discharged THEN 0 ELSE Powers[v]]
           f == lastPower
           g == lastPower'
           in == [v \in Validators |-> IF v \in Promoted THEN Powers[v] ELSE 0]
           out == [v \in Validators |-> IF v \in Discharged THEN f[v] ELSE 0]
           both == [v \in Validators |-> f[v] + in[v]]
<1>1. /\ Promoted \subseteq Validators /\ Discharged \subseteq Validators
      /\ \A v \in Promoted : val[v].status # "bonded" /\ Powers[v] \in Int
      /\ \A v \in Discharged : v \notin Promoted
      /\ ~KickOutPanics
  BY Zenon, KickOutFacts
<1>2. KickOutAndReturnValidatorSetUpdates
  BY Zenon, <1>1 DEF KickOut
<1>3. UpdateValidatorSet(updates) /\ lastTotalPower' = KickOutTotalPower
  BY Zenon, <1>2 DEF KickOutAndReturnValidatorSetUpdates
<1>4. g = [v \in Validators |-> IF v \in Promoted \cup Discharged
                                 THEN (IF v \in Discharged THEN 0 ELSE Powers[v]) ELSE f[v]]
  BY Zenon, <1>3 DEF UpdateValidatorSet
<1>5. f \in [Validators -> Int] /\ \A v \in Promoted : f[v] = 0
  BY Zenon, <1>1 DEF Inv, TypeOK, BondedIffInLastSet
<1>6. \A v \in Validators : f[v] \in Int /\ g[v] \in Int /\ in[v] \in Int /\ out[v] \in Int
  BY <1>1, <1>4, <1>5
<1>7. \A v \in Validators : both[v] = f[v] + in[v]
  BY Zenon
<1>8. \A v \in Validators : both[v] = g[v] + out[v]
  <2> SUFFICES ASSUME NEW v \in Validators PROVE f[v] + in[v] = g[v] + out[v]
    BY Zenon
  <2>1. CASE v \in Discharged
    <3>1. in[v] = 0 /\ g[v] = 0 /\ out[v] = f[v]
      BY Zenon, <1>1, <1>4, <2>1
    <3> QED BY <1>6, <3>1
  <2>2. CASE v \in Promoted
    <3>1. f[v] = 0 /\ in[v] = Powers[v] /\ g[v] = Powers[v] /\ out[v] = 0
      BY Zenon, <1>1, <1>4, <1>5, <2>2
    <3> QED BY <1>6, <3>1
  <2>3. CASE v \notin Promoted \cup Discharged
    <3>1. in[v] = 0 /\ g[v] = f[v] /\ out[v] = 0
      BY Zenon, <1>1, <1>4, <2>3
    <3> QED BY Zenon, <1>6, <3>1
  <2> QED BY Zenon, <2>1, <2>2, <2>3
<1>9. /\ IsFiniteSet(Validators) /\ IsFiniteSet(Promoted) /\ IsFiniteSet(Discharged)
  BY Zenon, <1>1, StakingAssumption, FS_Subset
<1>10. /\ \A v \in Promoted : in[v] = Powers[v]
       /\ \A v \in Validators \ Promoted : in[v] = 0
       /\ \A v \in Discharged : out[v] = f[v]
       /\ \A v \in Validators \ Discharged : out[v] = 0
  BY Zenon, <1>1
<1>11. KickOutTotalPower = SumOf(f, Validators) + SumOf(Powers, Promoted) - SumOf(f, Discharged)
  BY Zenon DEF KickOutTotalPower
<1> HIDE DEF f, g, in, out, both, updates
<1>12. SumOf(both, Validators) = SumOf(f, Validators) + SumOf(in, Validators)
  BY Zenon, <1>6, <1>7, <1>9, SumPlus
<1>13. SumOf(both, Validators) = SumOf(g, Validators) + SumOf(out, Validators)
  BY Zenon, <1>6, <1>8, <1>9, SumPlus
<1>14. SumOf(in, Validators) = SumOf(Powers, Promoted)
  <2>1. SumOf(in, Validators) = SumOf(in, Promoted)
    BY Zenon, <1>1, <1>6, <1>9, <1>10, SumSubset
  <2>2. SumOf(in, Promoted) = SumOf(Powers, Promoted)
    BY Zenon, <1>9, <1>10, SumEqual
  <2> QED BY Zenon, <2>1, <2>2
<1>15. SumOf(out, Validators) = SumOf(f, Discharged)
  <2>1. SumOf(out, Validators) = SumOf(out, Discharged)
    BY Zenon, <1>1, <1>6, <1>9, <1>10, SumSubset
  <2>2. SumOf(out, Discharged) = SumOf(f, Discharged)
    BY Zenon, <1>9, <1>10, SumEqual
  <2> QED BY Zenon, <2>1, <2>2
<1>16. SumOf(f, Validators) \in Int /\ SumOf(g, Validators) \in Int
       /\ SumOf(in, Validators) \in Int /\ SumOf(out, Validators) \in Int
  BY Zenon, <1>6, <1>9, SumInt
<1>17. SumOf(g, Validators) = KickOutTotalPower
  <2> DEFINE a == SumOf(f, Validators)
             b == SumOf(in, Validators)
             c == SumOf(g, Validators)
             e == SumOf(out, Validators)
  <2>1. a + b = c + e /\ a \in Int /\ b \in Int /\ c \in Int /\ e \in Int
    BY Zenon, <1>12, <1>13, <1>16
  <2>2. KickOutTotalPower = a + b - e
    BY Zenon, <1>11, <1>14, <1>15
  <2> HIDE DEF a, b, c, e
  <2>3. c = a + b - e
    BY <2>1
  <2>4. c = KickOutTotalPower
    BY Zenon, <2>2, <2>3
  <2> QED BY Zenon, <2>4 DEF c
<1> QED BY Zenon, <1>3, <1>17 DEF g

----------------------------------------------------------------------------
(* The invariant *)

\* Pools, proxies and the last set agree whatever the weight of a vote is.
CoinsInv ==
  /\ HoldOk(del, proxyBindings)
  /\ BondedOk(bondedPool, val, del)
  /\ PendingOk(notBondedPool, undelegation, undelegateQueue)
  /\ phase = "idle" => \A e \in undelegateQueue : e[1] > now
  /\ lastTotalPower = SumOf(lastPower, Validators)

\* Votes agree once a vote has a weight.
VotesInv == now >= SecondsPerWeek /\ VotesOk(Stored)

\* A transaction of d that moves q tokens.
LEMMA CoinsAfterDelegator ==
  ASSUME Inv, Inv', CoinsInv, phase' = "deliver", UNCHANGED <<lastPower, lastTotalPower>>,
         NEW d \in Delegators, NEW q \in Int, DelegatorChange(d, q), bondedPool' = bondedPool + q,
         PendingOk(notBondedPool', undelegation', undelegateQueue')
  PROVE  CoinsInv'
<1>1. BondedOk(bondedPool', val', del')
  BY Zenon, BondedChange DEF CoinsInv
<1>2. HoldOk(del', proxyBindings')
  BY Zenon DEF DelegatorChange
<1>3. lastTotalPower' = SumOf(lastPower', Validators)
  BY Zenon DEF CoinsInv
<1>4. phase' # "idle"
  BY Zenon
<1> QED BY Zenon, <1>1, <1>2, <1>3, <1>4 DEF CoinsInv

\* A transaction of d that moves none.
LEMMA CoinsAfterVote ==
  ASSUME Inv, Inv', CoinsInv, phase' = "deliver", UNCHANGED <<lastPower, lastTotalPower, coinVars>>,
         NEW d \in Delegators, DelegatorChange(d, 0)
  PROVE  CoinsInv'
<1>1. bondedPool' = bondedPool + 0 /\ 0 \in Int
  <2>1. bondedPool' = bondedPool /\ bondedPool \in Nat
    BY Zenon DEF coinVars, Inv, TypeOK
  <2> QED BY <2>1
<1>2. PendingOk(notBondedPool', undelegation', undelegateQueue')
  BY Zenon DEF CoinsInv, coinVars
<1> QED BY Zenon, <1>1, <1>2, CoinsAfterDelegator

\* A step that touches no vote.
LEMMA CoinsAfterValidator ==
  ASSUME Inv, Inv', CoinsInv, phase' # "idle", ValidatorChange,
         lastTotalPower' = SumOf(lastPower', Validators),
         PendingOk(notBondedPool', undelegation', undelegateQueue')
  PROVE  CoinsInv'
BY Zenon DEF CoinsInv, ValidatorChange

\* Every transaction keeps the invariants.
LEMMA TxCoins ==
  ASSUME Inv, CoinsInv, DeliverTx
  PROVE  CoinsInv' /\ (VotesInv => VotesInv')
<1>1. phase = "deliver" /\ StakingTx /\ phase' = "deliver" /\ now' = now
  BY Zenon DEF DeliverTx, blockVars
<1>2. Inv'
  BY Zenon, TxInv
<1>3. /\ HoldOk(del, proxyBindings) /\ BondedOk(bondedPool, val, del)
      /\ PendingOk(notBondedPool, undelegation, undelegateQueue)
      /\ lastTotalPower = SumOf(lastPower, Validators)
  BY Zenon DEF CoinsInv
<1>4. bondedPool \in Nat /\ notBondedPool \in Nat
  BY Zenon DEF Inv, TypeOK
<1>5. ASSUME NEW d \in Delegators, NEW q, DelegatorChange(d, q)
      PROVE  VotesInv => VotesInv'
  BY Zenon, <1>1, <1>5 DEF DelegatorChange, VotesInv
<1>6. ASSUME ValidatorChange
      PROVE  VotesInv => VotesInv'
  BY Zenon, <1>1, <1>6 DEF ValidatorChange, VotesInv
<1>7. ASSUME NEW v \in Validators, NEW m \in MsdChoices, handleMsgCreateValidator(v, m)
      PROVE  CoinsInv' /\ (VotesInv => VotesInv')
  <2>1. m \in Nat
    BY Zenon, InstanceAssumption
  <2>2. ValidatorChange
    BY Zenon, <1>2, <1>3, <1>7, <2>1, CreateChange
  <2>3. UNCHANGED <<lastPower, lastTotalPower, undelegation, undelegateQueue, notBondedPool>>
    BY Zenon, <1>7 DEF handleMsgCreateValidator, AccountToBonded
  <2>4. /\ PendingOk(notBondedPool', undelegation', undelegateQueue')
        /\ lastTotalPower' = SumOf(lastPower', Validators) /\ phase' # "idle"
    BY Zenon, <1>1, <1>3, <2>3
  <2> QED BY Zenon, <1>2, <1>6, <2>2, <2>4, CoinsAfterValidator
<1>8. ASSUME NEW v \in Validators, handleMsgDestroyValidator(v)
      PROVE  CoinsInv' /\ (VotesInv => VotesInv')
  <2>1. ValidatorChange
    BY Zenon, <1>2, <1>3, <1>8, DestroyChange
  <2>2. /\ BondedToNotBonded(val[v].msd) /\ AddUndelegation(v, val[v].msd) /\ val[v].msd # 0
        /\ UNCHANGED <<lastPower, lastTotalPower>>
    BY Zenon, <1>8 DEF handleMsgDestroyValidator, WithdrawMinSelfDelegation
  <2>3. v \in Accounts /\ val[v].msd \in Nat \ {0}
    BY Zenon, <2>2 DEF Inv, TypeOK, ValidatorRecord, Accounts
  <2>4. PendingOk(notBondedPool', undelegation', undelegateQueue')
    BY Zenon, <1>2, <1>3, <2>2, <2>3, PendingChange
  <2>5. lastTotalPower' = SumOf(lastPower', Validators) /\ phase' # "idle"
    BY Zenon, <1>1, <1>3, <2>2
  <2> QED BY Zenon, <1>2, <1>6, <2>1, <2>4, <2>5, CoinsAfterValidator
<1>9. ASSUME NEW v \in Validators, Unjail(v)
      PROVE  CoinsInv' /\ (VotesInv => VotesInv')
  <2>1. ValidatorChange
    BY Zenon, <1>2, <1>3, <1>9, JailChange
  <2>2. UNCHANGED <<lastPower, lastTotalPower, undelegation, undelegateQueue, notBondedPool>>
    BY Zenon, <1>9 DEF Unjail, coinVars
  <2>3. /\ PendingOk(notBondedPool', undelegation', undelegateQueue')
        /\ lastTotalPower' = SumOf(lastPower', Validators) /\ phase' # "idle"
    BY Zenon, <1>1, <1>3, <2>2
  <2> QED BY Zenon, <1>2, <1>6, <2>1, <2>3, CoinsAfterValidator
<1>10. ASSUME NEW d \in Delegators, NEW q \in Quantities, handleMsgDeposit(d, q)
       PROVE  CoinsInv' /\ (VotesInv => VotesInv')
  <2>1. DelegatorChange(d, q)
    BY Zenon, <1>3, <1>10, DepositChange
  <2>2. /\ bondedPool' = bondedPool + q
        /\ UNCHANGED <<lastPower, lastTotalPower, undelegation, undelegateQueue, notBondedPool>>
    BY Zenon, <1>10 DEF handleMsgDeposit, Delegate, AccountToBonded
  <2>3. q \in Int
    BY InstanceAssumption
  <2>4. PendingOk(notBondedPool', undelegation', undelegateQueue')
    BY Zenon, <1>3, <2>2
  <2> QED BY Zenon, <1>1, <1>2, <1>5, <2>1, <2>2, <2>3, <2>4, CoinsAfterDelegator
<1>11. ASSUME NEW d \in Delegators, NEW q \in Quantities, handleMsgWithdraw(d, q)
       PROVE  CoinsInv' /\ (VotesInv => VotesInv')
  <2>1. DelegatorChange(d, -q)
    BY Zenon, <1>3, <1>11, WithdrawChange
  <2>2. /\ BondedToNotBonded(q) /\ AddUndelegation(d, q) /\ q >= MinDelegation
        /\ UNCHANGED <<lastPower, lastTotalPower>>
    BY Zenon, <1>11 DEF handleMsgWithdraw, Withdraw
  <2>3. q \in Nat \ {0} /\ -q \in Int /\ d \in Accounts
    BY <2>2, InstanceAssumption, StakingAssumption DEF Accounts
  <2>4. PendingOk(notBondedPool', undelegation', undelegateQueue')
    BY Zenon, <1>2, <1>3, <2>2, <2>3, PendingChange
  <2>5. bondedPool' = bondedPool + (-q)
    BY Zenon, <1>4, <2>2, <2>3 DEF BondedToNotBonded
  <2> QED BY Zenon, <1>1, <1>2, <1>5, <2>1, <2>2, <2>3, <2>4, <2>5, CoinsAfterDelegator
<1>12. ASSUME NEW d \in Delegators, DelegatorChange(d, 0), UNCHANGED <<lastPower, lastTotalPower, coinVars>>
       PROVE  CoinsInv' /\ (VotesInv => VotesInv')
  BY Zenon, <1>1, <1>2, <1>5, <1>12, CoinsAfterVote
<1>13. ASSUME NEW d \in Delegators, NEW vs \in SUBSET Validators, handleMsgAddShares(d, vs)
       PROVE  CoinsInv' /\ (VotesInv => VotesInv')
  <2>1. UNCHANGED <<lastPower, lastTotalPower, coinVars>>
    BY Zenon, <1>13 DEF handleMsgAddShares
  <2> QED BY Zenon, <1>3, <1>12, <1>13, <2>1, AddSharesChange
<1>14. ASSUME NEW d \in Delegators, NEW p \in Delegators, handleMsgBindProxy(d, p)
       PROVE  CoinsInv' /\ (VotesInv => VotesInv')
  <2>1. UNCHANGED <<lastPower, lastTotalPower, coinVars>>
    BY Zenon, <1>14 DEF handleMsgBindProxy
  <2> QED BY Zenon, <1>3, <1>12, <1>14, <2>1, BindProxyChange
<1>15. ASSUME NEW d \in Delegators, handleMsgUnbindProxy(d)
       PROVE  CoinsInv' /\ (VotesInv => VotesInv')
  <2>1. UNCHANGED <<lastPower, lastTotalPower, coinVars>>
    BY Zenon, <1>15 DEF handleMsgUnbindProxy
  <2> QED BY Zenon, <1>3, <1>12, <1>15, <2>1, UnbindProxyChange
<1>16. ASSUME NEW d \in Delegators, regProxy(d)
       PROVE  CoinsInv' /\ (VotesInv => VotesInv')
  <2>1. UNCHANGED <<lastPower, lastTotalPower, coinVars>>
    BY Zenon, <1>16 DEF regProxy
  <2> QED BY Zenon, <1>3, <1>12, <1>16, <2>1, RegProxyChange
<1>17. ASSUME NEW d \in Delegators, unregProxy(d)
       PROVE  CoinsInv' /\ (VotesInv => VotesInv')
  <2>1. UNCHANGED <<lastPower, lastTotalPower, coinVars>>
    BY Zenon, <1>17 DEF unregProxy
  <2> QED BY Zenon, <1>3, <1>12, <1>17, <2>1, UnregProxyChange
<1> QED BY Zenon, <1>1, <1>7, <1>8, <1>9, <1>10, <1>11, <1>13, <1>14, <1>15, <1>16, <1>17 DEF StakingTx

\* Every step keeps the invariants.
LEMMA NextCoins ==
  ASSUME Inv, CoinsInv, [Next]_vars
  PROVE  CoinsInv' /\ (VotesInv => VotesInv')
<1>1. Inv'
  BY Zenon, NextInv
<1>2. /\ HoldOk(del, proxyBindings) /\ BondedOk(bondedPool, val, del)
      /\ PendingOk(notBondedPool, undelegation, undelegateQueue)
      /\ lastTotalPower = SumOf(lastPower, Validators)
  BY Zenon DEF CoinsInv
<1>3. now \in Nat /\ SecondsPerWeek \in Nat /\ ~halted'
  BY Zenon, <1>1, StakingAssumption DEF Inv, TypeOK, NeverHalts
<1>4. ASSUME UNCHANGED storeVars, now' >= now, now' \in Nat,
             phase' = "idle" => \A e \in undelegateQueue : e[1] > now'
      PROVE  CoinsInv' /\ (VotesInv => VotesInv')
  <2>1. UNCHANGED <<val, powerIndex, lastPower, lastTotalPower, del, sharesTo, proxyBindings,
                    undelegation, undelegateQueue, bondedPool, notBondedPool>>
    BY Zenon, <1>4 DEF storeVars, valVars, delVars, coinVars
  <2>2. CoinsInv'
    BY Zenon, <1>2, <1>4, <2>1 DEF CoinsInv
  <2>3. Stored' = Stored
    BY Zenon, <2>1 DEF Stored
  <2>4. VotesOk(Stored) => VotesOk(Stored')
    BY Zenon, <2>3
  <2>5. now >= SecondsPerWeek => now' >= SecondsPerWeek
    BY <1>3, <1>4
  <2> QED BY Zenon, <2>2, <2>4, <2>5 DEF VotesInv
<1>5. ASSUME ValidatorChange, now' = now, phase' # "idle", lastTotalPower' = SumOf(lastPower', Validators),
             UNCHANGED <<undelegation, undelegateQueue, notBondedPool>>
      PROVE  CoinsInv' /\ (VotesInv => VotesInv')
  <2>1. PendingOk(notBondedPool', undelegation', undelegateQueue')
    BY Zenon, <1>2, <1>5
  <2>2. CoinsInv'
    BY Zenon, <1>1, <1>5, <2>1, CoinsAfterValidator
  <2> QED BY Zenon, <1>5, <2>2 DEF ValidatorChange, VotesInv
<1>6. CASE BeginBlock
  <2>1. PICK dt \in TimeSteps : now' = now + dt
    BY Zenon, <1>6 DEF BeginBlock
  <2>2. now' >= now /\ now' \in Nat
    BY <1>3, <2>1, InstanceAssumption
  <2>3. UNCHANGED storeVars /\ phase' # "idle"
    BY Zenon, <1>6 DEF BeginBlock
  <2> QED BY Zenon, <1>4, <2>2, <2>3
<1>7. CASE \E v \in Validators : SlashingJails(v)
  <2>1. PICK v \in Validators : SlashingJails(v)
    BY Zenon, <1>7
  <2>2. Jail(v) /\ now' = now /\ phase' # "idle"
    BY Zenon, <2>1 DEF SlashingJails, blockVars
  <2>3. ValidatorChange
    BY Zenon, <1>2, <2>2, JailChange
  <2>4. UNCHANGED <<lastPower, lastTotalPower, undelegation, undelegateQueue, notBondedPool>>
    BY Zenon, <2>2 DEF Jail, coinVars
  <2>5. lastTotalPower' = SumOf(lastPower', Validators)
    BY Zenon, <1>2, <2>4
  <2> QED BY Zenon, <1>5, <2>2, <2>3, <2>4, <2>5
<1>8. CASE BeginBlockReturns \/ ChangeParams \/ KeepValidatorSet
  <2>1. UNCHANGED storeVars /\ phase' # "idle" /\ now' = now
    BY Zenon, <1>8 DEF BeginBlockReturns, ChangeParams, KeepValidatorSet
  <2>2. now' >= now /\ now' \in Nat
    BY <1>3, <2>1
  <2> QED BY Zenon, <1>4, <2>1, <2>2
<1>9. CASE DeliverTx
  BY Zenon, <1>9, TxCoins
<1>10. CASE EndEpoch
  <2> DEFINE up == {v \in Elected : val[v].status # "bonded"}
  <2>1. /\ \A v \in Elected : Exists(val, v)
        /\ \A v \in Validators : lastPower[v] # 0 <=> val[v].status = "bonded"
        /\ ~ApplyPanics
    BY Zenon, ElectionFacts
  <2>2. /\ ApplyAndReturnValidatorSetUpdates
        /\ UNCHANGED <<del, sharesTo, proxyBindings, undelegation, undelegateQueue, bondedPool, notBondedPool>>
        /\ phase' = "mature" /\ now' = now
    BY Zenon, <1>10, <2>1 DEF EndEpoch, delVars, coinVars
  <2>3. val' = ChangedStatus(up, noLongerBonded)
    BY Zenon, <2>2 DEF ApplyAndReturnValidatorSetUpdates
  <2>4. \A v \in up \cup noLongerBonded : Exists(val, v)
    BY Zenon, <2>1 DEF noLongerBonded, getLastValidatorsByAddr, Exists
  <2> HIDE DEF up
  <2>5. ValidatorChange
    BY Zenon, <1>2, <2>2, <2>3, <2>4, StatusChange
  <2>6. lastTotalPower' = SumOf(lastPower', Validators)
    BY Zenon, <1>2, <1>10, EndEpochPower
  <2> QED BY Zenon, <1>5, <2>2, <2>5, <2>6
<1>11. CASE KickOut
  <2>1. /\ \A v \in Promoted : Exists(val, v)
        /\ \A v \in Discharged : val[v].status = "bonded"
        /\ ~KickOutPanics
    BY Zenon, KickOutFacts
  <2>2. /\ KickOutAndReturnValidatorSetUpdates
        /\ UNCHANGED <<del, sharesTo, proxyBindings, undelegation, undelegateQueue, bondedPool, notBondedPool>>
        /\ phase' = "mature" /\ now' = now
    BY Zenon, <1>11, <2>1 DEF KickOut, delVars, coinVars
  <2>3. val' = ChangedStatus(Promoted, Discharged)
    BY Zenon, <2>2 DEF KickOutAndReturnValidatorSetUpdates
  <2>4. \A v \in Promoted \cup Discharged : Exists(val, v)
    BY Zenon, <2>1 DEF Exists
  <2>5. ValidatorChange
    BY Zenon, <1>2, <2>2, <2>3, <2>4, StatusChange
  <2>6. lastTotalPower' = SumOf(lastPower', Validators)
    BY Zenon, <1>2, <1>11, KickOutPower
  <2> QED BY Zenon, <1>5, <2>2, <2>5, <2>6
<1>12. CASE UnbondAllMatureValidatorQueue
  <2>1. ValidatorChange
    BY Zenon, <1>2, <1>3, <1>12, MatureChange
  <2>2. /\ UNCHANGED <<lastPower, lastTotalPower, undelegation, undelegateQueue, notBondedPool>>
        /\ phase' = "undelegate" /\ now' = now
    BY Zenon, <1>3, <1>12 DEF UnbondAllMatureValidatorQueue, Halt, coinVars
  <2>3. lastTotalPower' = SumOf(lastPower', Validators)
    BY Zenon, <1>2, <2>2
  <2> QED BY Zenon, <1>5, <2>1, <2>2, <2>3
<1>13. CASE \E e \in undelegateQueue : CompleteUndelegation(e[1], e[2])
  <2>1. PICK e \in undelegateQueue : CompleteUndelegation(e[1], e[2])
    BY Zenon, <1>13
  <2>2. /\ UNCHANGED <<val, powerIndex, lastPower, lastTotalPower, del, sharesTo, proxyBindings, bondedPool, now>>
        /\ phase' = "undelegate"
    BY Zenon, <2>1 DEF CompleteUndelegation, valVars, delVars, blockVars
  <2>3. PendingOk(notBondedPool', undelegation', undelegateQueue')
    BY Zenon, <1>1, <1>2, <2>1, CompletePending
  <2>4. CoinsInv'
    BY Zenon, <1>2, <2>2, <2>3 DEF CoinsInv
  <2>5. Stored' = Stored
    BY Zenon, <2>2 DEF Stored
  <2>6. VotesOk(Stored) => VotesOk(Stored')
    BY Zenon, <2>5
  <2> QED BY Zenon, <2>2, <2>4, <2>6 DEF VotesInv
<1>14. CASE EndBlockReturns
  <2>1. UNCHANGED storeVars /\ now' = now /\ \A e \in undelegateQueue : e[1] > now
    BY Zenon, <1>14 DEF EndBlockReturns
  <2>2. now' >= now /\ now' \in Nat /\ \A e \in undelegateQueue : e[1] > now'
    BY <1>3, <2>1
  <2> QED BY Zenon, <1>4, <2>1, <2>2
<1>15. CASE Horizon \/ UNCHANGED vars
  <2>1. UNCHANGED storeVars /\ phase' = phase /\ now' = now
    BY Zenon, <1>15 DEF Horizon, vars, blockVars
  <2>2. now' >= now /\ now' \in Nat
    BY <1>3, <2>1
  <2>3. phase' = "idle" => \A e \in undelegateQueue : e[1] > now'
    BY Zenon, <2>1 DEF CoinsInv
  <2> QED BY Zenon, <1>4, <2>1, <2>2, <2>3
<1> QED BY Zenon, <1>6, <1>7, <1>8, <1>9, <1>10, <1>11, <1>12, <1>13, <1>14, <1>15 DEF Next

\* Genesis.
LEMMA InitCoins ==
  ASSUME Init
  PROVE  CoinsInv /\ (StartTime >= SecondsPerWeek => VotesInv)
<1>1. IsFiniteSet(Validators) /\ IsFiniteSet(Delegators) /\ IsFiniteSet(Accounts) /\ IsFiniteSet(GenesisValidators)
  BY Zenon, StakingAssumption, InstanceAssumption, FS_Union, FS_Subset DEF Accounts
<1>2. /\ \A d \in Delegators : del[d] = NoDelegator
      /\ \A a \in Accounts : undelegation[a] = NoUndelegation
      /\ \A d \in Delegators, v \in Validators : sharesTo[d][v] = 0
      /\ \A v \in Validators \ GenesisValidators : val[v] = NoValidator
      /\ \A v \in GenesisValidators : /\ val[v].msd = ElectMsd /\ val[v].shares = MsdShares
                                      /\ val[v].status \in {"bonded", "unbonded"}
  BY Zenon, InstanceAssumption DEF Init
<1>3. HoldOk(del, proxyBindings)
  <2>1. \A d \in Delegators : del[d].proxy = NoProxy /\ ~del[d].found /\ del[d].total = 0
    BY <1>2 DEF NoDelegator
  <2>2. proxyBindings = {<<del[d].proxy, d>> : d \in {e \in Delegators : del[e].proxy # NoProxy}}
    BY Zenon, <2>1 DEF Init
  <2>3. ASSUME NEW p \in Delegators PROVE del[p].total = SumOf(Parts(del, p), Delegators)
    <3>1. \A d \in Delegators : Parts(del, p)[d] = 0
      BY Zenon, <2>1, StakingAssumption DEF Parts, Part
    <3> QED BY Zenon, <1>1, <2>1, <3>1, SumZero
  <2> QED BY Zenon, <1>2, <2>1, <2>2, <2>3 DEF HoldOk
<1>4. BondedOk(bondedPool, val, del)
  <2>1. \A v \in Validators : val[v].msd # 0 => Exists(val, v)
    BY <1>2 DEF Exists, NoValidator
  <2>2. \A d \in Delegators : Tokens(del)[d] = 0
    BY <1>2 DEF Tokens, NoDelegator
  <2>3. SumOf(Tokens(del), Delegators) = 0
    BY Zenon, <1>1, <2>2, SumZero
  <2>4. ElectMsd \in Nat /\ GenesisValidators \in SUBSET Validators
    BY Zenon, StakingAssumption, InstanceAssumption
  <2>5. /\ \A v \in GenesisValidators : Msds(val)[v] = ElectMsd
        /\ \A v \in Validators \ GenesisValidators : Msds(val)[v] = 0
    BY <1>2, <2>4 DEF Msds, NoValidator
  <2>6. \A v \in Validators : Msds(val)[v] \in Int
    BY <2>4, <2>5
  <2>7. SumOf(Msds(val), Validators) = SumOf(Msds(val), GenesisValidators)
    BY Zenon, <1>1, <2>4, <2>5, <2>6, SumSubset
  <2>8. SumOf(Msds(val), GenesisValidators) = ElectMsd * Cardinality(GenesisValidators)
    <3>1. ElectMsd \in Int
      BY <2>4
    <3> QED BY <1>1, <2>5, <3>1, SumConstant, Zenon
  <2>9. bondedPool = SumOf(Msds(val), Validators)
    BY Zenon, <2>7, <2>8 DEF Init
  <2>10. SumOf(Msds(val), Validators) \in Int
    BY Zenon, <1>1, <2>6, SumInt
  <2>11. bondedPool = SumOf(Msds(val), Validators) + SumOf(Tokens(del), Delegators)
    BY <2>3, <2>9, <2>10
  <2> QED BY Zenon, <2>1, <2>11 DEF BondedOk
<1>5. PendingOk(notBondedPool, undelegation, undelegateQueue)
  <2>1. \A a \in Accounts : Pending(undelegation)[a] = 0 /\ undelegation[a].quantity = 0
    BY <1>2 DEF Pending, NoUndelegation
  <2>2. SumOf(Pending(undelegation), Accounts) = 0
    BY Zenon, <1>1, <2>1, SumZero
  <2>3. undelegateQueue = {<<undelegation[a].time, a>> : a \in {b \in Accounts : undelegation[b].quantity # 0}}
    BY Zenon, <2>1 DEF Init
  <2> QED BY Zenon, <2>2, <2>3 DEF PendingOk, Init
<1>6. lastTotalPower = SumOf(lastPower, Validators) /\ undelegateQueue = {}
  BY Zenon DEF Init
<1>7. CoinsInv
  BY Zenon, <1>3, <1>4, <1>5, <1>6 DEF CoinsInv
<1>8. VotesOk(Stored)
  <2>1. Stored.val = val /\ Stored.del = del /\ Stored.to = sharesTo
    BY Zenon DEF Stored
  <2>2. ASSUME NEW d \in Delegators PROVE VoteOk(Stored, d)
    BY <1>2, <2>1 DEF VoteOk, NoDelegator
  <2>3. ASSUME NEW v \in Validators PROVE ValidatorOk(Stored, v)
    <3>1. \A d \in Delegators : Added(Stored, v)[d] = 0
      BY Zenon, <1>2, <2>1 DEF Added
    <3>2. SumOf(Added(Stored, v), Delegators) = 0
      BY Zenon, <1>1, <3>1, SumZero
    <3>3. CASE v \in GenesisValidators
      <4>1. val[v].msd # 0 /\ MsdShares \in Nat
        BY Zenon, <1>2, <3>3, StakingAssumption DEF MsdShares
      <4>2. val[v].shares = OwnShares(val[v]) + 0
        BY <1>2, <3>3, <4>1 DEF OwnShares
      <4>3. Exists(val, v)
        BY Zenon, <1>2, <3>3 DEF Exists
      <4> QED BY Zenon, <2>1, <3>2, <4>1, <4>2, <4>3 DEF ValidatorOk
    <3>4. CASE v \notin GenesisValidators
      BY <1>2, <2>1, <3>4 DEF ValidatorOk, Exists, NoValidator
    <3> QED BY Zenon, <3>3, <3>4
  <2> QED BY Zenon, <2>2, <2>3 DEF VotesOk
<1>9. now = StartTime
  BY Zenon DEF Init
<1> QED BY Zenon, <1>7, <1>8, <1>9 DEF VotesInv

\* The inductive invariant of pools, undelegations, proxies and the last set: every handler,
\* jailing and part of the EndBlocker keeps it.
THEOREM CoinsInvariance == Spec => [](Inv /\ CoinsInv)
<1>1. Init => Inv /\ CoinsInv
  BY Zenon, InitInv, InitCoins
<1>2. Inv /\ CoinsInv /\ [Next]_vars => (Inv /\ CoinsInv)'
  BY Zenon, NextInv, NextCoins
<1> QED BY <1>1, <1>2, PTL DEF Spec

\* The binding keys, the ProxyAddress fields and the totals of the proxies agree after every
\* step of every behaviour, whatever is deposited, withdrawn, bound, unbound or deregistered.
THEOREM BindingsCorrect == Spec => []BindingsExact
<1>1. CoinsInv => BindingsExact
  BY Zenon DEF CoinsInv, HoldOk, BindingsExact, Parts, Part
<1> QED BY <1>1, CoinsInvariance, PTL

\* Every pending undelegation has exactly one time key, and a block leaves none that is due:
\* CompleteUndelegation never fails, so no coins stay behind in the pool.
THEOREM UndelegationsCorrect == Spec => []UndelegateQueueExact
<1>1. ASSUME Inv, CoinsInv PROVE UndelegateQueueExact
  <2>1. undelegateQueue = {<<undelegation[a].time, a>> : a \in {b \in Accounts : undelegation[b].quantity # 0}}
    BY Zenon, <1>1 DEF CoinsInv, PendingOk
  <2>2. ASSUME phase = "idle", NEW a \in Accounts, undelegation[a].quantity # 0
        PROVE  undelegation[a].time > now
    <3>1. <<undelegation[a].time, a>> \in undelegateQueue
      BY Zenon, <2>1, <2>2
    <3>2. \A e \in undelegateQueue : e[1] > now
      BY Zenon, <1>1, <2>2 DEF CoinsInv
    <3> QED BY Zenon, <3>1, <3>2
  <2> QED BY Zenon, <2>1, <2>2 DEF UndelegateQueueExact
<1>2. Inv /\ CoinsInv => UndelegateQueueExact
  BY Zenon, <1>1
<1> QED BY <1>2, CoinsInvariance, PTL

\* The two pools hold exactly the msd, the tokens and the pending undelegations
\* (ModuleAccountInvariantsCustom), no delegator is without tokens (PositiveDelegatorInvariant) and
\* LastTotalPower is the power of the last set: the invariants that do not depend on the
\* weight of votes hold from any genesis time on.
THEOREM PoolsCorrect ==
  Spec => [](/\ ModuleAccountInvariantsCustom /\ PositiveDelegatorInvariant
             /\ lastTotalPower = SumOf(lastPower, Validators))
<1>1. CoinsInv => ModuleAccountInvariantsCustom
  BY Zenon DEF CoinsInv, BondedOk, PendingOk, Msds, Tokens, Pending, ModuleAccountInvariantsCustom
<1>2. CoinsInv => PositiveDelegatorInvariant /\ lastTotalPower = SumOf(lastPower, Validators)
  BY Zenon DEF CoinsInv, HoldOk, PositiveDelegatorInvariant
<1> QED BY <1>1, <1>2, CoinsInvariance, PTL

\* The crisis invariants of the votes follow from the tables of shares.
LEMMA VotesInvariants ==
  ASSUME Inv, VotesInv
  PROVE  /\ DelegatorAddSharesInvariant /\ NonNegativePowerInvariantCustom
         /\ \A d \in Delegators, v \in Validators :
              sharesTo[d][v] = IF v \in del[d].vals /\ Exists(val, v) THEN del[d].shares ELSE 0
<1>1. Stored.val = val /\ Stored.del = del /\ Stored.to = sharesTo
  BY Zenon DEF Stored
<1>2. ASSUME NEW v \in Validators, Exists(val, v)
      PROVE  /\ val[v].shares = OwnShares(val[v]) + SumOf(Added(Stored, v), Delegators)
             /\ val[v].msd = 0 => val[v].jailed
  BY Zenon, <1>1, <1>2 DEF VotesInv, VotesOk, ValidatorOk, Exists
<1>3. \A v \in Validators : Added(Stored, v) = [d \in Delegators |-> sharesTo[d][v]]
  BY Zenon, <1>1 DEF Added
<1>4. DelegatorAddSharesInvariant
  BY Zenon, <1>2, <1>3 DEF DelegatorAddSharesInvariant, OwnShares
<1>5. ASSUME NEW v \in Validators, Exists(val, v) PROVE val[v].shares >= 0
  <2>1. OwnShares(val[v]) \in Nat
    BY Zenon, StakingAssumption DEF OwnShares, MsdShares
  <2>2. SumOf(Added(Stored, v), Delegators) \in Nat
    BY Zenon, AddedNat DEF VotesInv
  <2> QED BY <1>2, <1>5, <2>1, <2>2
<1>6. NonNegativePowerInvariantCustom
  <2> SUFFICES ASSUME NEW k \in powerIndex
               PROVE  Exists(val, k[2]) /\ k = PowerKey(val, k[2]) /\ val[k[2]].shares >= 0
    BY Zenon DEF NonNegativePowerInvariantCustom
  <2>1. PICK v \in Validators : k = PowerKey(val, v) /\ Exists(val, v)
    BY Zenon DEF Inv, PowerIndexExact
  <2>2. k[2] = v
    BY Zenon, <2>1 DEF PowerKey
  <2> QED BY Zenon, <1>5, <2>1, <2>2
<1>7. ASSUME NEW d \in Delegators, NEW v \in Validators
      PROVE  sharesTo[d][v] = IF v \in del[d].vals /\ Exists(val, v) THEN del[d].shares ELSE 0
  <2>1. \A w \in del[d].vals : Exists(val, w)
    BY Zenon, <1>1 DEF VotesInv, VotesOk, VoteOk
  <2>2. sharesTo[d][v] = IF v \in del[d].vals THEN del[d].shares ELSE 0
    BY Zenon, <1>1 DEF VotesInv, VotesOk, VoteOk
  <2> QED BY Zenon, <2>1, <2>2
<1> QED BY Zenon, <1>4, <1>6, <1>7

\* None of the invariants that staking registers with the crisis module is ever broken, on a
\* chain that starts a week or more after blockTimestampEpoch.  In that week calculateWeight
\* is 0 and a validator without shares may be one that somebody votes for.
THEOREM CrisisInvariantsCorrect ==
  ASSUME StartTime >= SecondsPerWeek
  PROVE  Spec => []InvariantsHold
<1> DEFINE I == Inv /\ CoinsInv /\ VotesInv
<1>1. Init => I
  BY Zenon, InitInv, InitCoins
<1>2. I /\ [Next]_vars => I'
  BY Zenon, NextInv, NextCoins
<1>3. I => ModuleAccountInvariantsCustom
  BY Zenon DEF CoinsInv, BondedOk, PendingOk, Msds, Tokens, Pending, ModuleAccountInvariantsCustom
<1>4. I => PositiveDelegatorInvariant /\ lastTotalPower = SumOf(lastPower, Validators)
  BY Zenon DEF CoinsInv, HoldOk, PositiveDelegatorInvariant
<1>5. I => InvariantsHold
  BY Zenon, <1>3, <1>4, VotesInvariants DEF InvariantsHold
<1> QED BY <1>1, <1>2, <1>5, PTL DEF Spec
=============================================================================
