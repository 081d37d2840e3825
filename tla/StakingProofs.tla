--------------------------- MODULE StakingProofs ----------------------------
(***************************************************************************)
(* Proofs about Staking, for every set of validators and delegators and    *)
(* every value of the other constants: the validator set.                  *)
(*                                                                         *)
(* The argument.  A handler of a delegator changes validator records only  *)
(* in their shares, or removes an unbonded validator (SameStanding), and   *)
(* keeps the power index exact (StoreOk).  Jailing and destroying put a    *)
(* bonded validator on the list of abandoned ones (AbandonedOk).  So the   *)
(* EndBlocker finds every bonded validator in the last validator set and   *)
(* every jailed one on the list, and keeps the inductive invariant too.    *)
(***************************************************************************)
EXTENDS Staking, FiniteSetTheorems, TLAPS

\* The tables the share functions work on, typed.
Store == [val : [Validators -> ValidatorRecord],
          del : [Delegators -> DelegatorRecord],
          to  : [Delegators -> [Validators -> Int]],
          ix  : SUBSET (Int \X Validators)]

\* The keys an exact power index holds for the validator records vl.
ExactIndex(vl) == {PowerKey(vl, v) : v \in {w \in Validators : Exists(vl, w) /\ ~vl[w].jailed}}

StoreOk(s) == s \in Store /\ s.ix = ExactIndex(s.val)

\* From vl to vl2 no validator changes its standing, unless it is unbonded and removed.
SameStanding(vl, vl2) ==
  \A v \in Validators :
    \/ /\ vl2[v].status = vl[v].status
       /\ vl2[v].jailed = vl[v].jailed
       /\ vl2[v].unbondingTime = vl[v].unbondingTime
    \/ vl[v].status = "unbonded" /\ vl2[v].status = "none"

\* A store function leaves a well-formed store and nobody's standing changed.
Sound(s, s2) == StoreOk(s2) /\ SameStanding(s.val, s2.val)

\* The list of abandoned validators: its members are jailed and have not completed their
\* unbonding, every jailed validator that is still bonded is a member, and the list is
\* empty once the EndBlocker has looked at it.
AbandonedOk ==
  /\ \A v \in AbandonedSet : val[v].jailed /\ val[v].status \in {"bonded", "unbonding"}
  /\ \A v \in Validators : val[v].jailed /\ val[v].status = "bonded" => v \in AbandonedSet
  /\ phase \notin {"begin", "deliver"} => abandoned = <<>>

\* The inductive invariant.
Inv == /\ TypeOK
       /\ PowerIndexExact
       /\ BondedIffInLastSet
       /\ ValidatorQueueExact
       /\ TendermintHasLastSet
       /\ NeverHalts
       /\ AbandonedOk

----------------------------------------------------------------------------
(* The power index and the store functions *)

\* Reindex of the validators of vs keeps the index exact when only their records change:
\* DeleteValidatorByPowerIndex before, SetValidatorByPowerIndex after a change of shares.
LEMMA ReindexExact ==
  ASSUME NEW vl, NEW vl2, NEW ix, NEW vs \in SUBSET Validators,
         \A v \in Validators \ vs : vl2[v] = vl[v],
         ix = ExactIndex(vl)
  PROVE  Reindex(ix, vl, vl2, vs) = ExactIndex(vl2)
BY DEF Reindex, PowerKey, Exists, ExactIndex

\* sharesToConsensusPower of any shares is an integer.
LEMMA PowerType == ASSUME NEW n \in Int PROVE Power(n) \in Int
BY StakingAssumption DEF Power

\* The keys of typed records are typed.
LEMMA ExactIndexType ==
  ASSUME NEW vl \in [Validators -> ValidatorRecord]
  PROVE  ExactIndex(vl) \in SUBSET (Int \X Validators)
<1>1. ASSUME NEW v \in Validators PROVE PowerKey(vl, v) \in Int \X Validators
  BY Zenon, PowerType DEF PowerKey, ValidatorRecord
<1>2. QED
  BY Zenon, <1>1 DEF ExactIndex

\* calculateWeight of any tokens is an integer number of share units.
LEMMA WeightType == ASSUME NEW n \in Int, now \in Nat PROVE calculateWeight(n) \in Int
<1>1. now \div SecondsPerWeek \in Int
  BY StakingAssumption
<1>2. QED
  BY <1>1 DEF calculateWeight

\* SameStanding composes: a handler that calls several store functions keeps standings.
LEMMA StandingTransitive ==
  ASSUME NEW a, NEW b, NEW c, SameStanding(a, b), SameStanding(b, c)
  PROVE  SameStanding(a, c)
BY Zenon DEF SameStanding

\* Edits of one field of a delegator record are typed; a handler makes several of them.
LEMMA DelegatorEdits ==
  ASSUME NEW r \in DelegatorRecord
  PROVE  /\ \A x \in BOOLEAN : [r EXCEPT !.found = x] \in DelegatorRecord
         /\ \A x \in Int : [r EXCEPT !.shares = x] \in DelegatorRecord
         /\ \A x \in Int : [r EXCEPT !.total = x] \in DelegatorRecord
         /\ \A x \in Nat : [r EXCEPT !.tokens = x] \in DelegatorRecord
         /\ \A x \in BOOLEAN : [r EXCEPT !.isProxy = x] \in DelegatorRecord
         /\ \A x \in Delegators \cup {NoProxy} : [r EXCEPT !.proxy = x] \in DelegatorRecord
         /\ \A x \in SUBSET Validators : [r EXCEPT !.vals = x] \in DelegatorRecord
BY Zenon DEF DelegatorRecord

\* The fields of typed records that the share functions compute with.
LEMMA StoreFields ==
  ASSUME NEW s, StoreOk(s), NEW d \in Delegators
  PROVE  /\ s.del[d] \in DelegatorRecord
         /\ s.del[d].shares \in Int /\ s.del[d].total \in Int /\ s.del[d].tokens \in Nat
         /\ s.del[d].proxy \in Delegators \cup {NoProxy}
         /\ LastVals(s, d) \in SUBSET Validators
<1>1. s.del[d] \in DelegatorRecord
  BY Zenon DEF StoreOk, Store
<1>2. QED
  BY Zenon, <1>1 DEF DelegatorRecord, LastVals

\* Replacing the record of one delegator keeps the store well-formed.
LEMMA SetDelegatorSound ==
  ASSUME NEW s, StoreOk(s), NEW d \in Delegators, NEW r \in DelegatorRecord
  PROVE  LET s2 == [s EXCEPT !.del = [s.del EXCEPT ![d] = r]]
         IN  /\ Sound(s, s2)
             /\ s2.val = s.val /\ s2.to = s.to /\ s2.ix = s.ix
             /\ s2.del = [s.del EXCEPT ![d] = r]
BY ZenonT(60) DEF Sound, StoreOk, Store, SameStanding

\* UpdateShares keeps the store well-formed and every standing.
LEMMA UpdateSharesSound ==
  ASSUME NEW s, StoreOk(s), now \in Nat, NEW d \in Delegators, NEW tokens \in Int
  PROVE  Sound(s, UpdateShares(s, d, tokens))
<1> DEFINE vs == LastVals(s, d)
           shares == calculateWeight(tokens)
           vl == [v \in Validators |->
               IF v \in vs THEN [s.val[v] EXCEPT !.shares = (@ - s.del[d].shares) + shares]
               ELSE s.val[v]]
           dl == IF vs = {} THEN s.del ELSE [s.del EXCEPT ![d].shares = shares]
           to == [s.to EXCEPT ![d] = [v \in Validators |-> IF v \in vs THEN shares ELSE s.to[d][v]]]
           ix == Reindex(s.ix, s.val, vl, vs)
<1>1. shares \in Int
  BY Zenon, WeightType
<1>2. vs \in SUBSET Validators
  BY Zenon, StoreFields
<1>3. vl \in [Validators -> ValidatorRecord]
  BY <1>1, StoreFields, SMTT(60) DEF StoreOk, Store, ValidatorRecord
<1>4. dl \in [Delegators -> DelegatorRecord]
  BY Zenon, <1>1, StoreFields, DelegatorEdits DEF StoreOk, Store
<1>5. to \in [Delegators -> [Validators -> Int]]
  BY Zenon, <1>1 DEF StoreOk, Store
<1>6. ix = ExactIndex(vl)
  BY <1>2, ReindexExact DEF StoreOk
<1>7. ix \in SUBSET (Int \X Validators)
  BY <1>3, <1>6, ExactIndexType, ZenonT(60)
<1>8. SameStanding(s.val, vl)
  BY Zenon DEF SameStanding, StoreOk, Store, ValidatorRecord
<1>9. UpdateShares(s, d, tokens) = [val |-> vl, del |-> dl, to |-> to, ix |-> ix]
  BY Zenon DEF UpdateShares
<1> HIDE DEF vl, dl, to, ix
<1>10. QED
  BY <1>3, <1>4, <1>5, <1>6, <1>7, <1>8, <1>9 DEF Sound, StoreOk, Store

\* WithdrawLastShares keeps the store well-formed; it removes only unbonded validators.
LEMMA WithdrawLastSharesSound ==
  ASSUME NEW s, StoreOk(s), NEW d \in Delegators
  PROVE  Sound(s, WithdrawLastShares(s, d))
<1> DEFINE vs == LastVals(s, d)
           left(v) == s.val[v].shares - s.del[d].shares
           gone(v) == s.val[v].status = "unbonded" /\ s.val[v].msd = 0 /\ left(v) = 0
           vl == [v \in Validators |->
                    IF v \notin vs THEN s.val[v]
                    ELSE IF gone(v) THEN NoValidator
                    ELSE [s.val[v] EXCEPT !.shares = left(v)]]
           to == [s.to EXCEPT ![d] = [v \in Validators |-> IF v \in vs THEN 0 ELSE s.to[d][v]]]
           ix == Reindex(s.ix, s.val, vl, vs)
<1>1. vs \in SUBSET Validators
  BY Zenon, StoreFields
<1>2. vl \in [Validators -> ValidatorRecord]
  BY StoreFields, SMTT(60) DEF StoreOk, Store, ValidatorRecord, NoValidator, Status
<1>3. to \in [Delegators -> [Validators -> Int]]
  BY DEF StoreOk, Store
<1>4. ix = ExactIndex(vl)
  BY <1>1, ReindexExact DEF StoreOk
<1>5. ix \in SUBSET (Int \X Validators)
  BY <1>2, <1>4, ExactIndexType, ZenonT(60)
<1>6. SameStanding(s.val, vl)
  BY ZenonT(60) DEF SameStanding, StoreOk, Store, ValidatorRecord, NoValidator
<1>7. WithdrawLastShares(s, d) = [val |-> vl, del |-> s.del, to |-> to, ix |-> ix]
  BY Zenon DEF WithdrawLastShares
<1> HIDE DEF vl, to, ix
<1>8. s.del \in [Delegators -> DelegatorRecord]
  BY Zenon DEF StoreOk, Store
<1>9. QED
  BY <1>2, <1>3, <1>4, <1>5, <1>6, <1>7, <1>8 DEF Sound, StoreOk, Store

\* AddSharesToValidators and the write of the delegator keep the store well-formed.
LEMMA AddSharesSound ==
  ASSUME NEW s, StoreOk(s), now \in Nat, NEW d \in Delegators, NEW tokens \in Int,
         NEW vs \in SUBSET Validators
  PROVE  Sound(s, AddShares(s, d, vs, tokens))
<1> DEFINE shares == calculateWeight(tokens)
           vl == [v \in Validators |->
                    IF v \in vs THEN [s.val[v] EXCEPT !.shares = @ + shares] ELSE s.val[v]]
           dl == [s.del EXCEPT ![d].vals = vs, ![d].shares = shares]
           to == [s.to EXCEPT ![d] = [v \in Validators |-> IF v \in vs THEN shares ELSE s.to[d][v]]]
           ix == Reindex(s.ix, s.val, vl, vs)
<1>1. shares \in Int
  BY Zenon, WeightType
<1>2. vl \in [Validators -> ValidatorRecord]
  BY <1>1 DEF StoreOk, Store, ValidatorRecord
<1>3. dl \in [Delegators -> DelegatorRecord]
  <2>1. [s.del[d] EXCEPT !.vals = vs] \in DelegatorRecord
    BY Zenon, StoreFields, DelegatorEdits
  <2>2. [[s.del[d] EXCEPT !.vals = vs] EXCEPT !.shares = shares] \in DelegatorRecord
    BY <1>1, <2>1, DelegatorEdits, ZenonT(60)
  <2>3. QED
    BY <2>2, ZenonT(60) DEF StoreOk, Store
<1>4. to \in [Delegators -> [Validators -> Int]]
  BY Zenon, <1>1 DEF StoreOk, Store
<1>5. ix = ExactIndex(vl)
  BY ReindexExact DEF StoreOk
<1>6. ix \in SUBSET (Int \X Validators)
  BY <1>2, <1>5, ExactIndexType, ZenonT(60)
<1>7. SameStanding(s.val, vl)
  BY Zenon DEF SameStanding, StoreOk, Store, ValidatorRecord
<1>8. AddShares(s, d, vs, tokens) = [val |-> vl, del |-> dl, to |-> to, ix |-> ix]
  BY Zenon DEF AddShares
<1> HIDE DEF vl, dl, to, ix
<1>9. QED
  BY <1>2, <1>3, <1>4, <1>5, <1>6, <1>7, <1>8 DEF Sound, StoreOk, Store

\* UpdateProxy keeps the store well-formed and every standing.
LEMMA UpdateProxySound ==
  ASSUME NEW s, StoreOk(s), now \in Nat, NEW d \in Delegators, NEW tokens \in Int
  PROVE  Sound(s, UpdateProxy(s, d, tokens))
<1> DEFINE p == s.del[d].proxy
           total == s.del[p].total + tokens
           s2 == [s EXCEPT !.del = [s.del EXCEPT ![p] = [s.del[p] EXCEPT !.total = total]]]
<1>1. CASE p = NoProxy
  BY Zenon, <1>1 DEF UpdateProxy, Sound, SameStanding
<1>2. CASE p # NoProxy
  <2>1. p \in Delegators
    BY Zenon, <1>2, StoreFields
  <2>2. total \in Int /\ total + s.del[p].tokens \in Int
    BY <2>1, StoreFields
  <2>3. [s.del[p] EXCEPT !.total = total] \in DelegatorRecord
    BY Zenon, <2>1, <2>2, StoreFields, DelegatorEdits
  <2>4. Sound(s, s2)
    BY Zenon, <2>1, <2>3, SetDelegatorSound
  <2>5. Sound(s2, UpdateShares(s2, p, total + s.del[p].tokens))
    BY <2>1, <2>2, <2>4, UpdateSharesSound, ZenonT(60) DEF Sound
  <2>6. UpdateProxy(s, d, tokens) = UpdateShares(s2, p, total + s.del[p].tokens)
    BY Zenon, <1>2 DEF UpdateProxy
  <2>7. QED
    BY <2>4, <2>5, <2>6, StandingTransitive, ZenonT(60) DEF Sound
<1>3. QED
  BY Zenon, <1>1, <1>2

----------------------------------------------------------------------------
(* Transactions of delegators *)

\* The part of the type invariant about coins.
CoinTypes ==
  /\ undelegation \in [Accounts -> [quantity : Nat, time : Nat]]
  /\ undelegateQueue \subseteq Nat \X Accounts
  /\ balance \in [Accounts -> Nat]
  /\ bondedPool \in Nat /\ notBondedPool \in Nat

\* What the transactions of delegators have in common.
DelegatorTx ==
  /\ \E s : Sound(Stored, s) /\ Save(s)
  /\ proxyBindings' \subseteq Delegators \X Delegators
  /\ CoinTypes'
  /\ UNCHANGED <<lastPower, lastTotalPower, abandoned, validatorQueue>>

\* The stored tables of a state that satisfies the invariant are well-formed.
LEMMA StoredOk == ASSUME TypeOK, PowerIndexExact PROVE StoreOk(Stored)
BY DEF StoreOk, Store, Stored, TypeOK, PowerIndexExact, ExactIndex

\* A transaction of a delegator preserves the invariant.
LEMMA DelegatorTxInv ==
  ASSUME Inv, DelegatorTx, UNCHANGED blockVars
  PROVE  Inv'
<1> PICK s : Sound(Stored, s) /\ Save(s)
  BY Zenon DEF DelegatorTx
<1> USE DEF Inv
<1>1. /\ val' \in [Validators -> ValidatorRecord]
      /\ powerIndex' \subseteq Int \X Validators
      /\ del' \in [Delegators -> DelegatorRecord]
      /\ sharesTo' \in [Delegators -> [Validators -> Int]]
  BY Zenon DEF Sound, StoreOk, Store, Save
<1>2. TypeOK'
  BY Zenon, <1>1 DEF TypeOK, DelegatorTx, CoinTypes, blockVars
<1>3. PowerIndexExact'
  BY Zenon DEF PowerIndexExact, Sound, StoreOk, Save, ExactIndex, PowerKey, Exists
<1>4. SameStanding(val, val')
  BY Zenon DEF Sound, Save, Stored
<1>5. BondedIffInLastSet'
  BY Zenon, <1>4 DEF BondedIffInLastSet, SameStanding, DelegatorTx
<1>6. ValidatorQueueExact'
  BY <1>4 DEF ValidatorQueueExact, SameStanding, DelegatorTx
<1>7. TendermintHasLastSet' /\ NeverHalts'
  BY Zenon DEF TendermintHasLastSet, NeverHalts, DelegatorTx, blockVars
<1>8. AbandonedOk'
  <2>1. AbandonedSet' = AbandonedSet /\ AbandonedSet \subseteq Validators
    BY DEF AbandonedSet, DelegatorTx, TypeOK
  <2>2. QED
    BY Zenon, <1>4, <2>1 DEF AbandonedOk, SameStanding, DelegatorTx, blockVars
<1>9. QED
  BY Zenon, <1>2, <1>3, <1>5, <1>6, <1>7, <1>8

\* DelegateCoinsFromAccountToModule moves coins the account has.
LEMMA AccountToBondedType ==
  ASSUME CoinTypes, NEW a \in Accounts, NEW q \in Nat, AccountToBonded(a, q),
         UNCHANGED <<undelegation, undelegateQueue>>
  PROVE  CoinTypes'
BY DEF CoinTypes, AccountToBonded

\* The completion time of an unbonding that starts now.
LEMMA UnbondingTimeType == UnbondingTime \in Nat \ {0}
BY Zenon, StakingAssumption DEF UnbondingTime

\* The coins of an undelegation move to the not bonded pool and wait under one key.
LEMMA AddUndelegationType ==
  ASSUME CoinTypes, now \in Nat, NEW a \in Accounts, NEW q \in Nat,
         BondedToNotBonded(q), AddUndelegation(a, q), UNCHANGED balance
  PROVE  CoinTypes'
<1>1. now + UnbondingTime \in Nat
  BY UnbondingTimeType
<1>2. undelegation' \in [Accounts -> [quantity : Nat, time : Nat]]
  BY <1>1 DEF CoinTypes, AddUndelegation
<1>3. undelegateQueue' \subseteq Nat \X Accounts
  BY <1>1 DEF CoinTypes, AddUndelegation
<1>4. QED
  BY <1>2, <1>3 DEF CoinTypes, BondedToNotBonded

\* Calls of store functions compose.
LEMMA SoundTransitive ==
  ASSUME NEW a, NEW b, NEW c, Sound(a, b), Sound(b, c)
  PROVE  Sound(a, c)
BY Zenon, StandingTransitive DEF Sound

\* The tokens a delegator votes with are an integer.
LEMMA VotingTokensType ==
  ASSUME NEW s, StoreOk(s), NEW d \in Delegators
  PROVE  VotingTokens(s.del[d]) \in Int
<1>1. s.del[d].tokens \in Int /\ s.del[d].total \in Int
  BY StoreFields
<1>2. QED
  BY <1>1 DEF VotingTokens

\* The absent and the new delegator record are typed.
LEMMA EmptyDelegators == NoDelegator \in DelegatorRecord /\ NewDelegator \in DelegatorRecord
<1>1. NoDelegator \in DelegatorRecord
  BY DEF NoDelegator, DelegatorRecord
<1>2. QED
  BY <1>1, DelegatorEdits, ZenonT(60) DEF NewDelegator

\* MsgDeposit.
LEMMA DepositTx ==
  ASSUME Inv, NEW d \in Delegators, NEW q \in Quantities, handleMsgDeposit(d, q)
  PROVE  DelegatorTx
<1> DEFINE old == IF del[d].found THEN del[d] ELSE NewDelegator
           r == [old EXCEPT !.tokens = old.tokens + q]
           s == [Stored EXCEPT !.del[d] = r]
<1> USE DEF handleMsgDeposit
<1>1. StoreOk(Stored) /\ now \in Nat /\ q \in Nat /\ d \in Accounts /\ CoinTypes
  BY StoredOk, InstanceAssumption, ZenonT(60) DEF Inv, TypeOK, CoinTypes, Accounts
<1>2. old \in DelegatorRecord
  BY Zenon, EmptyDelegators DEF Inv, TypeOK
<1>3. old.tokens + q \in Nat
  BY <1>1, <1>2, SMTT(60) DEF DelegatorRecord
<1>4. r \in DelegatorRecord
  <2> HIDE DEF old
  <2> QED
    BY Zenon, <1>2, <1>3, DelegatorEdits
<1>5. s = [Stored EXCEPT !.del = [Stored.del EXCEPT ![d] = r]]
  BY Zenon DEF Stored
<1>6. Sound(Stored, s)
  BY Zenon, <1>1, <1>4, <1>5, SetDelegatorSound
<1>7. \/ Save(UpdateProxy(s, d, q))
      \/ Save(UpdateShares(s, d, VotingTokens(s.del[d])))
  BY Zenon DEF Delegate
<1>8. \E t : Sound(Stored, t) /\ Save(t)
  <2> HIDE DEF s
  <2>1. StoreOk(s)
    BY Zenon, <1>6 DEF Sound
  <2>2. VotingTokens(s.del[d]) \in Int
    BY Zenon, <2>1, VotingTokensType
  <2>3. Sound(s, UpdateProxy(s, d, q))
    BY <1>1, <2>1, UpdateProxySound
  <2>4. Sound(s, UpdateShares(s, d, VotingTokens(s.del[d])))
    BY Zenon, <1>1, <2>1, <2>2, UpdateSharesSound
  <2>5. QED
    BY Zenon, <1>6, <1>7, <2>3, <2>4, SoundTransitive
<1>9. CoinTypes'
  BY Zenon, <1>1, AccountToBondedType DEF Delegate
<1>10. QED
  BY Zenon, <1>8, <1>9 DEF DelegatorTx, Delegate, Inv, TypeOK


\* MsgWithdraw.
LEMMA WithdrawTx ==
  ASSUME Inv, NEW d \in Delegators, NEW q \in Quantities, handleMsgWithdraw(d, q)
  PROVE  DelegatorTx
<1> DEFINE left == del[d].tokens - q
           s == UpdateProxy(Stored, d, -q)
           part == [s EXCEPT !.del[d].tokens = left]
           part2 == [s EXCEPT !.del = [s.del EXCEPT ![d] = [s.del[d] EXCEPT !.tokens = left]]]
           w == WithdrawLastShares(s, d)
           all == [w EXCEPT !.del[d] = NoDelegator]
           all2 == [w EXCEPT !.del = [w.del EXCEPT ![d] = NoDelegator]]
<1> USE DEF handleMsgWithdraw
<1>0. StoreOk(Stored) /\ now \in Nat /\ q \in Nat /\ d \in Accounts /\ CoinTypes
  BY StoredOk, InstanceAssumption, ZenonT(60) DEF Inv, TypeOK, CoinTypes, Accounts
<1>1. StoreOk(Stored) /\ now \in Nat /\ q \in Nat /\ -q \in Int /\ d \in Accounts /\ CoinTypes
  BY <1>0
<1>2. left \in Nat
  <2>1. del[d].tokens \in Nat
    BY Zenon DEF Inv, TypeOK, DelegatorRecord
  <2>2. left >= 0
    BY Zenon DEF Withdraw
  <2>3. QED
    BY <1>1, <2>1, <2>2
<1>3. Sound(Stored, s)
  BY Zenon, <1>1, UpdateProxySound
<1>4. part = part2 /\ all = all2
  BY Zenon
<1>5. \/ Save(all)
      \/ Save(part)
      \/ Save(UpdateShares(part, d, VotingTokens(part.del[d])))
  BY Zenon DEF Withdraw
<1>6. \E t : Sound(Stored, t) /\ Save(t)
  <2> HIDE DEF s, left
  <2>1. StoreOk(s)
    BY Zenon, <1>3 DEF Sound
  <2>2. Sound(s, w) /\ StoreOk(w)
    BY Zenon, <2>1, WithdrawLastSharesSound DEF Sound
  <2>3. Sound(w, all2)
    <3> HIDE DEF w
    <3> QED
      BY Zenon, <2>2, SetDelegatorSound, EmptyDelegators
  <2>4. Sound(s, part2) /\ StoreOk(part2)
    <3>1. [s.del[d] EXCEPT !.tokens = left] \in DelegatorRecord
      BY Zenon, <1>2, <2>1, StoreFields, DelegatorEdits
    <3>2. QED
      BY Zenon, <2>1, <3>1, SetDelegatorSound DEF Sound
  <2> HIDE DEF w, part, part2, all, all2
  <2>5. VotingTokens(part.del[d]) \in Int
    BY Zenon, <1>4, <2>4, VotingTokensType
  <2>6. Sound(part, UpdateShares(part, d, VotingTokens(part.del[d])))
    BY Zenon, <1>1, <1>4, <2>4, <2>5, UpdateSharesSound
  <2>7. Sound(Stored, all) /\ Sound(Stored, part)
    BY Zenon, <1>3, <1>4, <2>2, <2>3, <2>4, SoundTransitive
  <2>8. QED
    BY Zenon, <1>5, <2>6, <2>7, SoundTransitive
<1>7. CoinTypes'
  BY Zenon, <1>1, AddUndelegationType DEF Withdraw
<1>8. proxyBindings' \subseteq Delegators \X Delegators
  BY Zenon DEF Withdraw, Inv, TypeOK
<1>9. QED
  BY Zenon, <1>6, <1>7, <1>8 DEF DelegatorTx, Withdraw

\* MsgAddShares.
LEMMA AddSharesTx ==
  ASSUME Inv, NEW d \in Delegators, NEW vs \in SUBSET Validators, handleMsgAddShares(d, vs)
  PROVE  DelegatorTx
<1> DEFINE s == WithdrawLastShares(Stored, d)
           n == del[d].tokens + del[d].total
<1>1. StoreOk(Stored) /\ now \in Nat
  BY Zenon, StoredOk DEF Inv, TypeOK
<1>2. n \in Int
  BY DEF Inv, TypeOK, DelegatorRecord
<1>3. Sound(Stored, s)
  BY Zenon, <1>1, WithdrawLastSharesSound
<1>4. Save(AddShares(s, d, vs, n))
  BY Zenon DEF handleMsgAddShares, ValidateAddShares
<1>5. Sound(s, AddShares(s, d, vs, n))
  <2> HIDE DEF s, n
  <2> QED
    BY Zenon, <1>1, <1>2, <1>3, AddSharesSound DEF Sound
<1>6. \E t : Sound(Stored, t) /\ Save(t)
  BY Zenon, <1>3, <1>4, <1>5, SoundTransitive
<1>7. CoinTypes' /\ proxyBindings' \subseteq Delegators \X Delegators
  BY Zenon DEF handleMsgAddShares, ValidateAddShares, coinVars, CoinTypes, Inv, TypeOK
<1>8. QED
  BY Zenon, <1>6, <1>7 DEF DelegatorTx, handleMsgAddShares


\* unbindProxy keeps the store well-formed.
LEMMA UnbindSound ==
  ASSUME NEW s, StoreOk(s), now \in Nat, NEW d \in Delegators
  PROVE  Sound(s, Unbind(s, d))
<1> DEFINE t == UpdateProxy(s, d, -s.del[d].tokens)
           u == [t EXCEPT !.del = [t.del EXCEPT ![d] = [t.del[d] EXCEPT !.proxy = NoProxy]]]
<1>1. s.del[d].tokens \in Nat
  BY Zenon, StoreFields
<1>2. -s.del[d].tokens \in Int
  BY <1>1
<1>3. Sound(s, t)
  BY Zenon, <1>2, UpdateProxySound
<1>4. Unbind(s, d) = u
  BY Zenon DEF Unbind
<1>5. Sound(t, u)
  <2> HIDE DEF t
  <2>1. [t.del[d] EXCEPT !.proxy = NoProxy] \in DelegatorRecord
    BY <1>3, StoreFields, DelegatorEdits, ZenonT(60) DEF Sound
  <2>2. QED
    BY Zenon, <1>3, <2>1, SetDelegatorSound DEF Sound
<1>6. QED
  BY <1>3, <1>4, <1>5, SoundTransitive, ZenonT(60)

\* MsgUnbindProxy.
LEMMA UnbindProxyTx ==
  ASSUME Inv, NEW d \in Delegators, handleMsgUnbindProxy(d)
  PROVE  DelegatorTx
<1>1. StoreOk(Stored) /\ now \in Nat
  BY Zenon, StoredOk DEF Inv, TypeOK
<1>2. Sound(Stored, Unbind(Stored, d)) /\ Save(Unbind(Stored, d))
  BY Zenon, <1>1, UnbindSound DEF handleMsgUnbindProxy
<1>3. CoinTypes' /\ proxyBindings' \subseteq Delegators \X Delegators
  BY Zenon DEF handleMsgUnbindProxy, coinVars, CoinTypes, Inv, TypeOK
<1>4. QED
  BY Zenon, <1>2, <1>3 DEF DelegatorTx, handleMsgUnbindProxy

\* MsgBindProxy.
LEMMA BindProxyTx ==
  ASSUME Inv, NEW d \in Delegators, NEW p \in Delegators, handleMsgBindProxy(d, p)
  PROVE  DelegatorTx
<1> DEFINE old == del[d].proxy
           s0 == IF old = NoProxy THEN Stored ELSE Unbind(Stored, d)
           total == del[p].total + del[d].tokens
           s == [s0 EXCEPT !.del = [@ EXCEPT ![d].proxy = p, ![d].isProxy = FALSE, ![p].total = total]]
           rd == [[s0.del[d] EXCEPT !.proxy = p] EXCEPT !.isProxy = FALSE]
           d1 == [s0.del EXCEPT ![d] = rd]
           rp == [d1[p] EXCEPT !.total = total]
           d2 == [d1 EXCEPT ![p] = rp]
<1>1. StoreOk(Stored) /\ now \in Nat
  BY StoredOk, ZenonT(60) DEF Inv, TypeOK
<1>2. total \in Int /\ total + del[p].tokens \in Int /\ del[p].total + del[p].tokens \in Int
  BY DEF Inv, TypeOK, DelegatorRecord
<1>3. Sound(Stored, s0) /\ StoreOk(s0)
  BY <1>1, UnbindSound, SMTT(60) DEF Sound, SameStanding
<1>4. \/ Save(UpdateShares(Stored, p, del[p].total + del[p].tokens))
      \/ Save(UpdateShares(s, p, total + del[p].tokens))
  BY Zenon DEF handleMsgBindProxy, ValidateBindProxy
<1>5. \E t : Sound(Stored, t) /\ Save(t)
  <2> HIDE DEF s0, total
  <2>1. s0.del \in [Delegators -> DelegatorRecord]
    BY Zenon, <1>3 DEF StoreOk, Store
  <2>2. [s0.del[d] EXCEPT !.proxy = p] \in DelegatorRecord
    BY Zenon, <2>1, DelegatorEdits
  <2>3. rd \in DelegatorRecord
    BY <2>2, DelegatorEdits, ZenonT(60)
  <2>4. d1 \in [Delegators -> DelegatorRecord]
    BY Zenon, <2>1, <2>3
  <2>5. rp \in DelegatorRecord
    <3> HIDE DEF d1
    <3> QED
      BY Zenon, <1>2, <2>4, DelegatorEdits
  <2>6. d2 \in [Delegators -> DelegatorRecord]
    BY Zenon, <2>4, <2>5
  <2>7. s = [s0 EXCEPT !.del = d2]
    BY ZenonT(60)
  <2> HIDE DEF d2, s
  <2>8. Sound(s0, s)
    BY Zenon, <1>3, <2>6, <2>7 DEF Sound, StoreOk, Store, SameStanding
  <2>9. Sound(s, UpdateShares(s, p, total + del[p].tokens))
    BY <1>1, <1>2, <2>8, UpdateSharesSound, ZenonT(60) DEF Sound
  <2>10. Sound(Stored, UpdateShares(Stored, p, del[p].total + del[p].tokens))
    BY Zenon, <1>1, <1>2, UpdateSharesSound
  <2>11. QED
    BY Zenon, <1>3, <1>4, <2>8, <2>9, <2>10, SoundTransitive
<1>6. CoinTypes'
  BY ZenonT(60) DEF handleMsgBindProxy, ValidateBindProxy, coinVars, CoinTypes, Inv, TypeOK
<1>7. proxyBindings' \subseteq Delegators \X Delegators
  <2>1. \/ UNCHANGED proxyBindings
        \/ proxyBindings' = (proxyBindings \ {<<old, d>>}) \cup {<<p, d>>}
    BY ZenonT(60) DEF handleMsgBindProxy, ValidateBindProxy
  <2>2. QED
    BY <2>1 DEF Inv, TypeOK
<1>8. QED
  BY <1>5, <1>6, <1>7, ZenonT(60) DEF DelegatorTx, handleMsgBindProxy

\* MsgRegProxy, registering.
LEMMA RegProxyTx ==
  ASSUME Inv, NEW d \in Delegators, regProxy(d)
  PROVE  DelegatorTx
<1> DEFINE r == [Stored.del[d] EXCEPT !.isProxy = TRUE]
           s == [Stored EXCEPT !.del = [Stored.del EXCEPT ![d] = r]]
<1>1. StoreOk(Stored) /\ now \in Nat
  BY Zenon, StoredOk DEF Inv, TypeOK
<1>2. del[d].tokens \in Int
  BY DEF Inv, TypeOK, DelegatorRecord
<1>3. r \in DelegatorRecord
  BY <1>1, StoreFields, DelegatorEdits, ZenonT(60)
<1>4. Sound(Stored, s)
  BY <1>1, <1>3, SetDelegatorSound, ZenonT(60)
<1>5. Save(UpdateShares(s, d, del[d].tokens))
  BY Zenon DEF regProxy
<1>6. \E t : Sound(Stored, t) /\ Save(t)
  <2> HIDE DEF s
  <2> QED
    BY Zenon, <1>1, <1>2, <1>4, <1>5, UpdateSharesSound, SoundTransitive DEF Sound
<1>7. CoinTypes' /\ proxyBindings' \subseteq Delegators \X Delegators
  BY Zenon DEF regProxy, coinVars, CoinTypes, Inv, TypeOK
<1>8. QED
  BY Zenon, <1>6, <1>7 DEF DelegatorTx, regProxy

\* MsgRegProxy, unregistering.
LEMMA UnregProxyTx ==
  ASSUME Inv, NEW d \in Delegators, unregProxy(d)
  PROVE  DelegatorTx
<1> DEFINE c == ClearProxy(d)
           r1 == [c[d] EXCEPT !.isProxy = FALSE]
           r == [r1 EXCEPT !.total = 0]
           dl == [c EXCEPT ![d] = r]
           s == [Stored EXCEPT !.del = [c EXCEPT ![d].isProxy = FALSE, ![d].total = 0]]
<1>1. StoreOk(Stored) /\ now \in Nat
  BY Zenon, StoredOk DEF Inv, TypeOK
<1>2. del[d].tokens \in Int
  BY DEF Inv, TypeOK, DelegatorRecord
<1>3. c \in [Delegators -> DelegatorRecord]
  BY DelegatorEdits, ZenonT(60) DEF ClearProxy, Inv, TypeOK
<1>4. Save(UpdateShares(s, d, del[d].tokens))
  BY Zenon DEF unregProxy
<1>5. \E t : Sound(Stored, t) /\ Save(t)
  <2> HIDE DEF c
  <2>1. r1 \in DelegatorRecord
    BY <1>3, DelegatorEdits, ZenonT(60)
  <2>2. r \in DelegatorRecord
    <3> HIDE DEF r1
    <3> QED
      BY <2>1, DelegatorEdits
  <2>3. dl \in [Delegators -> DelegatorRecord]
    BY Zenon, <1>3, <2>2
  <2>4. s = [Stored EXCEPT !.del = dl]
    BY ZenonT(60)
  <2> HIDE DEF dl, s
  <2>5. Sound(Stored, s)
    BY Zenon, <1>1, <2>3, <2>4 DEF Sound, StoreOk, Store, SameStanding
  <2>6. QED
    BY Zenon, <1>1, <1>2, <1>4, <2>5, UpdateSharesSound, SoundTransitive DEF Sound
<1>6. CoinTypes' /\ proxyBindings' \subseteq Delegators \X Delegators
  BY Zenon DEF unregProxy, coinVars, CoinTypes, Inv, TypeOK
<1>7. QED
  BY Zenon, <1>5, <1>6 DEF DelegatorTx, unregProxy

----------------------------------------------------------------------------
(* Transactions of validators, and slashing *)

\* MsgCreateValidator: the operator had no record, so it is in no other table.
LEMMA CreateValidatorInv ==
  ASSUME Inv, UNCHANGED blockVars, NEW v \in Validators, NEW m \in MsdChoices,
         handleMsgCreateValidator(v, m)
  PROVE  Inv'
<1> DEFINE r == [status |-> "unbonded", jailed |-> FALSE, shares |-> MsdShares,
                 msd |-> m, unbondingTime |-> 0]
<1>1. r \in ValidatorRecord
  BY StakingAssumption, InstanceAssumption, SMTT(60) DEF ValidatorRecord, Status, MsdShares
<1>2. /\ val' = [val EXCEPT ![v] = r]
      /\ powerIndex' = Reindex(powerIndex, val, val', {v})
      /\ ~Exists(val, v)
      /\ AccountToBonded(v, m)
      /\ UNCHANGED <<lastPower, lastTotalPower, abandoned, validatorQueue, del, sharesTo,
                     proxyBindings, undelegation, undelegateQueue>>
  BY Zenon DEF handleMsgCreateValidator, ValidateCreateValidator, delVars
<1> HIDE DEF r
<1>3. val' \in [Validators -> ValidatorRecord]
  BY Zenon, <1>1, <1>2 DEF Inv, TypeOK
<1>4. powerIndex' = ExactIndex(val')
  <2> DEFINE vs == {v}
  <2>1. powerIndex = ExactIndex(val)
    BY Zenon DEF Inv, PowerIndexExact, ExactIndex
  <2>2. vs \in SUBSET Validators /\ \A w \in Validators \ vs : val'[w] = val[w]
    BY Zenon, <1>2 DEF Inv, TypeOK
  <2>3. powerIndex' = Reindex(powerIndex, val, val', vs)
    BY Zenon, <1>2
  <2> HIDE DEF vs
  <2>4. QED
    BY Zenon, <2>1, <2>2, <2>3, ReindexExact
<1>5. CoinTypes'
  BY <1>2, AccountToBondedType, InstanceAssumption, ZenonT(60) DEF Inv, TypeOK, CoinTypes, Accounts
<1>6. TypeOK'
  BY <1>2, <1>3, <1>4, <1>5, ExactIndexType, ZenonT(60) DEF Inv, TypeOK, CoinTypes, blockVars
<1>7. PowerIndexExact'
  BY Zenon, <1>4 DEF PowerIndexExact, ExactIndex, PowerKey, Exists
<1>8. val[v].status = "none" /\ val'[v].status = "unbonded"
      /\ \A w \in Validators \ {v} : val'[w] = val[w]
  BY Zenon, <1>2 DEF r, Inv, TypeOK, Exists
<1>9. BondedIffInLastSet' /\ ValidatorQueueExact'
  BY <1>2, <1>8 DEF Inv, BondedIffInLastSet, ValidatorQueueExact
<1>10. TendermintHasLastSet' /\ NeverHalts'
  BY Zenon, <1>2 DEF Inv, TendermintHasLastSet, NeverHalts, blockVars
<1>11. AbandonedOk'
  <2>1. AbandonedSet' = AbandonedSet /\ AbandonedSet \subseteq Validators
    BY <1>2, SMTT(60) DEF AbandonedSet, Inv, TypeOK
  <2>2. QED
    BY Zenon, <1>2, <1>8, <2>1 DEF Inv, AbandonedOk, blockVars
<1>12. QED
  BY Zenon, <1>6, <1>7, <1>9, <1>10, <1>11 DEF Inv

\* Members of the list of abandoned validators after Append.
LEMMA AppendAbandoned ==
  ASSUME abandoned \in Seq(Validators), NEW v \in Validators, abandoned' = Append(abandoned, v)
  PROVE  /\ AbandonedSet' = AbandonedSet \cup {v}
         /\ AbandonedSet \subseteq Validators
         /\ abandoned' \in Seq(Validators) /\ abandoned' # <<>>
<1>1. /\ Len(abandoned) \in Nat
      /\ Len(abandoned') = Len(abandoned) + 1
      /\ abandoned'[Len(abandoned) + 1] = v
      /\ \A i \in 1..Len(abandoned) : abandoned'[i] = abandoned[i]
      /\ abandoned' \in Seq(Validators)
      /\ \A i \in 1..Len(abandoned) : abandoned[i] \in Validators
  BY SMTT(60)
<1>2. 1..Len(abandoned') = (1..Len(abandoned)) \cup {Len(abandoned) + 1}
  BY <1>1
<1>3. AbandonedSet' = AbandonedSet \cup {v}
  BY <1>1, <1>2 DEF AbandonedSet
<1>4. abandoned' # <<>>
  BY <1>1
<1>5. QED
  BY Zenon, <1>1, <1>3, <1>4 DEF AbandonedSet

\* The list after DeleteAbandonedValidatorAddrs.
LEMMA NoAbandoned ==
  ASSUME NEW seq, seq = <<>>
  PROVE  seq \in Seq(Validators) /\ {seq[i] : i \in 1..Len(seq)} = {}
  OBVIOUS

\* MsgDestroyValidator.
LEMMA DestroyValidatorInv ==
  ASSUME Inv, UNCHANGED blockVars, phase = "deliver", NEW v \in Validators,
         handleMsgDestroyValidator(v)
  PROVE  Inv'
<1> DEFINE remain == RemainShares(v)
           r == IF val[v].status = "unbonded" /\ remain = 0 THEN NoValidator
                ELSE [val[v] EXCEPT !.msd = 0, !.jailed = TRUE, !.shares = remain]
<1>1. /\ Exists(val, v)
      /\ val' = [val EXCEPT ![v] = r]
      /\ powerIndex' = powerIndex \ {PowerKey(val, v)}
      /\ abandoned' = IF val[v].status = "bonded" THEN Append(abandoned, v) ELSE abandoned
      /\ BondedToNotBonded(val[v].msd) /\ AddUndelegation(v, val[v].msd)
      /\ UNCHANGED <<lastPower, lastTotalPower, validatorQueue, del, sharesTo, proxyBindings, balance>>
  BY Zenon DEF handleMsgDestroyValidator, WithdrawMinSelfDelegation, delVars
<1>2. val[v] \in ValidatorRecord
  BY Zenon DEF Inv, TypeOK
<1>3. remain \in Int
  BY <1>2, StakingAssumption DEF RemainShares, MsdShares, ValidatorRecord
<1>4. /\ r \in ValidatorRecord
      /\ \/ r.jailed /\ r.status = val[v].status /\ r.unbondingTime = val[v].unbondingTime
         \/ val[v].status = "unbonded" /\ r.status = "none" /\ ~r.jailed
  <2> HIDE DEF remain
  <2> QED
    BY <1>2, <1>3, ZenonT(60) DEF ValidatorRecord, NoValidator, Status
<1> HIDE DEF r
<1>5. /\ val' \in [Validators -> ValidatorRecord]
      /\ val'[v] = r
      /\ \A w \in Validators \ {v} : val'[w] = val[w]
  BY Zenon, <1>1, <1>4 DEF Inv, TypeOK
<1>6. powerIndex' = ExactIndex(val')
  BY <1>1, <1>4, <1>5, SMTT(60) DEF Inv, PowerIndexExact, ExactIndex, PowerKey, Exists
<1>7. CoinTypes'
  <2>1. val[v].msd \in Nat /\ v \in Accounts /\ now \in Nat /\ CoinTypes
    BY Zenon, <1>2 DEF ValidatorRecord, Accounts, Inv, TypeOK, CoinTypes
  <2>2. QED
    BY Zenon, <1>1, <2>1, AddUndelegationType
<1>8. /\ abandoned' \in Seq(Validators)
      /\ AbandonedSet \subseteq Validators
      /\ AbandonedSet' = IF val[v].status = "bonded" THEN AbandonedSet \cup {v} ELSE AbandonedSet
  <2>1. CASE val[v].status = "bonded"
    BY Zenon, <1>1, <2>1, AppendAbandoned DEF Inv, TypeOK
  <2>2. CASE val[v].status # "bonded"
    BY <1>1, <2>2, SMTT(60) DEF Inv, TypeOK, AbandonedSet
  <2>3. QED
    BY Zenon, <2>1, <2>2
<1>9. TypeOK'
  BY Zenon, <1>1, <1>5, <1>6, <1>7, <1>8, ExactIndexType DEF Inv, TypeOK, CoinTypes, blockVars
<1>10. PowerIndexExact'
  BY Zenon, <1>6 DEF PowerIndexExact, ExactIndex, PowerKey, Exists
<1>11. BondedIffInLastSet' /\ ValidatorQueueExact'
  BY <1>1, <1>4, <1>5, SMTT(60) DEF Inv, BondedIffInLastSet, ValidatorQueueExact
<1>12. TendermintHasLastSet' /\ NeverHalts'
  BY Zenon, <1>1 DEF Inv, TendermintHasLastSet, NeverHalts, blockVars
<1>13. AbandonedOk'
  BY Zenon, <1>4, <1>5, <1>8 DEF Inv, AbandonedOk, blockVars
<1>14. QED
  BY Zenon, <1>9, <1>10, <1>11, <1>12, <1>13 DEF Inv

\* Jail, called by the BeginBlocker of slashing.
LEMMA JailInv ==
  ASSUME Inv, UNCHANGED blockVars, phase = "begin", NEW v \in Validators, Jail(v)
  PROVE  Inv'
<1> DEFINE r == [val[v] EXCEPT !.jailed = TRUE]
<1>1. /\ val[v].status \in {"bonded", "unbonding"}
      /\ val' = [val EXCEPT ![v] = r]
      /\ powerIndex' = powerIndex \ {PowerKey(val, v)}
      /\ abandoned' = Append(abandoned, v)
      /\ UNCHANGED <<lastPower, lastTotalPower, validatorQueue, del, sharesTo, proxyBindings,
                     undelegation, undelegateQueue, balance, bondedPool, notBondedPool>>
  BY Zenon DEF Jail, delVars, coinVars
<1>2. /\ r \in ValidatorRecord
      /\ r.jailed /\ r.status = val[v].status /\ r.unbondingTime = val[v].unbondingTime
  <2>1. val[v] \in ValidatorRecord
    BY Zenon DEF Inv, TypeOK
  <2>2. QED
    BY <2>1, ZenonT(60) DEF ValidatorRecord
<1> HIDE DEF r
<1>3. /\ val' \in [Validators -> ValidatorRecord]
      /\ val'[v] = r
      /\ \A w \in Validators \ {v} : val'[w] = val[w]
  BY Zenon, <1>1, <1>2 DEF Inv, TypeOK
<1>4. powerIndex' = ExactIndex(val')
  BY <1>1, <1>2, <1>3, SMTT(60) DEF Inv, PowerIndexExact, ExactIndex, PowerKey, Exists
<1>5. /\ abandoned' \in Seq(Validators)
      /\ AbandonedSet \subseteq Validators
      /\ AbandonedSet' = AbandonedSet \cup {v}
  BY Zenon, <1>1, AppendAbandoned DEF Inv, TypeOK
<1>6. TypeOK'
  BY Zenon, <1>1, <1>3, <1>4, <1>5, ExactIndexType DEF Inv, TypeOK, blockVars
<1>7. PowerIndexExact'
  BY Zenon, <1>4 DEF PowerIndexExact, ExactIndex, PowerKey, Exists
<1>8. BondedIffInLastSet' /\ ValidatorQueueExact'
  BY <1>1, <1>2, <1>3, SMTT(60) DEF Inv, BondedIffInLastSet, ValidatorQueueExact
<1>9. TendermintHasLastSet' /\ NeverHalts'
  BY Zenon, <1>1 DEF Inv, TendermintHasLastSet, NeverHalts, blockVars
<1>10. AbandonedOk'
  BY Zenon, <1>1, <1>2, <1>3, <1>5 DEF Inv, AbandonedOk, blockVars
<1>11. QED
  BY Zenon, <1>6, <1>7, <1>8, <1>9, <1>10 DEF Inv

\* Unjail: the validator was not abandoned in this block.
LEMMA UnjailInv ==
  ASSUME Inv, UNCHANGED blockVars, NEW v \in Validators, Unjail(v)
  PROVE  Inv'
<1> DEFINE r == [val[v] EXCEPT !.jailed = FALSE]
<1>1. /\ v \notin AbandonedSet
      /\ val' = [val EXCEPT ![v] = r]
      /\ powerIndex' = Reindex(powerIndex, val, val', {v})
      /\ UNCHANGED <<lastPower, lastTotalPower, abandoned, validatorQueue, del, sharesTo,
                     proxyBindings, undelegation, undelegateQueue, balance, bondedPool, notBondedPool>>
  BY Zenon DEF Unjail, delVars, coinVars
<1>2. /\ r \in ValidatorRecord
      /\ ~r.jailed /\ r.status = val[v].status /\ r.unbondingTime = val[v].unbondingTime
  <2>1. val[v] \in ValidatorRecord
    BY Zenon DEF Inv, TypeOK
  <2>2. QED
    BY <2>1, ZenonT(60) DEF ValidatorRecord
<1> HIDE DEF r
<1>3. /\ val' \in [Validators -> ValidatorRecord]
      /\ val'[v] = r
      /\ \A w \in Validators \ {v} : val'[w] = val[w]
  BY Zenon, <1>1, <1>2 DEF Inv, TypeOK
<1>4. powerIndex' = ExactIndex(val')
  <2> DEFINE vs == {v}
  <2>1. powerIndex = ExactIndex(val)
    BY Zenon DEF Inv, PowerIndexExact, ExactIndex
  <2>2. vs \in SUBSET Validators /\ \A w \in Validators \ vs : val'[w] = val[w]
    BY Zenon, <1>3
  <2>3. powerIndex' = Reindex(powerIndex, val, val', vs)
    BY Zenon, <1>1
  <2> HIDE DEF vs
  <2>4. QED
    BY Zenon, <2>1, <2>2, <2>3, ReindexExact
<1>5. AbandonedSet' = AbandonedSet /\ AbandonedSet \subseteq Validators
  BY <1>1, SMTT(60) DEF AbandonedSet, Inv, TypeOK
<1>6. TypeOK'
  BY <1>1, <1>3, <1>4, <1>5, ExactIndexType, ZenonT(60) DEF Inv, TypeOK, blockVars
<1>7. PowerIndexExact'
  BY Zenon, <1>4 DEF PowerIndexExact, ExactIndex, PowerKey, Exists
<1>8. BondedIffInLastSet' /\ ValidatorQueueExact'
  BY <1>1, <1>2, <1>3, SMTT(60) DEF Inv, BondedIffInLastSet, ValidatorQueueExact
<1>9. TendermintHasLastSet' /\ NeverHalts'
  BY Zenon, <1>1 DEF Inv, TendermintHasLastSet, NeverHalts, blockVars
<1>10. AbandonedOk'
  BY Zenon, <1>1, <1>2, <1>3, <1>5 DEF Inv, AbandonedOk, blockVars
<1>11. QED
  BY Zenon, <1>6, <1>7, <1>8, <1>9, <1>10 DEF Inv

----------------------------------------------------------------------------
(* The EndBlocker *)

\* bondValidator on the validators of up and beginUnbondingValidator on those of down, with
\* the updates of the last validator set: what both kinds of change have in common.
SetChange(up, down, updates) ==
  /\ \A v \in up : val[v].status # "bonded" /\ Exists(val, v) /\ ~val[v].jailed /\ v \notin down
  /\ \A v \in down : val[v].status = "bonded"
  /\ \A v \in Validators : v \in down => v \in DOMAIN updates /\ updates[v] = 0
  /\ \A v \in Validators : v \in up => v \in DOMAIN updates
  /\ \A v \in Validators \cap DOMAIN updates :
       updates[v] \in Int /\ (v \notin down => updates[v] # 0 /\ (v \in up \/ val[v].status = "bonded"))
  /\ \A v \in Validators : val[v].jailed /\ val[v].status = "bonded" => v \in down

SetChangeStep(up, down, updates) ==
  /\ val' = ChangedStatus(up, down)
  /\ powerIndex' = Reindex(powerIndex, val, val', up \cup down)
  /\ validatorQueue' = ChangedQueue(up, down)
  /\ UpdateValidatorSet(updates)
  /\ abandoned' = <<>>
  /\ UNCHANGED <<del, sharesTo, proxyBindings, undelegation, undelegateQueue, balance,
                 bondedPool, notBondedPool, params, halted, height, now>>
  /\ epoch' \in Nat \ {0} /\ endOfLastEpoch' \in Nat /\ phase' = "mature"

LEMMA ChangeSetInv ==
  ASSUME Inv, NEW up \in SUBSET Validators, NEW down \in SUBSET Validators, NEW updates,
         SetChange(up, down, updates), SetChangeStep(up, down, updates)
  PROVE  Inv'
<1> DEFINE time == now + UnbondingTime
<1>1. time \in Nat /\ now \in Nat
  BY UnbondingTimeType DEF Inv, TypeOK
<1> HIDE DEF time
<1>2. /\ val' \in [Validators -> ValidatorRecord]
      /\ \A v \in Validators :
           /\ val'[v].jailed = val[v].jailed
           /\ v \in down => val'[v].status = "unbonding" /\ val'[v].unbondingTime = time
           /\ v \in up => val'[v].status = "bonded"
           /\ v \notin up \cup down => val'[v] = val[v]
  <2> DEFINE bond(v) == [val[v] EXCEPT !.status = "bonded"]
             unbond(v) == [val[v] EXCEPT !.status = "unbonding", !.unbondingTime = time]
  <2>1. val \in [Validators -> ValidatorRecord]
    BY Zenon DEF Inv, TypeOK
  <2>2. \A v \in Validators : /\ bond(v) \in ValidatorRecord
                              /\ bond(v).status = "bonded" /\ bond(v).jailed = val[v].jailed
    BY Zenon, <2>1 DEF ValidatorRecord, Status
  <2>3. \A v \in Validators : /\ unbond(v) \in ValidatorRecord
                              /\ unbond(v).status = "unbonding" /\ unbond(v).jailed = val[v].jailed
                              /\ unbond(v).unbondingTime = time
    BY <1>1, <2>1, ZenonT(60) DEF ValidatorRecord, Status
  <2>4. val' = [v \in Validators |->
                 IF v \in down THEN unbond(v) ELSE IF v \in up THEN bond(v) ELSE val[v]]
    BY ZenonT(60) DEF SetChangeStep, ChangedStatus, time
  <2>5. \A v \in up : v \notin down
    BY Zenon DEF SetChange
  <2> HIDE DEF bond, unbond
  <2>6. val' \in [Validators -> ValidatorRecord]
    BY Zenon, <2>1, <2>2, <2>3, <2>4
  <2>7. QED
    BY Zenon, <2>1, <2>2, <2>3, <2>4, <2>5, <2>6
<1>3. powerIndex' = ExactIndex(val')
  <2>1. powerIndex = ExactIndex(val)
    BY Zenon DEF Inv, PowerIndexExact, ExactIndex
  <2>2. \A w \in Validators \ (up \cup down) : val'[w] = val[w]
    BY Zenon, <1>2
  <2>3. up \cup down \in SUBSET Validators
    BY Zenon
  <2>4. powerIndex' = Reindex(powerIndex, val, val', up \cup down)
    BY Zenon DEF SetChangeStep
  <2>5. QED
    BY Zenon, <2>1, <2>2, <2>3, <2>4, ReindexExact
<1>4. /\ lastPower' \in [Validators -> Int]
      /\ tendermint' = lastPower'
      /\ \A v \in Validators : lastPower'[v] = IF v \in DOMAIN updates THEN updates[v] ELSE lastPower[v]
  BY Zenon DEF Inv, TypeOK, SetChange, SetChangeStep, UpdateValidatorSet, TendermintHasLastSet
<1>5. validatorQueue' = (validatorQueue \ {<<val[v].unbondingTime, v>> : v \in up})
                           \cup {<<time, v>> : v \in down}
  BY Zenon DEF SetChangeStep, ChangedQueue, time
<1>6. validatorQueue' \subseteq Nat \X Validators
  <2>1. validatorQueue \subseteq Nat \X Validators
    BY Zenon DEF Inv, TypeOK
  <2>2. QED
    BY <1>1, <1>5, <2>1
<1>7. TypeOK'
  <2>1. abandoned' \in Seq(Validators)
    BY NoAbandoned, ZenonT(60) DEF SetChangeStep
  <2>2. phase' \in Phases
    BY Zenon DEF SetChangeStep, Phases
  <2>3. QED
    BY <1>2, <1>3, <1>4, <1>6, <2>1, <2>2, ExactIndexType, ZenonT(60) DEF SetChangeStep, Inv, TypeOK
<1>8. PowerIndexExact'
  BY <1>3, ZenonT(60) DEF PowerIndexExact, ExactIndex, PowerKey, Exists
<1>9. BondedIffInLastSet'
  <2>1. \A v \in Validators : val[v].status = "bonded" <=> lastPower[v] # 0
    BY Zenon DEF Inv, BondedIffInLastSet
  <2>2. QED
    BY <1>2, <1>4, <2>1 DEF SetChange, BondedIffInLastSet
<1>10. ValidatorQueueExact'
  <2>1. \A v \in Validators : val'[v].status = "unbonding" <=>
          v \in down \/ (v \notin up /\ val[v].status = "unbonding")
    BY Zenon, <1>2 DEF SetChange
  <2>2. \A v \in Validators : v \notin up \cup down => val'[v].unbondingTime = val[v].unbondingTime
    BY Zenon, <1>2
  <2>3. QED
    BY <1>2, <1>5, <2>1, <2>2, SMTT(60) DEF SetChange, Inv, ValidatorQueueExact
<1>11. TendermintHasLastSet' /\ NeverHalts'
  BY Zenon, <1>4 DEF SetChangeStep, Inv, TendermintHasLastSet, NeverHalts
<1>12. AbandonedOk'
  <2>1. AbandonedSet' = {} /\ abandoned' = <<>>
    BY NoAbandoned, ZenonT(60) DEF SetChangeStep, AbandonedSet
  <2>2. \A v \in Validators : ~(val'[v].jailed /\ val'[v].status = "bonded")
    BY Zenon, <1>2 DEF SetChange
  <2>3. QED
    BY <2>1, <2>2, ZenonT(60) DEF AbandonedOk
<1>13. QED
  BY Zenon, <1>7, <1>8, <1>9, <1>10, <1>11, <1>12 DEF Inv

----------------------------------------------------------------------------
(* The EndBlocker, and the theorems *)

\* What a key of the power index says about its validator.
LEMMA KeyFacts ==
  ASSUME Inv, NEW k \in powerIndex
  PROVE  /\ k[2] \in Validators
         /\ Exists(val, k[2]) /\ ~val[k[2]].jailed
         /\ Power(val[k[2]].shares) \in Int
<1>1. PICK v \in Validators : k = <<Power(val[v].shares), v>> /\ Exists(val, v) /\ ~val[v].jailed
  BY Zenon DEF Inv, PowerIndexExact, PowerKey
<1>2. val[v].shares \in Int
  BY Zenon DEF Inv, TypeOK, ValidatorRecord
<1>3. QED
  BY Zenon, <1>1, <1>2, PowerType

\* The election at the end of an epoch: everyone it reaches exists and is not jailed, and
\* everyone it drops is bonded, so it cannot panic.
LEMMA ElectionFacts ==
  ASSUME Inv
  PROVE  /\ Elected \subseteq Validators
         /\ \A v \in Elected : Exists(val, v) /\ ~val[v].jailed /\ Powers[v] \in Int /\ Powers[v] # 0
         /\ \A v \in Validators : lastPower[v] # 0 <=> val[v].status = "bonded"
         /\ ~ApplyPanics
<1>1. \A k \in ApplyReached : k \in powerIndex
  BY Zenon DEF ApplyReached
<1>2. /\ Elected \subseteq Validators
      /\ \A v \in Elected : Exists(val, v) /\ ~val[v].jailed /\ Powers[v] \in Int /\ Powers[v] # 0
  BY Zenon, <1>1, KeyFacts DEF Elected, MayBeElected, HasPower, Powers
<1>3. \A v \in Validators : lastPower[v] # 0 <=> val[v].status = "bonded"
  BY Zenon DEF Inv, BondedIffInLastSet
<1>4. ~ApplyPanics
  BY Zenon, <1>1, <1>3, KeyFacts DEF ApplyPanics, noLongerBonded, getLastValidatorsByAddr
<1>5. QED
  BY Zenon, <1>2, <1>3, <1>4

\* The election keeps the invariant.
LEMMA EndEpochInv ==
  ASSUME Inv, EndEpoch
  PROVE  Inv'
<1> DEFINE up == {v \in Elected : val[v].status # "bonded"}
           down == {v \in Validators \ Elected : lastPower[v] # 0}
           updates == [v \in down \cup {w \in Elected : lastPower[w] # Powers[w]} |->
                         IF v \in Elected THEN Powers[v] ELSE 0]
<1>2. /\ Elected \subseteq Validators
      /\ \A v \in Elected : Exists(val, v) /\ ~val[v].jailed /\ Powers[v] \in Int /\ Powers[v] # 0
  BY Zenon, ElectionFacts
<1>3. \A v \in Validators : lastPower[v] # 0 <=> val[v].status = "bonded"
  BY Zenon, ElectionFacts
<1>4. ~ApplyPanics
  BY Zenon, ElectionFacts
<1>5. ~halted
  BY Zenon DEF EndEpoch
<1>6. /\ epoch' = params.epoch /\ endOfLastEpoch' = height
      /\ ApplyAndReturnValidatorSetUpdates
      /\ abandoned' = <<>> /\ phase' = "mature"
      /\ UNCHANGED <<delVars, coinVars, params, halted, height, now>>
  BY Zenon, <1>4 DEF EndEpoch
<1>7. /\ epoch' \in Nat \ {0} /\ endOfLastEpoch' \in Nat
      /\ UNCHANGED <<del, sharesTo, proxyBindings, undelegation, undelegateQueue, balance,
                     bondedPool, notBondedPool, params, halted, height, now>>
  BY Zenon, <1>6 DEF Inv, TypeOK, delVars, coinVars
<1>8. /\ val' = ChangedStatus(up, down)
      /\ powerIndex' = Reindex(powerIndex, val, val', up \cup down)
      /\ validatorQueue' = ChangedQueue(up, down)
      /\ UpdateValidatorSet(updates)
  BY Zenon, <1>6 DEF ApplyAndReturnValidatorSetUpdates, noLongerBonded, getLastValidatorsByAddr
<1>9. /\ up \in SUBSET Validators /\ down \in SUBSET Validators
      /\ \A v \in up : val[v].status # "bonded" /\ Exists(val, v) /\ ~val[v].jailed /\ v \notin down
      /\ \A v \in down : val[v].status = "bonded"
  BY Zenon, <1>2, <1>3
<1>10. /\ \A v \in Validators : v \in down => v \in DOMAIN updates /\ updates[v] = 0
       /\ \A v \in Validators : v \in up => v \in DOMAIN updates
       /\ \A v \in Validators \cap DOMAIN updates :
            updates[v] \in Int /\ (v \notin down => updates[v] # 0 /\ (v \in up \/ val[v].status = "bonded"))
  BY <1>2, <1>3, SMTT(60)
<1>11. \A v \in Validators : val[v].jailed /\ val[v].status = "bonded" => v \in down
  BY Zenon, <1>2, <1>3
<1> HIDE DEF up, down, updates
<1>12. QED
  BY Zenon, <1>6, <1>7, <1>8, <1>9, <1>10, <1>11, ChangeSetInv DEF SetChange, SetChangeStep

\* The kick-out within an epoch: candidates are not bonded, the validators on the list are
\* jailed, so none is promoted, and those still bonded are in the last validator set.
LEMMA KickOutFacts ==
  ASSUME Inv
  PROVE  /\ Promoted \subseteq Validators
         /\ \A v \in Promoted : /\ Exists(val, v) /\ ~val[v].jailed /\ val[v].status # "bonded"
                                /\ Powers[v] \in Int /\ Powers[v] # 0
         /\ Discharged \subseteq Validators
         /\ \A v \in Discharged : val[v].status = "bonded" /\ v \notin Promoted
         /\ ~KickOutPanics
<1>1. \A k \in KickOutReached : k \in powerIndex /\ lastPower[k[2]] = 0
  BY Zenon DEF KickOutReached, Candidates
<1>2. \A v \in Validators : lastPower[v] # 0 <=> val[v].status = "bonded"
  BY Zenon DEF Inv, BondedIffInLastSet
<1>3. /\ Promoted \subseteq Validators
      /\ \A v \in Promoted : /\ Exists(val, v) /\ ~val[v].jailed /\ val[v].status # "bonded"
                             /\ Powers[v] \in Int /\ Powers[v] # 0
  BY Zenon, <1>1, <1>2, KeyFacts DEF Promoted, MayBeElected, HasPower, Powers
<1>4. AbandonedSet \subseteq Validators
  BY DEF Inv, TypeOK, AbandonedSet
<1>5. \A v \in AbandonedSet : val[v].jailed /\ val[v].status \in {"bonded", "unbonding"}
  BY Zenon DEF Inv, AbandonedOk
<1>6. /\ Discharged \subseteq Validators
      /\ \A v \in Discharged : val[v].status = "bonded" /\ v \notin Promoted
  BY Zenon, <1>3, <1>4, <1>5 DEF Discharged
<1>7. ~KickOutPanics
  BY Zenon, <1>1, <1>2, <1>3, <1>4, <1>5, <1>6, KeyFacts DEF KickOutPanics, Exists
<1>8. QED
  BY Zenon, <1>3, <1>6, <1>7

\* The kick-out keeps the invariant.
LEMMA KickOutInv ==
  ASSUME Inv, KickOut
  PROVE  Inv'
<1> DEFINE updates == [v \in Promoted \cup Discharged |-> IF v \in Discharged THEN 0 ELSE Powers[v]]
<1>3. /\ Promoted \subseteq Validators
      /\ \A v \in Promoted : /\ Exists(val, v) /\ ~val[v].jailed /\ val[v].status # "bonded"
                             /\ Powers[v] \in Int /\ Powers[v] # 0
  BY Zenon, KickOutFacts
<1>6. /\ Discharged \subseteq Validators
      /\ \A v \in Discharged : val[v].status = "bonded" /\ v \notin Promoted
  BY Zenon, KickOutFacts
<1>7. ~KickOutPanics
  BY Zenon, KickOutFacts
<1>8. /\ KickOutAndReturnValidatorSetUpdates
      /\ abandoned' = <<>> /\ phase' = "mature"
      /\ UNCHANGED <<delVars, coinVars, epoch, endOfLastEpoch, params, halted, height, now>>
  BY Zenon, <1>7 DEF KickOut
<1>9. /\ epoch' \in Nat \ {0} /\ endOfLastEpoch' \in Nat
      /\ UNCHANGED <<del, sharesTo, proxyBindings, undelegation, undelegateQueue, balance,
                     bondedPool, notBondedPool, params, halted, height, now>>
  BY Zenon, <1>8 DEF Inv, TypeOK, delVars, coinVars
<1>10. /\ val' = ChangedStatus(Promoted, Discharged)
       /\ powerIndex' = Reindex(powerIndex, val, val', Promoted \cup Discharged)
       /\ validatorQueue' = ChangedQueue(Promoted, Discharged)
       /\ UpdateValidatorSet(updates)
  BY Zenon, <1>8 DEF KickOutAndReturnValidatorSetUpdates
<1>11. /\ \A v \in Validators : v \in Discharged => v \in DOMAIN updates /\ updates[v] = 0
       /\ \A v \in Validators : v \in Promoted => v \in DOMAIN updates
       /\ \A v \in Validators \cap DOMAIN updates :
            updates[v] \in Int /\ (v \notin Discharged => updates[v] # 0
                                   /\ (v \in Promoted \/ val[v].status = "bonded"))
  BY <1>3, SMTT(60)
<1>12. \A v \in Validators : val[v].jailed /\ val[v].status = "bonded" => v \in Discharged
  BY Zenon DEF Inv, AbandonedOk, Discharged
<1> HIDE DEF updates
<1>13. QED
  BY Zenon, <1>3, <1>6, <1>8, <1>9, <1>10, <1>11, <1>12, ChangeSetInv DEF SetChange, SetChangeStep


\* UnbondAllMatureValidatorQueue: the queue holds unbonding validators only, so the branch
\* that panics is dead, and it keeps those whose time has not come.
LEMMA MatureInv ==
  ASSUME Inv, UnbondAllMatureValidatorQueue
  PROVE  Inv'
<1> DEFINE mature == MatureValidators
           gone == {v \in mature : val[v].shares = 0 /\ val[v].msd = 0}
           free(v) == [val[v] EXCEPT !.status = "unbonded"]
<1>1. \A v \in mature : v \in Validators /\ val[v].status = "unbonding"
  BY Zenon DEF MatureValidators, QueueEnd, Inv, ValidatorQueueExact
<1>2. /\ val' = [v \in Validators |->
                    IF v \in gone THEN NoValidator ELSE IF v \in mature THEN free(v) ELSE val[v]]
      /\ powerIndex' = powerIndex \ {PowerKey(val, v) : v \in gone}
      /\ validatorQueue' = {e \in validatorQueue : e[1] > now}
      /\ phase' = "undelegate"
      /\ UNCHANGED <<lastPower, lastTotalPower, abandoned, del, sharesTo, proxyBindings,
                     undelegation, undelegateQueue, balance, bondedPool, notBondedPool, epoch,
                     endOfLastEpoch, params, tendermint, halted, height, now>>
  BY Zenon, <1>1 DEF QueueEnd, UnbondAllMatureValidatorQueue, delVars, coinVars
<1>3. phase = "mature"
  BY Zenon DEF UnbondAllMatureValidatorQueue
<1>4. \A v \in Validators :
        /\ free(v) \in ValidatorRecord
        /\ free(v).status = "unbonded" /\ free(v).jailed = val[v].jailed /\ free(v).shares = val[v].shares
  <2>1. val \in [Validators -> ValidatorRecord]
    BY Zenon DEF Inv, TypeOK
  <2>2. QED
    BY Zenon, <2>1 DEF ValidatorRecord, Status
<1>5. NoValidator \in ValidatorRecord /\ NoValidator.status = "none" /\ ~NoValidator.jailed
  BY DEF NoValidator, ValidatorRecord, Status
<1> HIDE DEF free
<1>6. val' \in [Validators -> ValidatorRecord]
  BY Zenon, <1>2, <1>4, <1>5 DEF Inv, TypeOK
<1>7. \A v \in Validators :
        /\ v \in gone => val'[v].status = "none" /\ ~val'[v].jailed
        /\ v \in mature \ gone => /\ val'[v].status = "unbonded" /\ val'[v].jailed = val[v].jailed
                                 /\ val'[v].shares = val[v].shares
        /\ v \notin mature => val'[v] = val[v]
  BY Zenon, <1>2, <1>4, <1>5
<1>8. powerIndex' = ExactIndex(val')
  BY <1>1, <1>2, <1>7, SMTT(60) DEF Inv, PowerIndexExact, ExactIndex, PowerKey, Exists
<1>9. TypeOK'
  BY Zenon, <1>2, <1>6, <1>8, ExactIndexType DEF Inv, TypeOK, Phases
<1>10. PowerIndexExact'
  BY Zenon, <1>8 DEF PowerIndexExact, ExactIndex, PowerKey, Exists
<1>11. BondedIffInLastSet'
  BY Zenon, <1>1, <1>2, <1>7 DEF Inv, BondedIffInLastSet
<1>12. ValidatorQueueExact'
  <2>1. \A v \in Validators : val[v].status = "unbonding" =>
          (v \in mature <=> ~(val[v].unbondingTime > now))
    <3>1. \A v \in Validators : val[v].unbondingTime \in Nat
      BY Zenon DEF Inv, TypeOK, ValidatorRecord
    <3>2. now \in Nat
      BY Zenon DEF Inv, TypeOK
    <3>3. QED
      BY <3>1, <3>2 DEF MatureValidators, QueueEnd, Inv, ValidatorQueueExact
  <2>2. \A v \in Validators : val'[v].status = "unbonding" <=> v \notin mature /\ val[v].status = "unbonding"
    BY Zenon, <1>1, <1>7
  <2>3. QED
    BY <1>2, <1>7, <2>1, <2>2, SMTT(60) DEF Inv, ValidatorQueueExact
<1>13. TendermintHasLastSet' /\ NeverHalts'
  BY Zenon, <1>2 DEF Inv, TendermintHasLastSet, NeverHalts
<1>14. AbandonedOk'
  <2>1. abandoned = <<>>
    BY Zenon, <1>3 DEF Inv, AbandonedOk
  <2>2. AbandonedSet = {} /\ AbandonedSet' = {}
    <3>1. abandoned' = <<>>
      BY Zenon, <1>2, <2>1
    <3>2. QED
      BY <2>1, <3>1 DEF AbandonedSet
  <2>3. QED
    BY Zenon, <1>1, <1>2, <1>7, <2>1, <2>2 DEF Inv, AbandonedOk
<1>15. QED
  BY Zenon, <1>9, <1>10, <1>11, <1>12, <1>13, <1>14 DEF Inv

\* A step that leaves the validator tables alone.
LEMMA QuietInv ==
  ASSUME Inv, TypeOK', UNCHANGED <<val, powerIndex, lastPower, abandoned, validatorQueue, tendermint, halted>>,
         phase' \notin {"begin", "deliver"} => abandoned = <<>>
  PROVE  Inv'
<1>1. PowerIndexExact' /\ BondedIffInLastSet' /\ ValidatorQueueExact'
  BY Zenon DEF Inv, PowerIndexExact, BondedIffInLastSet, ValidatorQueueExact, PowerKey, Exists
<1>2. TendermintHasLastSet' /\ NeverHalts'
  BY Zenon DEF Inv, TendermintHasLastSet, NeverHalts
<1>3. AbandonedOk'
  <2>1. AbandonedOk /\ AbandonedSet' = AbandonedSet /\ val' = val /\ abandoned' = abandoned
    BY Zenon DEF Inv, AbandonedSet
  <2>2. QED
    BY Zenon, <2>1 DEF AbandonedOk
<1>4. QED
  BY Zenon, <1>1, <1>2, <1>3 DEF Inv

\* The completion of one undelegation.
LEMMA CompleteInv ==
  ASSUME Inv, NEW t, NEW a, CompleteUndelegation(t, a)
  PROVE  Inv'
<1> DEFINE quantity == undelegation[a].quantity
<1>1. /\ phase = "undelegate"
      /\ <<t, a>> \in undelegateQueue
      /\ undelegateQueue' = undelegateQueue \ {<<t, a>>}
      /\ UNCHANGED <<val, powerIndex, lastPower, lastTotalPower, abandoned, validatorQueue, del,
                     sharesTo, proxyBindings, bondedPool, phase, epoch, endOfLastEpoch, params,
                     tendermint, halted, height, now>>
  BY Zenon DEF CompleteUndelegation, valVars, delVars, blockVars
<1>2. a \in Accounts
  BY Zenon, <1>1 DEF Inv, TypeOK
<1>3. quantity \in Nat /\ notBondedPool \in Nat
  BY Zenon, <1>2 DEF Inv, TypeOK
<1>4. \/ /\ notBondedPool >= quantity
         /\ notBondedPool' = notBondedPool - quantity
         /\ balance' = [balance EXCEPT ![a] = @ + quantity]
         /\ undelegation' = [undelegation EXCEPT ![a] = NoUndelegation]
      \/ UNCHANGED <<notBondedPool, balance, undelegation>>
  BY Zenon DEF CompleteUndelegation
<1> HIDE DEF quantity
<1>5. /\ notBondedPool' \in Nat
      /\ balance' \in [Accounts -> Nat]
      /\ undelegation' \in [Accounts -> [quantity : Nat, time : Nat]]
  <2>1. balance \in [Accounts -> Nat] /\ undelegation \in [Accounts -> [quantity : Nat, time : Nat]]
    BY Zenon DEF Inv, TypeOK
  <2>2. NoUndelegation \in [quantity : Nat, time : Nat]
    BY Zenon DEF NoUndelegation
  <2>3. notBondedPool' \in Nat
    BY <1>3, <1>4
  <2>4. balance' \in [Accounts -> Nat]
    BY <1>2, <1>3, <1>4, <2>1
  <2>5. undelegation' \in [Accounts -> [quantity : Nat, time : Nat]]
    BY Zenon, <1>2, <1>4, <2>1, <2>2
  <2>6. QED
    BY Zenon, <2>3, <2>4, <2>5
<1>6. TypeOK'
  BY <1>1, <1>5, ZenonT(60) DEF Inv, TypeOK
<1>7. QED
  BY Zenon, <1>1, <1>6, QuietInv DEF Inv, AbandonedOk

----------------------------------------------------------------------------
(* The theorems *)

\* The conjuncts of Init, without the total power.
LEMMA InitFacts ==
  ASSUME Init
  PROVE  /\ val = [v \in Validators |->
                     IF v \in GenesisValidators
                       THEN [status |-> IF v \in GenesisElected THEN "bonded" ELSE "unbonded",
                             jailed |-> FALSE, shares |-> MsdShares, msd |-> ElectMsd, unbondingTime |-> 0]
                       ELSE NoValidator]
         /\ powerIndex = {<<Power(MsdShares), v>> : v \in GenesisValidators}
         /\ lastPower = [v \in Validators |-> IF v \in GenesisElected THEN Power(MsdShares) ELSE 0]
         /\ tendermint = lastPower
         /\ abandoned = <<>> /\ validatorQueue = {}
         /\ del = [d \in Delegators |-> NoDelegator]
         /\ sharesTo = [d \in Delegators |-> [v \in Validators |-> 0]]
         /\ undelegation = [a \in Accounts |-> NoUndelegation]
         /\ balance = [a \in Accounts |-> InitialBalance]
         /\ bondedPool = ElectMsd * Cardinality(GenesisValidators)
         /\ height = 0 /\ now = StartTime /\ phase = "idle"
         /\ epoch = DefaultEpoch /\ endOfLastEpoch = 0
         /\ params = [epoch |-> DefaultEpoch, maxValidators |-> InitialMaxValidators]
  BY Zenon DEF Init

\* The invariant holds after genesis.
LEMMA InitInv == ASSUME Init PROVE Inv
<1>1. MsdShares \in Int /\ Power(MsdShares) = 1
  BY StakingAssumption DEF MsdShares, Power
<1>2. bondedPool \in Nat
  <2>1. IsFiniteSet(GenesisValidators)
    BY StakingAssumption, InstanceAssumption, FS_Subset, ZenonT(60)
  <2>2. Cardinality(GenesisValidators) \in Nat
    BY Zenon, <2>1, FS_CardinalityType
  <2>3. ElectMsd \in Nat
    BY Zenon, StakingAssumption
  <2>4. QED
    BY <2>2, <2>3, InitFacts
<1>3. GenesisElected \subseteq GenesisValidators /\ GenesisValidators \subseteq Validators
  BY Zenon, InstanceAssumption DEF GenesisElected
<1>4. val \in [Validators -> ValidatorRecord]
  BY <1>1, StakingAssumption DEF Init, ValidatorRecord, NoValidator, Status
<1>5. powerIndex = ExactIndex(val)
  BY <1>3, InitFacts DEF ExactIndex, PowerKey, Exists, NoValidator
<1>6. /\ del \in [Delegators -> DelegatorRecord]
      /\ sharesTo \in [Delegators -> [Validators -> Int]]
      /\ undelegation \in [Accounts -> [quantity : Nat, time : Nat]]
      /\ balance \in [Accounts -> Nat]
  BY EmptyDelegators, InstanceAssumption, InitFacts DEF NoUndelegation
<1>7. TypeOK
  <2>1. lastPower \in [Validators -> Int] /\ tendermint \in [Validators -> Int]
    BY <1>1, InitFacts
  <2>2. abandoned \in Seq(Validators) /\ validatorQueue \subseteq Nat \X Validators
    BY InitFacts
  <2>3. proxyBindings \subseteq Delegators \X Delegators /\ undelegateQueue \subseteq Nat \X Accounts
    BY Zenon DEF Init
  <2>4. /\ notBondedPool \in Nat /\ height \in Nat /\ now \in Nat
        /\ phase \in Phases /\ halted \in BOOLEAN
        /\ epoch \in Nat \ {0} /\ endOfLastEpoch \in Nat
        /\ params \in [epoch : Nat \ {0}, maxValidators : Nat \ {0}]
    BY InstanceAssumption, EpochAssumption, ZenonT(60) DEF Init, Phases
  <2>5. QED
    BY <1>2, <1>4, <1>5, <1>6, <2>1, <2>2, <2>3, <2>4, ExactIndexType, ZenonT(60) DEF TypeOK
<1>8. PowerIndexExact
  BY Zenon, <1>5 DEF PowerIndexExact, ExactIndex
<1>9. BondedIffInLastSet /\ ValidatorQueueExact
  BY <1>1, <1>3, InitFacts DEF BondedIffInLastSet, ValidatorQueueExact, NoValidator
<1>10. TendermintHasLastSet /\ NeverHalts
  BY Zenon DEF Init, TendermintHasLastSet, NeverHalts
<1>11. AbandonedOk
  BY InitFacts DEF AbandonedOk, AbandonedSet, NoValidator
<1>12. QED
  BY Zenon, <1>7, <1>8, <1>9, <1>10, <1>11 DEF Inv

\* Every transaction preserves the invariant.
LEMMA TxInv == ASSUME Inv, DeliverTx PROVE Inv'
<1>1. phase = "deliver" /\ StakingTx /\ UNCHANGED blockVars
  BY Zenon DEF DeliverTx
<1>2. CASE \E v \in Validators, m \in MsdChoices : handleMsgCreateValidator(v, m)
  BY Zenon, <1>1, <1>2, CreateValidatorInv
<1>3. CASE \E v \in Validators : handleMsgDestroyValidator(v)
  BY Zenon, <1>1, <1>3, DestroyValidatorInv
<1>4. CASE \E v \in Validators : Unjail(v)
  BY Zenon, <1>1, <1>4, UnjailInv
<1>5. CASE \E d \in Delegators, q \in Quantities : handleMsgDeposit(d, q)
  BY Zenon, <1>1, <1>5, DepositTx, DelegatorTxInv
<1>6. CASE \E d \in Delegators, q \in Quantities : handleMsgWithdraw(d, q)
  BY Zenon, <1>1, <1>6, WithdrawTx, DelegatorTxInv
<1>7. CASE \E d \in Delegators, vs \in SUBSET Validators : handleMsgAddShares(d, vs)
  BY Zenon, <1>1, <1>7, AddSharesTx, DelegatorTxInv
<1>8. CASE \E d, p \in Delegators : handleMsgBindProxy(d, p)
  BY Zenon, <1>1, <1>8, BindProxyTx, DelegatorTxInv
<1>9. CASE \E d \in Delegators : handleMsgUnbindProxy(d)
  BY Zenon, <1>1, <1>9, UnbindProxyTx, DelegatorTxInv
<1>10. CASE \E d \in Delegators : regProxy(d)
  BY Zenon, <1>1, <1>10, RegProxyTx, DelegatorTxInv
<1>11. CASE \E d \in Delegators : unregProxy(d)
  BY Zenon, <1>1, <1>11, UnregProxyTx, DelegatorTxInv
<1>12. QED
  BY Zenon, <1>1, <1>2, <1>3, <1>4, <1>5, <1>6, <1>7, <1>8, <1>9, <1>10, <1>11 DEF StakingTx

\* Every step preserves the invariant.
LEMMA NextInv == ASSUME Inv, [Next]_vars PROVE Inv'
<1> USE DEF storeVars, valVars, delVars, coinVars
<1>1. CASE BeginBlock
  <2>1. height' \in Nat /\ now' \in Nat /\ phase' \in Phases
    <3>1. height \in Nat /\ now \in Nat
      BY Zenon DEF Inv, TypeOK
    <3>2. PICK dt \in TimeSteps : now' = now + dt
      BY Zenon, <1>1 DEF BeginBlock
    <3>3. QED
      BY <1>1, <3>1, <3>2, InstanceAssumption DEF BeginBlock, Phases
  <2>2. TypeOK'
    BY Zenon, <1>1, <2>1 DEF BeginBlock, Inv, TypeOK
  <2>3. QED
    BY Zenon, <1>1, <2>2, QuietInv DEF BeginBlock
<1>2. CASE \E v \in Validators : SlashingJails(v)
  BY Zenon, <1>2, JailInv DEF SlashingJails
<1>3. CASE BeginBlockReturns
  <2>1. TypeOK'
    BY Zenon, <1>3 DEF BeginBlockReturns, Inv, TypeOK, Phases
  <2>2. QED
    BY Zenon, <1>3, <2>1, QuietInv DEF BeginBlockReturns
<1>4. CASE DeliverTx
  BY Zenon, <1>4, TxInv
<1>5. CASE ChangeParams
  <2>1. PICK e \in EpochChoices, m \in MaxValidatorsChoices :
          params' = [epoch |-> e, maxValidators |-> m]
    BY Zenon, <1>5 DEF ChangeParams
  <2>2. params' \in [epoch : Nat \ {0}, maxValidators : Nat \ {0}]
    BY Zenon, <2>1, InstanceAssumption
  <2>3. TypeOK'
    BY Zenon, <1>5, <2>2 DEF ChangeParams, Inv, TypeOK
  <2>4. QED
    BY Zenon, <1>5, <2>3, QuietInv DEF ChangeParams
<1>6. CASE EndEpoch
  BY Zenon, <1>6, EndEpochInv
<1>7. CASE KickOut
  BY Zenon, <1>7, KickOutInv
<1>8. CASE KeepValidatorSet
  <2>1. TypeOK'
    BY Zenon, <1>8 DEF KeepValidatorSet, Inv, TypeOK, Phases
  <2>2. QED
    BY Zenon, <1>8, <2>1, QuietInv DEF KeepValidatorSet
<1>9. CASE UnbondAllMatureValidatorQueue
  BY Zenon, <1>9, MatureInv
<1>10. CASE \E e \in undelegateQueue : CompleteUndelegation(e[1], e[2])
  BY Zenon, <1>10, CompleteInv
<1>11. CASE EndBlockReturns
  <2>1. TypeOK'
    BY Zenon, <1>11 DEF EndBlockReturns, Inv, TypeOK, Phases
  <2>2. QED
    BY Zenon, <1>11, <2>1, QuietInv DEF EndBlockReturns, Inv, AbandonedOk
<1>12. CASE UNCHANGED vars
  <2>1. TypeOK'
    BY Zenon, <1>12 DEF vars, blockVars, Inv, TypeOK
  <2>2. QED
    BY Zenon, <1>12, <2>1, QuietInv DEF vars, blockVars, Inv, AbandonedOk
<1>13. QED
  BY Zenon, <1>1, <1>2, <1>3, <1>4, <1>5, <1>6, <1>7, <1>8, <1>9, <1>10, <1>11, <1>12 DEF Next, Horizon

\* The inductive invariant holds in every reachable state.
THEOREM Invariance == Spec => []Inv
<1>1. Init => Inv
  BY Zenon, InitInv
<1>2. Inv /\ [Next]_vars => Inv'
  BY Zenon, NextInv
<1>3. QED
  BY <1>1, <1>2, PTL DEF Spec

\* Type correctness of the staking module.
THEOREM TypeCorrect == Spec => []TypeOK
<1>1. Inv => TypeOK
  BY Zenon DEF Inv
<1>2. QED
  BY <1>1, Invariance, PTL

\* No panic of the staking EndBlocker is reachable, in elections, kick-outs and maturations.
THEOREM NoPanic == Spec => []NeverHalts
<1>1. Inv => NeverHalts
  BY Zenon DEF Inv
<1>2. QED
  BY <1>1, Invariance, PTL

\* The power index is exact, as NonNegativePowerInvariantCustom checks it.
THEOREM PowerIndexCorrect == Spec => []PowerIndexExact
<1>1. Inv => PowerIndexExact
  BY Zenon DEF Inv
<1>2. QED
  BY <1>1, Invariance, PTL

\* The bonded validators are those of the last validator set.
THEOREM LastSetCorrect == Spec => []BondedIffInLastSet
<1>1. Inv => BondedIffInLastSet
  BY Zenon DEF Inv
<1>2. QED
  BY <1>1, Invariance, PTL

\* The unbonding queue holds exactly the unbonding validators.
THEOREM QueueCorrect == Spec => []ValidatorQueueExact
<1>1. Inv => ValidatorQueueExact
  BY Zenon DEF Inv
<1>2. QED
  BY <1>1, Invariance, PTL

\* Tendermint's validator set is the one the application recorded.
THEOREM TendermintCorrect == Spec => []TendermintHasLastSet
<1>1. Inv => TendermintHasLastSet
  BY Zenon DEF Inv
<1>2. QED
  BY <1>1, Invariance, PTL

\* At the end of every block no jailed validator is bonded.
THEOREM JailedAreDischarged == Spec => []JailedNotBonded
<1>1. Inv => JailedNotBonded
  BY DEF Inv, AbandonedOk, JailedNotBonded, AbandonedSet
<1>2. QED
  BY <1>1, Invariance, PTL


----------------------------------------------------------------------------
(* Epochs *)

\* A block in which an epoch ends comes exactly epoch blocks after the last such block, so
\* the remainder IsEndOfEpoch computes is a test for equality.
EpochInv == /\ height - endOfLastEpoch \in 0..epoch
            /\ phase \notin {"begin", "deliver"} => height - endOfLastEpoch < epoch

\* The remainder by which IsEndOfEpoch recognises the last block of an epoch.
LEMMA ModSelf == ASSUME NEW n \in Nat \ {0} PROVE n % n = 0
OBVIOUS

\* Every step preserves EpochInv.
LEMMA NextEpochInv == ASSUME Inv, EpochInv, [Next]_vars PROVE EpochInv'
<1> USE DEF EpochInv
<1>1. /\ height \in Nat /\ endOfLastEpoch \in Nat /\ epoch \in Nat \ {0}
      /\ params.epoch \in Nat \ {0} /\ ~halted
  BY Zenon DEF Inv, TypeOK, NeverHalts
<1>2. CASE BeginBlock
  BY <1>1, <1>2 DEF BeginBlock
<1>3. CASE \/ BeginBlockReturns \/ ChangeParams \/ UnbondAllMatureValidatorQueue \/ EndBlockReturns
  BY Zenon, <1>1, <1>3 DEF BeginBlockReturns, ChangeParams, UnbondAllMatureValidatorQueue, EndBlockReturns, Halt
<1>4. CASE \/ \E v \in Validators : SlashingJails(v)
           \/ DeliverTx
           \/ \E e \in undelegateQueue : CompleteUndelegation(e[1], e[2])
           \/ UNCHANGED vars
  <2>1. UNCHANGED <<phase, epoch, endOfLastEpoch, height>>
    BY <1>4, ZenonT(60) DEF SlashingJails, DeliverTx, CompleteUndelegation, vars, blockVars
  <2>2. QED
    BY Zenon, <2>1
<1>5. CASE EndEpoch
  <2>1. NeverHalts'
    BY Zenon, <1>5, EndEpochInv DEF Inv
  <2>2. epoch' = params.epoch /\ endOfLastEpoch' = height /\ height' = height
    BY Zenon, <1>5, <2>1 DEF EndEpoch, Halt, NeverHalts
  <2>3. QED
    BY <1>1, <2>2
<1>6. CASE KickOut \/ KeepValidatorSet
  <2>1. height - endOfLastEpoch # epoch
    BY Zenon, <1>1, <1>6, ModSelf DEF KickOut, KeepValidatorSet, IsEndOfEpoch
  <2>2. epoch' = epoch /\ endOfLastEpoch' = endOfLastEpoch /\ height' = height
    BY Zenon, <1>6 DEF KickOut, KeepValidatorSet, Halt
  <2>3. QED
    BY <1>1, <2>1, <2>2
<1>7. QED
  BY Zenon, <1>2, <1>3, <1>4, <1>5, <1>6 DEF Next, Horizon

\* An election comes within one epoch of the last, also when the parameter changes.
THEOREM EpochsCorrect == Spec => []EpochsEnd
<1>1. Init => EpochInv
  BY EpochAssumption, InitFacts DEF EpochInv
<1>2. Inv /\ EpochInv /\ [Next]_vars => EpochInv'
  BY Zenon, NextEpochInv
<1>3. Inv /\ EpochInv => EpochsEnd
  BY DEF Inv, TypeOK, EpochInv, EpochsEnd
<1>4. QED
  BY <1>1, <1>2, <1>3, Invariance, PTL DEF Spec
=============================================================================
