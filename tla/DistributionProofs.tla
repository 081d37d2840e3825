------------------------- MODULE DistributionProofs -------------------------
(***************************************************************************)
(* For any validators, fees, shares and fractions, and any number of       *)
(* restarts from an exported state: distribution has a commission record   *)
(* exactly for the validators that staking has; the module account holds   *)
(* exactly the community pool and the commissions; truncation never lets   *)
(* an allocation hand out more than there is; and earnings leave a         *)
(* commission only for the withdraw address.                               *)
(***************************************************************************)
EXTENDS Integers, FiniteSets, DistributionGenesis, SumTheorems, TLAPS

----------------------------------------------------------------------------
(* Truncated arithmetic *)

\* A quotient is at most the exact one.
LEMMA DivBound ==
  ASSUME NEW a \in Nat, NEW b \in Nat \ {0}
  PROVE  a \div b \in Nat /\ b * (a \div b) <= a
OBVIOUS

\* Products grow with a factor.
LEMMA ProductLeq ==
  ASSUME NEW a \in Nat, NEW b \in Nat, NEW c \in Nat, b <= c
  PROVE  a * b \in Nat /\ a * b <= a * c
<1>1. PICK d \in Nat : c = b + d
  BY c - b \in Nat, c = b + (c - b)
<1>2. a * c = a * b + a * d
  BY <1>1
<1>3. a * b \in Nat /\ a * d \in Nat
  BY <1>1
<1> QED BY <1>2, <1>3

\* A positive factor cancels.
LEMMA CancelLeq ==
  ASSUME NEW a \in Nat \ {0}, NEW b \in Int, NEW c \in Int, a * b <= a * c
  PROVE  b <= c
OBVIOUS

\* A truncated product: at most the exact one, and at most the amount for a proper fraction.
LEMMA MulDecBound ==
  ASSUME NEW amount \in Nat, NEW fraction \in Nat
  PROVE  /\ MulDecTruncate(amount, fraction) \in Nat
         /\ Unit * MulDecTruncate(amount, fraction) <= amount * fraction
         /\ fraction <= Unit => MulDecTruncate(amount, fraction) <= amount
<1>1. Unit \in Nat \ {0}
  BY Zenon, DistributionAssumption
<1>2. amount * fraction \in Nat
  OBVIOUS
<1> DEFINE m == MulDecTruncate(amount, fraction)
<1>3. m \in Nat /\ Unit * m <= amount * fraction
  BY Zenon, <1>1, <1>2, DivBound DEF MulDecTruncate
<1> HIDE DEF m
<1>4. ASSUME fraction <= Unit PROVE m <= amount
  <2>1. amount * fraction <= amount * Unit
    BY Zenon, <1>1, <1>4, ProductLeq
  <2>2. Unit * m <= Unit * amount
    BY <1>1, <1>2, <1>3, <2>1
  <2> QED BY <1>1, <1>3, <2>2, CancelLeq
<1> QED BY Zenon, <1>3, <1>4 DEF m

\* allocateByEqual: n equal rewards are no more than what there is to share.
LEMMA EqualBound ==
  ASSUME NEW r \in Nat, NEW n \in Nat \ {0}
  PROVE  EqualReward(r, n) \in Nat /\ n * EqualReward(r, n) <= r
<1> DEFINE q == QuoTruncate(1, n)
           e == EqualReward(r, n)
<1>1. Unit \in Nat \ {0}
  BY Zenon, DistributionAssumption
<1>2. q \in Nat /\ n * q <= Unit
  BY <1>1, DivBound DEF QuoTruncate
<1>3. e \in Nat /\ Unit * e <= r * q
  <2> HIDE DEF q
  <2> QED BY Zenon, <1>2, MulDecBound DEF EqualReward, q
<1> HIDE DEF q, e
<1>4. n * (Unit * e) <= n * (r * q)
  BY <1>1, <1>2, <1>3, ProductLeq
<1>5. n * q \in Nat /\ r * (n * q) <= r * Unit
  BY <1>1, <1>2, ProductLeq
<1>6. n * (Unit * e) = Unit * (n * e) /\ n * (r * q) = r * (n * q)
  BY <1>1, <1>2, <1>3
<1>7. Unit * (n * e) <= Unit * r
  BY <1>1, <1>2, <1>3, <1>4, <1>5, <1>6
<1>8. n * e <= r
  BY <1>1, <1>3, <1>7, CancelLeq
<1> QED BY Zenon, <1>3, <1>8 DEF e

\* The two portions of the fees are no more than the fees.
LEMMA PortionsBound ==
  ASSUME NEW fees \in Nat
  PROVE  /\ feeByEqual(fees) \in Nat /\ feeByVote(fees) \in Nat
         /\ feeByEqual(fees) + feeByVote(fees) <= fees
<1> DEFINE x == feesToVals(fees)
           a == feeByEqual(fees)
           b == feeByVote(fees)
<1>1. Unit \in Nat \ {0} /\ CommunityTax \in 0 .. Unit
  BY Zenon, DistributionAssumption
<1>2. x \in Nat /\ x <= fees
  BY <1>1, MulDecBound DEF feesToVals
<1>3. valPortion \in Nat /\ votePortion \in Nat /\ valPortion + votePortion <= Unit
  BY <1>1 DEF valPortion, votePortion
<1> HIDE DEF x
<1>4. a \in Nat /\ Unit * a <= x * valPortion /\ b \in Nat /\ Unit * b <= x * votePortion
  BY Zenon, <1>2, <1>3, MulDecBound DEF feeByEqual, feeByVote, x
<1> HIDE DEF a, b
<1>5. x * (valPortion + votePortion) <= x * Unit
  BY <1>1, <1>2, <1>3, ProductLeq
<1>6. Unit * (a + b) <= Unit * x
  BY <1>1, <1>2, <1>3, <1>4, <1>5
<1>7. a + b <= x
  BY <1>1, <1>2, <1>4, <1>6, CancelLeq
<1> QED BY <1>2, <1>4, <1>7 DEF a, b

\* allocateByShares: the rewards by shares are no more than what there is to share.
LEMMA SharesBound ==
  ASSUME NEW r \in Nat, \A v \in Validators : stk[v].shares \in Nat,
         \E v \in Unjailed(Validators) : stk[v].shares # 0
  PROVE  /\ \A v \in Validators : ShareReward(r, v) \in Nat
         /\ SumOf([v \in Validators |-> ShareReward(r, v)], Unjailed(Validators)) <= r
<1> DEFINE S == Unjailed(Validators)
           shares == [w \in Validators |-> stk[w].shares]
           T == SumOf(shares, S)
           q == [v \in Validators |-> QuoTruncate(stk[v].shares, T)]
           e == [v \in Validators |-> ShareReward(r, v)]
<1>1. Unit \in Nat \ {0} /\ IsFiniteSet(Validators)
  BY Zenon, DistributionAssumption
<1>2. S \subseteq Validators /\ IsFiniteSet(S)
  BY Zenon, <1>1, FS_Subset DEF Unjailed
<1>3. T \in Nat \ {0}
  <2>1. \A v \in S : shares[v] \in Nat
    BY Zenon, <1>2
  <2>2. T \in Nat /\ \A v \in S : shares[v] <= T
    <3> HIDE DEF shares, S
    <3> QED BY Zenon, <1>2, <2>1, SumNat
  <2>3. \E v \in S : shares[v] # 0
    BY Zenon, <1>2
  <2> HIDE DEF T, shares, S
  <2> QED BY <2>1, <2>2, <2>3
<1> HIDE DEF T
<1>4. \A v \in Validators : q[v] \in Nat /\ T * q[v] <= stk[v].shares * Unit
  <2> SUFFICES ASSUME NEW v \in Validators
               PROVE  q[v] \in Nat /\ T * q[v] <= stk[v].shares * Unit
    BY Zenon
  <2>1. stk[v].shares * Unit \in Nat
    BY <1>1
  <2> QED BY Zenon, <1>3, <2>1, DivBound DEF QuoTruncate
<1>5. \A v \in Validators : e[v] \in Nat /\ Unit * e[v] <= r * q[v]
  <2> SUFFICES ASSUME NEW v \in Validators
               PROVE  e[v] \in Nat /\ Unit * e[v] <= r * q[v]
    BY Zenon
  <2>1. e[v] = MulDecTruncate(r, q[v])
    BY Zenon DEF ShareReward, T
  <2> HIDE DEF q, e
  <2> QED BY Zenon, <1>4, <2>1, MulDecBound
<1> HIDE DEF q, e
<1>6. SumOf(q, S) \in Nat /\ SumOf(q, S) <= Unit
  <2> DEFINE Tq == [v \in Validators |-> T * q[v]]
             Us == [v \in Validators |-> Unit * shares[v]]
  <2>1. \A v \in S : q[v] \in Nat /\ shares[v] \in Nat /\ Tq[v] = T * q[v] /\ Us[v] = Unit * shares[v]
    BY Zenon, <1>2, <1>4
  <2>2. \A v \in S : Tq[v] \in Int /\ Us[v] \in Int /\ Tq[v] <= Us[v]
    BY <1>1, <1>2, <1>3, <1>4
  <2> HIDE DEF S, Tq, Us, shares
  <2>3. SumOf(Tq, S) = T * SumOf(q, S) /\ SumOf(Us, S) = Unit * SumOf(shares, S)
    BY <1>1, <1>2, <1>3, <2>1, SumTimes
  <2>4. SumOf(Tq, S) <= SumOf(Us, S)
    BY Zenon, <1>2, <2>2, SumLeq
  <2>5. SumOf(q, S) \in Nat
    BY Zenon, <1>2, <2>1, SumNat
  <2>6. SumOf(shares, S) = T
    BY Zenon DEF T
  <2>7. T * SumOf(q, S) <= T * Unit
    BY <1>1, <1>3, <2>3, <2>4, <2>6
  <2>8. SumOf(q, S) <= Unit
    BY <1>1, <1>3, <2>5, <2>7, CancelLeq
  <2> QED BY Zenon, <2>5, <2>8
<1>7. SumOf(e, S) \in Nat /\ SumOf(e, S) <= r
  <2> DEFINE Ue == [v \in Validators |-> Unit * e[v]]
             rq == [v \in Validators |-> r * q[v]]
  <2>1. \A v \in S : q[v] \in Nat /\ e[v] \in Nat /\ Ue[v] = Unit * e[v] /\ rq[v] = r * q[v]
    BY Zenon, <1>2, <1>4, <1>5
  <2>2. \A v \in S : Ue[v] \in Int /\ rq[v] \in Int /\ Ue[v] <= rq[v]
    BY <1>1, <1>2, <1>4, <1>5
  <2> HIDE DEF S, Ue, rq
  <2>3. SumOf(Ue, S) = Unit * SumOf(e, S) /\ SumOf(rq, S) = r * SumOf(q, S)
    BY <1>1, <1>2, <2>1, SumTimes
  <2>4. SumOf(Ue, S) <= SumOf(rq, S)
    BY Zenon, <1>2, <2>2, SumLeq
  <2>5. SumOf(e, S) \in Nat
    BY Zenon, <1>2, <2>1, SumNat
  <2>6. r * SumOf(q, S) <= r * Unit
    BY Zenon, <1>1, <1>6, ProductLeq
  <2>7. Unit * SumOf(e, S) <= Unit * r
    BY <1>1, <1>6, <2>3, <2>4, <2>5, <2>6
  <2>8. SumOf(e, S) <= r
    BY <1>1, <2>5, <2>7, CancelLeq
  <2> QED BY Zenon, <2>5, <2>8
<1> QED BY Zenon, <1>5, <1>7 DEF e

----------------------------------------------------------------------------
(* Commission records *)


\* What a record is worth before it is read: a validator that exists has some record, any
\* other the empty one.
RecordOf(view, record) ==
  IF view.exists = TRUE THEN record.found = TRUE ELSE record = NoRecord

\* The inductive invariant.  That a missing record has no coins is what keeps a withdrawal
\* from writing one (WithdrawValidatorCommission reads before it looks).
RecordsInv ==
  /\ stk \in [Validators -> ValidatorView]
  /\ DOMAIN commission = Validators
  /\ \A v \in Validators : RecordOf(stk[v], commission[v])

\* Fields of the two kinds of record.
LEMMA RecordFacts ==
  /\ NoRecord.found = FALSE /\ NoRecord.coins = 0
  /\ \A n : Record(n).found = TRUE
BY Zenon DEF NoRecord, Record

\* Genesis: records are initialised for the genesis validators (InitGenesis, hooks).
LEMMA RecordsAtGenesis == Init => RecordsInv
<1>1. SUFFICES ASSUME Init PROVE RecordsInv
  BY Zenon
<1>2. /\ stk \in [Validators -> ValidatorView]
      /\ commission = [v \in Validators |-> IF stk[v].exists THEN Record(0) ELSE NoRecord]
  BY Zenon, <1>1 DEF Init
<1>3. \A v \in Validators : stk[v].exists \in BOOLEAN
  BY Zenon, <1>2 DEF ValidatorView
<1>4. QED
  BY Zenon, <1>2, <1>3, RecordFacts DEF RecordsInv, RecordOf

\* An allocation writes records only for validators that exist.
LEMMA AllocateRecords ==
  ASSUME RecordsInv, NEW voters, BeginBlocker(voters)
  PROVE  RecordsInv'
<1>1. stk' = stk
  BY Zenon DEF BeginBlocker, AllocateTokens, Panic, distrVars
<1>2. CASE commission' = commission
  BY Zenon, <1>1, <1>2 DEF RecordsInv
<1>3. CASE commission' # commission
  <2> DEFINE new(v) == Record(Accumulated(v) + RewardOf(feeCollector, voters, v))
  <2>1. commission' = [v \in Validators |->
                         IF v \in Unjailed(Validators) THEN new(v) ELSE commission[v]]
    BY Zenon, <1>3 DEF BeginBlocker, AllocateTokens, Panic, distrVars, ownVars
  <2>2. \A v \in Validators : new(v).found = TRUE
    BY Zenon, RecordFacts
  <2> HIDE DEF new
  <2>3. \A v \in Unjailed(Validators) : stk[v].exists = TRUE
    BY Zenon DEF Unjailed, RecordsInv, ValidatorView
  <2>4. QED
    BY Zenon, <1>1, <2>1, <2>2, <2>3 DEF RecordsInv, RecordOf
<1>4. QED
  BY Zenon, <1>2, <1>3

\* The validators that a staking step removes and creates.
LEMMA HooksFound ==
  ASSUME HooksCalled
  PROVE  \E removed, created \in SUBSET Validators :
           /\ removed = {v \in Validators : stk[v].exists /\ ~stk'[v].exists}
           /\ created = {v \in Validators : ~stk[v].exists /\ stk'[v].exists}
           /\ Hooks(removed, created)
<1> DEFINE gone == {v \in Validators : stk[v].exists /\ ~stk'[v].exists}
           new == {v \in Validators : ~stk[v].exists /\ stk'[v].exists}
<1>1. gone \in SUBSET Validators /\ new \in SUBSET Validators
  BY Zenon
<1>2. Hooks(gone, new)
  BY Zenon DEF HooksCalled
<1> QED BY Zenon, <1>1, <1>2

\* The hooks of a staking step create and delete records with the validators
\* (AfterValidatorCreated, AfterValidatorRemoved).
LEMMA HookRecords ==
  ASSUME RecordsInv, HooksCalled, stk' \in [Validators -> ValidatorView]
  PROVE  RecordsInv'
<1>1. PICK removed \in SUBSET Validators, created \in SUBSET Validators :
        /\ removed = {v \in Validators : stk[v].exists /\ ~stk'[v].exists}
        /\ created = {v \in Validators : ~stk[v].exists /\ stk'[v].exists}
        /\ Hooks(removed, created)
  BY Zenon, HooksFound
<1>2. commission' = [v \in Validators |-> IF v \in created THEN Record(0)
                        ELSE IF v \in removed THEN NoRecord ELSE commission[v]]
  BY Zenon, <1>1 DEF Hooks, CommissionsAfter
<1>3. SUFFICES ASSUME NEW v \in Validators
               PROVE  RecordOf(stk'[v], commission'[v])
  BY Zenon, <1>2 DEF RecordsInv
<1>4. stk[v].exists \in BOOLEAN /\ stk'[v].exists \in BOOLEAN
  BY Zenon DEF RecordsInv, ValidatorView
<1>5. QED
  BY Zenon, <1>1, <1>2, <1>4, RecordFacts DEF RecordsInv, RecordOf

\* A withdrawal finds coins only in a record, which it keeps.
LEMMA WithdrawRecords ==
  ASSUME RecordsInv, NEW v \in Validators, handleMsgWithdrawValidatorCommission(v)
  PROVE  RecordsInv'
<1>1. commission' = [commission EXCEPT ![v] = Record(Remainder(v))] /\ stk' = stk
  BY Zenon DEF handleMsgWithdrawValidatorCommission
<1>2. commission[v] # NoRecord
  BY Zenon, RecordFacts DEF handleMsgWithdrawValidatorCommission, Accumulated
<1>3. QED
  BY Zenon, <1>1, <1>2, RecordFacts DEF RecordsInv, RecordOf

----------------------------------------------------------------------------
(* Coins *)

Earned == [v \in Validators |-> Accumulated(v)]

\* The inductive invariant: what the module account must hold follows every coin, so pool,
\* commissions and fees have to be natural numbers at any time.
CoinsInv ==
  /\ RecordsInv
  /\ \A v \in Validators : Accumulated(v) \in Nat
  /\ communityPool \in Nat /\ feeCollector \in Nat
  /\ received \in [Addresses -> Nat]
  /\ withdrawAddr \in [Validators -> Addresses]
  /\ moduleAcc = communityPool + SumOf(Earned, Validators)
  /\ NeverOverspends

\* ShareChoices are natural numbers.
LEMMA SharesNat ==
  ASSUME RecordsInv
  PROVE  /\ \A v \in Validators : stk[v].shares \in Nat
         /\ IsFiniteSet(Validators)
BY Zenon, DistributionAssumption DEF RecordsInv, ValidatorView

\* An allocation that does not divide by zero does not overspend: each of its three
\* subtractions leaves something natural (SysCoins.Sub in AllocateTokens).
LEMMA AllocationBound ==
  ASSUME RecordsInv, NEW fees \in Nat, NEW voters \in SUBSET Validators, ~DividesByZero(voters)
  PROVE  /\ ~Overspends(fees, voters)
         /\ \A v \in Validators : RewardOf(fees, voters, v) \in Nat
         /\ \A v \in Validators \ Unjailed(Validators) : RewardOf(fees, voters, v) = 0
         /\ SumOf([v \in Validators |-> RewardOf(fees, voters, v)], Validators) \in 0 .. fees
<1> DEFINE U == Unjailed(voters)
           A == Unjailed(Validators)
           n == Cardinality(U)
           a == feeByEqual(fees)
           b == feeByVote(fees)
           E == EqualReward(a, n)
           equal == [v \in Validators |-> IF v \in U THEN E ELSE 0]
           sh == [v \in Validators |-> ShareReward(b, v)]
           share == [v \in Validators |-> IF v \in A THEN sh[v] ELSE 0]
           reward == [v \in Validators |-> RewardOf(fees, voters, v)]
<1>1. IsFiniteSet(Validators) /\ U \subseteq A /\ A \subseteq Validators /\ U # {}
  BY Zenon, SharesNat DEF Unjailed, DividesByZero
<1>2. IsFiniteSet(U) /\ IsFiniteSet(A) /\ n \in Nat \ {0}
  BY Zenon, <1>1, FS_Subset, FS_CardinalityType, FS_EmptySet
<1>3. a \in Nat /\ b \in Nat /\ a + b <= fees
  BY Zenon, PortionsBound
<1> HIDE DEF U, n, a, b
<1>4. E \in Nat /\ n * E <= a
  BY Zenon, <1>2, <1>3, EqualBound
<1>5. (\A v \in Validators : sh[v] \in Nat) /\ SumOf(sh, A) <= b
  <2>1. \E v \in A : stk[v].shares # 0
    BY Zenon, <1>1 DEF DividesByZero, U
  <2> QED BY Zenon, <1>3, <2>1, SharesNat, SharesBound
<1>6. ~Overspends(fees, voters)
  <2>1. n * E \in Nat /\ SumOf(sh, A) \in Nat
    <3>1. \A v \in A : sh[v] \in Nat
      BY Zenon, <1>1, <1>5
    <3> HIDE DEF E, sh, A
    <3> QED BY <1>2, <1>4, <3>1, SumNat
  <2>2. ~(n * E > a) /\ ~(SumOf(sh, A) > b) /\ ~(a + b > fees)
    <3> HIDE DEF E, sh, A
    <3> QED BY <1>2, <1>3, <1>4, <1>5, <2>1
  <2> QED BY Zenon, <2>2 DEF Overspends, U, n, a, b
<1>7. \A v \in Validators : reward[v] = equal[v] + share[v]
  BY Zenon DEF RewardOf, U, n, a, b
<1> HIDE DEF E
<1>8. \A v \in Validators : equal[v] \in Nat /\ share[v] \in Nat
  BY Zenon, <1>4, <1>5
<1>9. \A v \in Validators : v \notin A => equal[v] = 0 /\ share[v] = 0
  BY Zenon, <1>1
<1>10. SumOf(equal, Validators) = E * n
  <2>1. (\A x \in Validators : equal[x] \in Int) /\ (\A x \in Validators \ U : equal[x] = 0)
    BY <1>8
  <2>2. \A x \in U : equal[x] = E
    BY Zenon, <1>1
  <2> HIDE DEF equal, A, sh, share, reward
  <2>3. SumOf(equal, Validators) = SumOf(equal, U)
    BY Zenon, <1>1, <2>1, SumSubset
  <2>4. SumOf(equal, U) = E * n
    <3>1. E \in Int
      BY <1>4
    <3> QED BY Zenon, <1>2, <2>2, <3>1, SumConstant DEF n
  <2> QED BY Zenon, <2>3, <2>4
<1>11. SumOf(share, Validators) = SumOf(sh, A)
  <2>1. (\A x \in Validators : share[x] \in Int) /\ (\A x \in Validators \ A : share[x] = 0)
    BY <1>8
  <2>2. \A x \in A : share[x] = sh[x]
    BY Zenon, <1>1
  <2> HIDE DEF share, sh, A, equal, reward
  <2>3. SumOf(share, Validators) = SumOf(share, A)
    BY Zenon, <1>1, <2>1, SumSubset
  <2>4. SumOf(share, A) = SumOf(sh, A)
    BY Zenon, <1>2, <2>2, SumEqual
  <2> QED BY Zenon, <2>3, <2>4
<1> HIDE DEF equal, share, sh, A
<1>12. SumOf(reward, Validators) \in 0 .. fees
  <2> HIDE DEF reward
  <2>1. SumOf(reward, Validators) = SumOf(equal, Validators) + SumOf(share, Validators)
    <3>1. \A x \in Validators : equal[x] \in Int /\ share[x] \in Int /\ reward[x] = equal[x] + share[x]
      BY <1>7, <1>8
    <3> QED BY Zenon, <1>1, <3>1, SumPlus
  <2>2. SumOf(equal, Validators) \in Nat /\ SumOf(share, Validators) \in Nat
    BY Zenon, <1>1, <1>8, SumNat
  <2>3. SumOf(equal, Validators) <= a
    BY <1>2, <1>4, <1>10
  <2> QED BY <1>3, <1>5, <1>11, <2>1, <2>2, <2>3
<1>13. \A v \in Validators : reward[v] \in Nat /\ (v \notin A => reward[v] = 0)
  <2> HIDE DEF reward
  <2> QED BY <1>7, <1>8, <1>9
<1> QED
  BY Zenon, <1>6, <1>12, <1>13 DEF A

\* Genesis: nothing anywhere.
LEMMA CoinsAtGenesis == Init => CoinsInv
<1> SUFFICES ASSUME Init PROVE CoinsInv
  BY Zenon
<1>1. RecordsInv /\ IsFiniteSet(Validators)
  BY Zenon, RecordsAtGenesis, SharesNat
<1>2. \A v \in Validators : Accumulated(v) = 0
  BY Zenon DEF Init, Accumulated, NoRecord, Record
<1>3. SumOf(Earned, Validators) = 0
  <2>1. \A v \in Validators : Earned[v] = 0
    BY Zenon, <1>2 DEF Earned
  <2> QED BY Zenon, <1>1, <2>1, SumZero
<1>4. received \in [Addresses -> Nat] /\ withdrawAddr \in [Validators -> Addresses]
  BY Zenon, DistributionAssumption DEF Init
<1>5. communityPool = 0 /\ feeCollector = 0 /\ moduleAcc = 0 /\ NeverOverspends
  BY Zenon DEF Init, NeverOverspends
<1> QED BY <1>1, <1>2, <1>3, <1>4, <1>5 DEF CoinsInv
\* What a step may do to the commission of v without breaking a promise.
GoesHome(v) ==
  Accumulated(v)' < Accumulated(v) =>
    received'[withdrawAddr[v]] - received[withdrawAddr[v]] >= Whole(Accumulated(v))

\* A step of an allocation: what the validators do not get goes to the community.
LEMMA AllocateCoins ==
  ASSUME CoinsInv, NEW voters \in SUBSET Validators, BeginBlocker(voters)
  PROVE  CoinsInv' /\ \A v \in Validators : GoesHome(v)
<1>1. RecordsInv /\ RecordsInv' /\ IsFiniteSet(Validators)
  BY Zenon, AllocateRecords, SharesNat DEF CoinsInv
<1>2. withdrawAddr' = withdrawAddr
  BY Zenon DEF BeginBlocker, AllocateTokens, PoolToCommunity, Panic, distrVars, ownVars
<1>3. feeCollector \in Nat /\ communityPool \in Nat /\ received \in [Addresses -> Nat]
  BY Zenon DEF CoinsInv
<1>4. SumOf(Earned, Validators) \in Nat
  <2>1. \A v \in Validators : Earned[v] \in Nat
    BY Zenon DEF CoinsInv, Earned
  <2> QED BY Zenon, <1>1, <2>1, SumNat
<1>5. CASE commission' = commission /\ UNCHANGED <<communityPool, feeCollector, moduleAcc, received>>
  <2>1. broken' = broken \/ broken' = "division"
    <3>1. CASE Failure(feeCollector, voters) # "" /\ Panic(Failure(feeCollector, voters))
      <4>1. DividesByZero(voters)
        BY Zenon, <1>1, <1>3, <3>1, AllocationBound DEF Failure
      <4> QED BY Zenon, <3>1, <4>1 DEF Panic, Failure
    <3>2. CASE broken' = broken
      BY Zenon, <3>2
    <3> QED BY Zenon, <3>1, <3>2 DEF BeginBlocker, AllocateTokens, distrVars, ownVars
  <2>2. NeverOverspends'
    BY Zenon, <2>1 DEF NeverOverspends, CoinsInv
  <2>3. Earned' = Earned /\ \A v \in Validators : Accumulated(v)' = Accumulated(v)
    BY Zenon, <1>5 DEF Earned, Accumulated
  <2>4. \A v \in Validators : GoesHome(v)
    BY <2>3 DEF GoesHome, CoinsInv
  <2> QED BY Zenon, <1>1, <1>2, <1>5, <2>2, <2>3, <2>4 DEF CoinsInv
<1>6. CASE /\ communityPool' = communityPool + feeCollector
           /\ moduleAcc' = moduleAcc + feeCollector
           /\ feeCollector' = 0
           /\ UNCHANGED <<commission, received, broken>>
  <2>1. Earned' = Earned /\ \A v \in Validators : Accumulated(v)' = Accumulated(v)
    BY Zenon, <1>6 DEF Earned, Accumulated
  <2>2. NeverOverspends'
    BY Zenon, <1>6 DEF NeverOverspends, CoinsInv
  <2>3. \A v \in Validators : GoesHome(v)
    BY <2>1 DEF GoesHome, CoinsInv
  <2>4. moduleAcc' = communityPool' + SumOf(Earned, Validators)
    BY <1>3, <1>4, <1>6 DEF CoinsInv
  <2>5. moduleAcc' = communityPool' + SumOf(Earned', Validators)
    BY Zenon, <2>1, <2>4
  <2> QED BY <1>1, <1>2, <1>3, <1>6, <2>1, <2>2, <2>3, <2>5 DEF CoinsInv
<1>7. CASE /\ Failure(feeCollector, voters) = ""
           /\ commission' = [v \in Validators |->
                               IF v \in Unjailed(Validators)
                                 THEN Record(Accumulated(v) + RewardOf(feeCollector, voters, v))
                               ELSE commission[v]]
           /\ PoolToCommunity(communityPool + (feeCollector -
                SumOf([v \in Validators |-> RewardOf(feeCollector, voters, v)], Validators)))
           /\ feeCollector' = 0 /\ broken' = broken
  <2> DEFINE reward == [v \in Validators |-> RewardOf(feeCollector, voters, v)]
             pool == communityPool + (feeCollector - SumOf(reward, Validators))
  <2>1. ~DividesByZero(voters)
    BY Zenon, <1>7 DEF Failure
  <2>2. /\ \A v \in Validators : reward[v] \in Nat
        /\ \A v \in Validators \ Unjailed(Validators) : reward[v] = 0
        /\ SumOf(reward, Validators) \in 0 .. feeCollector
    BY Zenon, <1>1, <1>3, <2>1, AllocationBound
  <2>3. /\ commission' = [v \in Validators |->
                            IF v \in Unjailed(Validators)
                              THEN Record(Accumulated(v) + reward[v]) ELSE commission[v]]
        /\ communityPool' = 0 /\ moduleAcc' = (moduleAcc + feeCollector) - pool
        /\ received' = [received EXCEPT ![CommunityAddress] = @ + pool]
    BY Zenon, <1>7 DEF PoolToCommunity
  <2> HIDE DEF reward
  <2>4. pool \in Nat
    BY <1>3, <2>2
  <2>5. \A v \in Validators : Accumulated(v) \in Nat /\ Accumulated(v)' = Accumulated(v) + reward[v]
    BY <2>2, <2>3 DEF CoinsInv, Accumulated, Record
  <2>6. SumOf(Earned', Validators) = SumOf(Earned, Validators) + SumOf(reward, Validators)
    <3>1. \A v \in Validators : Earned[v] \in Int /\ reward[v] \in Int /\ Earned'[v] = Earned[v] + reward[v]
      BY <2>2, <2>5 DEF Earned
    <3> QED BY Zenon, <1>1, <3>1, SumPlus
  <2>7. moduleAcc' = communityPool' + SumOf(Earned', Validators)
    <3>1. moduleAcc = communityPool + SumOf(Earned, Validators)
      BY Zenon DEF CoinsInv
    <3>2. SumOf(reward, Validators) \in Int
      BY <2>2
    <3> QED BY <1>3, <1>4, <2>3, <2>6, <3>1, <3>2
  <2>8. \A v \in Validators : Accumulated(v)' \in Nat /\ ~(Accumulated(v)' < Accumulated(v))
    BY <2>2, <2>5
  <2>9. received' \in [Addresses -> Nat]
    <3>1. received' = [received EXCEPT ![CommunityAddress] = @ + pool]
      BY Zenon, <2>3
    <3>2. CommunityAddress \in Addresses
      BY Zenon, DistributionAssumption
    <3> HIDE DEF pool
    <3> QED BY <1>3, <2>4, <3>1, <3>2
  <2>10. NeverOverspends'
    BY Zenon, <1>7 DEF NeverOverspends, CoinsInv
  <2>11. \A v \in Validators : GoesHome(v)
    BY Zenon, <2>8 DEF GoesHome
  <2> QED BY Zenon, <1>1, <1>2, <1>7, <2>3, <2>7, <2>8, <2>9, <2>10, <2>11 DEF CoinsInv
<1> QED
  BY Zenon, <1>5, <1>6, <1>7 DEF BeginBlocker, AllocateTokens, Panic, distrVars, ownVars

\* The whole coins and the remainder of a commission (TruncateDecimal).
LEMMA WholePart ==
  ASSUME NEW v \in Validators, Accumulated(v) \in Nat
  PROVE  /\ Whole(Accumulated(v)) \in Nat /\ Remainder(v) \in Nat
         /\ Accumulated(v) = Whole(Accumulated(v)) + Remainder(v)
<1>1. \A n \in Nat, u \in Nat \ {0} :
        (n \div u) * u \in Nat /\ n % u \in Nat /\ n = (n \div u) * u + (n % u)
  OBVIOUS
<1> QED BY Zenon, <1>1, DistributionAssumption DEF Whole, Remainder

\* A withdrawal pays the whole coins of one commission.
LEMMA WithdrawCoins ==
  ASSUME CoinsInv, NEW v \in Validators, handleMsgWithdrawValidatorCommission(v)
  PROVE  CoinsInv' /\ \A w \in Validators : GoesHome(w)
<1> DEFINE coins == Whole(Accumulated(v))
<1>1. RecordsInv /\ RecordsInv' /\ IsFiniteSet(Validators)
  BY Zenon, WithdrawRecords, SharesNat DEF CoinsInv
<1>2. /\ commission' = [commission EXCEPT ![v] = Record(Remainder(v))]
      /\ moduleAcc' = moduleAcc - coins
      /\ received' = [received EXCEPT ![withdrawAddr[v]] = @ + coins]
      /\ UNCHANGED <<feeCollector, communityPool, withdrawAddr, broken>>
  BY Zenon DEF handleMsgWithdrawValidatorCommission
<1>3. /\ coins \in Nat /\ Remainder(v) \in Nat
      /\ Accumulated(v) = coins + Remainder(v)
  BY Zenon, WholePart DEF CoinsInv
<1>4. /\ \A w \in Validators : Accumulated(w) \in Nat
      /\ withdrawAddr[v] \in Addresses /\ received \in [Addresses -> Nat]
      /\ communityPool \in Nat /\ DOMAIN commission = Validators
  BY Zenon DEF CoinsInv, RecordsInv
<1>5. /\ Accumulated(v)' = Remainder(v)
      /\ \A w \in Validators \ {v} : Accumulated(w)' = Accumulated(w)
  BY Zenon, <1>2, <1>4 DEF Accumulated, Record
<1> HIDE DEF coins
<1>6. SumOf(Earned', Validators) = SumOf(Earned, Validators) - coins
  <2>1. /\ \A w \in Validators : Earned[w] \in Int /\ Earned'[w] \in Int
        /\ \A w \in Validators \ {v} : Earned'[w] = Earned[w]
        /\ Earned'[v] = Earned[v] - coins
    BY <1>3, <1>4, <1>5 DEF Earned
  <2>2. SumOf(Earned', Validators) = SumOf(Earned, Validators) + (Earned'[v] - Earned[v])
    BY <1>1, <2>1, SumChange
  <2>3. SumOf(Earned, Validators) \in Int /\ Earned[v] \in Int
    BY Zenon, <1>1, <2>1, SumInt
  <2> QED BY <1>3, <2>1, <2>2, <2>3
<1>7. moduleAcc' = communityPool' + SumOf(Earned', Validators)
  <2>1. SumOf(Earned, Validators) \in Int
    <3>1. \A w \in Validators : Earned[w] \in Int
      BY <1>4 DEF Earned
    <3> QED BY Zenon, <1>1, <3>1, SumInt
  <2>2. moduleAcc = communityPool + SumOf(Earned, Validators)
    BY Zenon DEF CoinsInv
  <2> QED BY <1>2, <1>3, <1>4, <1>6, <2>1, <2>2
<1>8. received' \in [Addresses -> Nat]
  BY <1>2, <1>3, <1>4
<1>9. \A w \in Validators : Accumulated(w)' \in Nat
  BY Zenon, <1>3, <1>4, <1>5
<1>10. NeverOverspends'
  BY Zenon, <1>2 DEF NeverOverspends, CoinsInv
<1>11. \A w \in Validators : GoesHome(w)
  <2>1. received'[withdrawAddr[v]] - received[withdrawAddr[v]] >= coins
    BY <1>2, <1>3, <1>4
  <2>2. \A w \in Validators \ {v} : ~(Accumulated(w)' < Accumulated(w))
    BY <1>4, <1>5
  <2> QED BY Zenon, <2>1, <2>2 DEF GoesHome, coins
<1> QED BY Zenon, <1>1, <1>2, <1>7, <1>8, <1>9, <1>10, <1>11 DEF CoinsInv
\* What is paid out to the withdraw addresses of a set of validators.
LEMMA PaidOutNat ==
  ASSUME CoinsInv, NEW gone \in SUBSET Validators
  PROVE  /\ \A v \in Validators : WholeCoins[v] \in Nat /\ Remainders[v] \in Nat
         /\ IsFiniteSet(gone) /\ IsFiniteSet(Validators)
         /\ SumOf(WholeCoins, gone) \in Nat /\ SumOf(Remainders, gone) \in Nat
         /\ \A a \in Addresses : PaidOut(gone, a) \in Nat
         /\ \A v \in gone : Whole(Accumulated(v)) <= PaidOut(gone, withdrawAddr[v])
<1>1. \A v \in Validators : WholeCoins[v] \in Nat /\ Remainders[v] \in Nat
  BY Zenon, WholePart DEF CoinsInv, WholeCoins, Remainders
<1>2. IsFiniteSet(gone) /\ IsFiniteSet(Validators)
  BY Zenon, SharesNat, FS_Subset DEF CoinsInv
<1>3. SumOf(WholeCoins, gone) \in Nat /\ SumOf(Remainders, gone) \in Nat
  BY Zenon, <1>1, <1>2, SumNat
<1>4. ASSUME NEW a
      PROVE  /\ PaidOut(gone, a) \in Nat
             /\ \A v \in gone : withdrawAddr[v] = a => WholeCoins[v] <= PaidOut(gone, a)
  <2> DEFINE T == {v \in gone : withdrawAddr[v] = a}
  <2>1. T \subseteq gone /\ IsFiniteSet(T)
    BY Zenon, <1>2, FS_Subset
  <2>2. \A v \in T : WholeCoins[v] \in Nat
    BY Zenon, <1>1
  <2>3. \A v \in gone : withdrawAddr[v] = a => v \in T
    BY Zenon
  <2>4. PaidOut(gone, a) = SumOf(WholeCoins, T)
    BY Zenon DEF PaidOut
  <2> HIDE DEF T
  <2> QED BY Zenon, <2>1, <2>2, <2>3, <2>4, SumNat
<1>5. \A v \in gone : Whole(Accumulated(v)) <= PaidOut(gone, withdrawAddr[v])
  BY Zenon, <1>4 DEF WholeCoins
<1> QED BY Zenon, <1>1, <1>2, <1>3, <1>4, <1>5

\* Splitting the sum of the commissions over a set of validators.
LEMMA EarnedSplit ==
  ASSUME CoinsInv, NEW gone \in SUBSET Validators
  PROVE  /\ SumOf(Earned, gone) = SumOf(WholeCoins, gone) + SumOf(Remainders, gone)
         /\ SumOf(Earned, gone) \in Nat /\ SumOf(Earned, Validators \ gone) \in Nat
         /\ SumOf(Earned, Validators) = SumOf(Earned, gone) + SumOf(Earned, Validators \ gone)
<1>1. \A v \in Validators : Earned[v] \in Nat
  BY Zenon DEF CoinsInv, Earned
<1>2. \A v \in Validators : WholeCoins[v] \in Int /\ Remainders[v] \in Int /\ Earned[v] = WholeCoins[v] + Remainders[v]
  BY WholePart DEF CoinsInv, WholeCoins, Remainders, Earned
<1> DEFINE rest == Validators \ gone
<1>3. IsFiniteSet(gone) /\ IsFiniteSet(rest) /\ gone \cap rest = {} /\ gone \cup rest = Validators
  BY Zenon, PaidOutNat, FS_Subset
<1>4. \A v \in gone : WholeCoins[v] \in Int /\ Remainders[v] \in Int /\ Earned[v] = WholeCoins[v] + Remainders[v]
  BY Zenon, <1>2
<1>5. SumOf(Earned, gone) = SumOf(WholeCoins, gone) + SumOf(Remainders, gone)
  BY Zenon, <1>3, <1>4, SumPlus
<1> HIDE DEF rest
<1>6. SumOf(Earned, gone) \in Nat /\ SumOf(Earned, rest) \in Nat
  BY Zenon, <1>1, <1>3, SumNat
<1>7. SumOf(Earned, gone \cup rest) = SumOf(Earned, gone) + SumOf(Earned, rest)
  <2>1. \A v \in gone \cup rest : Earned[v] \in Int
    BY <1>1, <1>3
  <2> QED BY Zenon, <1>3, <2>1, SumUnion
<1>8. SumOf(Earned, gone \cup rest) = SumOf(Earned, Validators)
  BY <1>3, Zenon
<1> QED BY Zenon, <1>5, <1>6, <1>7, <1>8 DEF rest

\* The hooks of a staking step: a removed validator's commission leaves as whole coins and
\* as a remainder for the pool, and a created one starts without any.
LEMMA HookCoins ==
  ASSUME CoinsInv, HooksCalled, stk' \in [Validators -> ValidatorView]
  PROVE  CoinsInv' /\ \A v \in Validators : GoesHome(v)
<1>1. PICK removed \in SUBSET Validators, created \in SUBSET Validators :
        /\ removed = {v \in Validators : stk[v].exists /\ ~stk'[v].exists}
        /\ created = {v \in Validators : ~stk[v].exists /\ stk'[v].exists}
        /\ Hooks(removed, created)
  BY Zenon, HooksFound
<1> DEFINE rest == Validators \ removed
           coins == SumOf(WholeCoins, removed)
           left == SumOf(Remainders, removed)
<1>2. RecordsInv /\ RecordsInv'
  BY Zenon, HookRecords DEF CoinsInv
<1>3. /\ commission' = [v \in Validators |-> IF v \in created THEN Record(0)
                          ELSE IF v \in removed THEN NoRecord ELSE commission[v]]
      /\ communityPool' = communityPool + left
      /\ moduleAcc' = moduleAcc - coins
      /\ received' = [a \in Addresses |-> received[a] + PaidOut(removed, a)]
      /\ broken' = IF moduleAcc < coins THEN "missing" ELSE broken
      /\ UNCHANGED <<feeCollector, withdrawAddr>>
  BY Zenon, <1>1 DEF Hooks, CommissionsAfter
<1>4. \A v \in Validators : Accumulated(v) \in Nat /\ withdrawAddr[v] \in Addresses
  BY Zenon DEF CoinsInv
<1>5. \A v \in created : Accumulated(v) = 0
  <2>1. \A v \in created : stk[v].exists # TRUE
    BY Zenon, <1>1
  <2> QED BY Zenon, <1>2, <2>1, RecordFacts DEF RecordsInv, RecordOf, Accumulated
<1>6. /\ \A v \in removed : Accumulated(v)' = 0
      /\ \A v \in rest : Accumulated(v)' = Accumulated(v)
  <2>1. \A v \in Validators : commission'[v] = IF v \in created THEN Record(0)
                          ELSE IF v \in removed THEN NoRecord ELSE commission[v]
    BY Zenon, <1>3
  <2>2. Record(0).coins = 0 /\ NoRecord.coins = 0
    BY Zenon DEF Record, NoRecord
  <2> QED BY Zenon, <1>5, <2>1, <2>2 DEF Accumulated
<1>7. SumOf(Earned', Validators) = SumOf(Earned, rest)
  <2>1. \A v \in Validators : Earned'[v] \in Int
    BY <1>4, <1>6 DEF Earned
  <2>2. \A v \in Validators \ rest : Earned'[v] = 0
    BY Zenon, <1>6 DEF Earned
  <2>3. \A v \in rest : Earned'[v] = Earned[v]
    BY Zenon, <1>6 DEF Earned
  <2>4. IsFiniteSet(Validators) /\ rest \in SUBSET Validators /\ IsFiniteSet(rest)
    BY Zenon, PaidOutNat, FS_Subset
  <2> HIDE DEF rest
  <2>5. SumOf(Earned', Validators) = SumOf(Earned', rest)
    BY Zenon, <2>1, <2>2, <2>4, SumSubset
  <2>6. SumOf(Earned', rest) = SumOf(Earned, rest)
    BY Zenon, <2>3, <2>4, SumEqual
  <2> QED BY Zenon, <2>5, <2>6
<1>8. /\ moduleAcc = communityPool + SumOf(Earned, Validators) /\ communityPool \in Nat
      /\ SumOf(Earned, Validators) = (coins + left) + SumOf(Earned, rest)
      /\ coins \in Nat /\ left \in Nat /\ SumOf(Earned, rest) \in Nat
  BY Zenon, EarnedSplit, PaidOutNat DEF CoinsInv
<1> HIDE DEF coins, left, rest
<1>9. moduleAcc' = communityPool' + SumOf(Earned', Validators) /\ communityPool' \in Nat
  BY <1>3, <1>7, <1>8
<1>10. NeverOverspends'
  <2>1. ~(moduleAcc < coins)
    BY <1>8
  <2> QED BY Zenon, <1>3, <2>1 DEF NeverOverspends, CoinsInv
<1>11. received' \in [Addresses -> Nat]
  <2>1. \A a \in Addresses : received[a] \in Nat /\ PaidOut(removed, a) \in Nat
    BY Zenon, PaidOutNat DEF CoinsInv
  <2> QED BY <1>3, <2>1
<1>12. \A v \in Validators : GoesHome(v)
  <2>1. \A v \in rest : ~(Accumulated(v)' < Accumulated(v))
    BY <1>4, <1>6 DEF rest
  <2>2. \A v \in removed : received'[withdrawAddr[v]] - received[withdrawAddr[v]] >= Whole(Accumulated(v))
    <3> SUFFICES ASSUME NEW v \in removed
                 PROVE  received'[withdrawAddr[v]] - received[withdrawAddr[v]] >= Whole(Accumulated(v))
      BY Zenon
    <3>1. withdrawAddr[v] \in Addresses /\ received[withdrawAddr[v]] \in Nat
      BY Zenon, <1>4 DEF CoinsInv
    <3>2. PaidOut(removed, withdrawAddr[v]) \in Nat /\ Whole(Accumulated(v)) <= PaidOut(removed, withdrawAddr[v])
      BY Zenon, <3>1, PaidOutNat
    <3>3. Whole(Accumulated(v)) \in Nat
      BY Zenon, <1>4, WholePart
    <3>4. received'[withdrawAddr[v]] = received[withdrawAddr[v]] + PaidOut(removed, withdrawAddr[v])
      BY Zenon, <1>3, <3>1
    <3> QED BY <3>1, <3>2, <3>3, <3>4
  <2> QED BY Zenon, <2>1, <2>2 DEF GoesHome, rest
<1>13. \A v \in Validators : Accumulated(v)' \in Nat
  BY <1>4, <1>6 DEF rest
<1>14. withdrawAddr' \in [Validators -> Addresses] /\ feeCollector' \in Nat
  BY Zenon, <1>3 DEF CoinsInv
<1> QED BY Zenon, <1>2, <1>9, <1>10, <1>11, <1>12, <1>13, <1>14 DEF CoinsInv
\* What a restart reads of what was exported: the same withdraw addresses, and for every
\* validator the commission, or what the withdrawal of a zero-height export left of it.
LEMMA Exported ==
  ASSUME CoinsInv, NEW zeroHeight \in BOOLEAN, Restart(zeroHeight)
  PROVE  /\ RecordsInv' /\ withdrawAddr' = withdrawAddr
         /\ \A v \in Validators : Accumulated(v)' = Left(v, Withdrawn(zeroHeight))
<1> DEFINE gone == Withdrawn(zeroHeight)
           data == ExportGenesis(gone)
<1>1. RecordsInv /\ withdrawAddr \in [Validators -> Addresses]
  BY Zenon DEF CoinsInv
<1>2. /\ commission' = [v \in Validators |->
           IF \E c \in data.commissions : c.validator = v
             THEN Record((CHOOSE c \in data.commissions : c.validator = v).coins) ELSE NoRecord]
      /\ withdrawAddr' = [v \in Validators |->
           IF \E i \in data.withdrawInfos : i.delegator = v
             THEN (CHOOSE i \in data.withdrawInfos : i.delegator = v).to ELSE v]
      /\ stk' = stk
  BY Zenon DEF Restart, InitGenesis
<1>3. /\ data.commissions = {[validator |-> v, coins |-> Left(v, gone)] :
                               v \in {w \in Validators : commission[w].found}}
      /\ data.withdrawInfos = {[delegator |-> v, to |-> withdrawAddr[v]] :
                                 v \in {w \in Validators : withdrawAddr[w] # w}}
  BY Zenon DEF ExportGenesis
<1> HIDE DEF data
<1>4. ASSUME NEW v \in Validators
      PROVE  /\ RecordOf(stk'[v], commission'[v])
             /\ Accumulated(v)' = Left(v, gone)
  <2>1. CASE commission[v].found
    <3> DEFINE r == [validator |-> v, coins |-> Left(v, gone)]
    <3>1. r \in data.commissions /\ r.validator = v
      BY Zenon, <1>3, <2>1
    <3>2. \A c \in data.commissions : c.validator = v => c = r
      BY <1>3
    <3>3. (CHOOSE c \in data.commissions : c.validator = v) = r
      <4> HIDE DEF r
      <4> QED BY Zenon, <3>1, <3>2
    <3>4. commission'[v] = Record(r.coins)
      BY Zenon, <1>2, <3>1, <3>3
    <3>5. stk[v].exists = TRUE
      BY Zenon, <1>1, <2>1, RecordFacts DEF RecordsInv, RecordOf, ValidatorView
    <3> QED BY Zenon, <1>2, <3>4, <3>5, RecordFacts DEF RecordOf, Accumulated, Record
  <2>2. CASE ~commission[v].found
    <3>1. ~\E c \in data.commissions : c.validator = v
      BY <1>3, <2>2
    <3>2. commission'[v] = NoRecord
      BY Zenon, <1>2, <3>1
    <3>3. stk[v].exists # TRUE /\ commission[v] = NoRecord
      BY Zenon, <1>1, <2>2 DEF RecordsInv, RecordOf
    <3>4. v \notin gone
      BY Zenon, <1>1, <3>3 DEF Withdrawn, RecordsInv, ValidatorView
    <3> QED BY Zenon, <1>2, <3>2, <3>3, <3>4, RecordFacts DEF RecordOf, Accumulated, Left
  <2> QED BY Zenon, <2>1, <2>2
<1>5. ASSUME NEW v \in Validators PROVE withdrawAddr'[v] = withdrawAddr[v]
  <2>1. CASE withdrawAddr[v] # v
    <3> DEFINE r == [delegator |-> v, to |-> withdrawAddr[v]]
    <3>1. r \in data.withdrawInfos /\ r.delegator = v
      BY Zenon, <1>3, <2>1
    <3>2. \A i \in data.withdrawInfos : i.delegator = v => i = r
      BY <1>3
    <3>3. (CHOOSE i \in data.withdrawInfos : i.delegator = v) = r
      <4> HIDE DEF r
      <4> QED BY Zenon, <3>1, <3>2
    <3> QED BY <1>2, <3>1, <3>3
  <2>2. CASE withdrawAddr[v] = v
    <3>1. ~\E i \in data.withdrawInfos : i.delegator = v
      BY <1>3, <2>2
    <3> QED BY Zenon, <1>2, <2>2, <3>1
  <2> QED BY Zenon, <2>1, <2>2
<1>6. withdrawAddr' = withdrawAddr
  BY Zenon, <1>1, <1>2, <1>5
<1>7. RecordsInv'
  BY Zenon, <1>1, <1>2, <1>4 DEF RecordsInv
<1> QED BY Zenon, <1>4, <1>6, <1>7

\* A restart keeps the coins where they were, but for those it pays out; the module account
\* is only filled from the exported data when that data holds nothing.
LEMMA RestartCoins ==
  ASSUME CoinsInv, NEW zeroHeight \in BOOLEAN, Restart(zeroHeight)
  PROVE  CoinsInv' /\ \A v \in Validators : GoesHome(v)
<1> DEFINE gone == Withdrawn(zeroHeight)
           rest == Validators \ gone
           data == ExportGenesis(gone)
           paid == SumOf(WholeCoins, gone)
           coins == moduleAcc - paid
<1>1. gone \in SUBSET Validators
  BY Zenon DEF Withdrawn
<1>2. /\ communityPool' = communityPool
      /\ moduleAcc' = IF coins = 0 THEN Holdings(data) ELSE coins
      /\ received' = [a \in Addresses |-> received[a] + PaidOut(gone, a)]
      /\ feeCollector' = feeCollector /\ broken' = broken
  BY Zenon DEF Restart, InitGenesis, ExportGenesis
<1>3. /\ RecordsInv' /\ withdrawAddr' = withdrawAddr
      /\ \A v \in Validators : Accumulated(v)' = IF v \in gone THEN Remainder(v) ELSE Accumulated(v)
  BY Zenon, Exported DEF Left
<1>4. /\ \A v \in Validators : Accumulated(v) \in Nat /\ Remainder(v) \in Nat
      /\ \A v \in Validators : withdrawAddr[v] \in Addresses
      /\ moduleAcc = communityPool + SumOf(Earned, Validators) /\ communityPool \in Nat
  BY Zenon, WholePart DEF CoinsInv
<1>5. /\ SumOf(Earned, Validators) = (paid + SumOf(Remainders, gone)) + SumOf(Earned, rest)
      /\ paid \in Nat /\ SumOf(Remainders, gone) \in Nat /\ SumOf(Earned, rest) \in Nat
      /\ IsFiniteSet(gone) /\ IsFiniteSet(rest) /\ IsFiniteSet(Validators)
  BY Zenon, <1>1, EarnedSplit, PaidOutNat, FS_Subset
<1>6. /\ \A v \in Validators : Earned'[v] \in Nat
      /\ \A v \in gone : Earned'[v] = Remainders[v]
      /\ \A v \in rest : Earned'[v] = Earned[v]
  BY Zenon, <1>1, <1>3, <1>4 DEF Earned, Remainders
<1>7. SumOf(Earned', Validators) = SumOf(Remainders, gone) + SumOf(Earned, rest)
  <2>1. \A v \in gone \cup rest : Earned'[v] \in Int
    BY <1>1, <1>6
  <2>2. gone \cup rest = Validators /\ gone \cap rest = {}
    BY Zenon, <1>1
  <2> HIDE DEF gone, rest
  <2>3. SumOf(Earned', gone \cup rest) = SumOf(Earned', gone) + SumOf(Earned', rest)
    BY Zenon, <1>5, <2>1, <2>2, SumUnion
  <2>4. SumOf(Earned', gone \cup rest) = SumOf(Earned', Validators)
    BY <2>2, Zenon
  <2>5. SumOf(Earned', gone) = SumOf(Remainders, gone) /\ SumOf(Earned', rest) = SumOf(Earned, rest)
    BY Zenon, <1>5, <1>6, SumEqual
  <2> QED BY Zenon, <2>3, <2>4, <2>5
<1>8. coins = communityPool + SumOf(Earned', Validators)
  <2> HIDE DEF paid, rest, gone
  <2> QED BY <1>4, <1>5, <1>7
<1>9. ASSUME coins = 0 PROVE Holdings(data) = 0
  <2> DEFINE amounts == [c \in data.commissions |-> c.coins]
  <2>1. SumOf(Earned', Validators) \in Nat /\ \A v \in Validators : Earned'[v] <= SumOf(Earned', Validators)
    BY Zenon, <1>5, <1>6, SumNat
  <2>2. communityPool = 0 /\ SumOf(Earned', Validators) = 0
    <3> HIDE DEF coins
    <3> QED BY <1>4, <1>8, <1>9, <2>1
  <2>3. \A v \in Validators : Left(v, gone) = 0
    <3>1. \A v \in Validators : Earned'[v] = 0
      BY <1>6, <2>1, <2>2
    <3>2. \A v \in Validators : Earned'[v] = Left(v, gone)
      BY Zenon, <1>3 DEF Earned, Left
    <3> QED BY Zenon, <3>1, <3>2
  <2>4. data.commissions = {[validator |-> v, coins |-> Left(v, gone)] :
                              v \in {w \in Validators : commission[w].found}}
    BY Zenon DEF ExportGenesis
  <2>5. \A c \in data.commissions : amounts[c] = 0
    <3> HIDE DEF data
    <3> QED BY <2>3, <2>4
  <2>6. IsFiniteSet(data.commissions)
    <3> DEFINE found == {w \in Validators : commission[w].found}
               f == [v \in found |-> [validator |-> v, coins |-> Left(v, gone)]]
    <3>1. IsFiniteSet(found)
      BY Zenon, <1>5, FS_Subset
    <3>2. data.commissions = {f[v] : v \in found}
      BY Zenon, <2>4
    <3>3. f \in Surjection(found, {f[v] : v \in found})
      BY Zenon DEF Surjection
    <3>4. IsFiniteSet({f[v] : v \in found})
      <4> HIDE DEF f, found
      <4> QED BY Zenon, <3>1, <3>3, FS_Surjection
    <3> QED BY <3>2, <3>4, Zenon
  <2>7. SumOf(amounts, data.commissions) = 0
    <3> HIDE DEF amounts, data
    <3> QED BY Zenon, <2>5, <2>6, SumZero
  <2>8. data.feePool = communityPool
    BY Zenon DEF ExportGenesis
  <2> QED BY <2>2, <2>7, <2>8 DEF Holdings
<1> HIDE DEF coins, data
<1>10. moduleAcc' = communityPool' + SumOf(Earned', Validators)
  BY Zenon, <1>2, <1>8, <1>9
<1>11. received' \in [Addresses -> Nat]
  <2>1. \A a \in Addresses : received[a] \in Nat /\ PaidOut(gone, a) \in Nat
    BY Zenon, <1>1, PaidOutNat DEF CoinsInv
  <2> QED BY <1>2, <2>1
<1>12. ASSUME NEW v \in Validators PROVE GoesHome(v)
  <2>1. CASE v \in gone
    <3>1. received[withdrawAddr[v]] \in Nat /\ withdrawAddr[v] \in Addresses
      BY Zenon, <1>4 DEF CoinsInv
    <3>2. PaidOut(gone, withdrawAddr[v]) \in Nat /\ Whole(Accumulated(v)) <= PaidOut(gone, withdrawAddr[v])
      BY Zenon, <1>1, <2>1, <3>1, PaidOutNat
    <3>3. Whole(Accumulated(v)) \in Nat
      BY Zenon, <1>4, WholePart
    <3>4. received'[withdrawAddr[v]] = received[withdrawAddr[v]] + PaidOut(gone, withdrawAddr[v])
      BY Zenon, <1>2, <3>1
    <3>5. received'[withdrawAddr[v]] - received[withdrawAddr[v]] >= Whole(Accumulated(v))
      BY <3>1, <3>2, <3>3, <3>4
    <3> QED BY Zenon, <3>5 DEF GoesHome
  <2>2. CASE v \notin gone
    <3>1. ~(Accumulated(v)' < Accumulated(v))
      BY <1>3, <1>4, <2>2
    <3> QED BY Zenon, <3>1 DEF GoesHome
  <2> QED BY Zenon, <2>1, <2>2
<1>13. \A v \in Validators : Accumulated(v)' \in Nat
  BY Zenon, <1>3, <1>4
<1>14. NeverOverspends'
  BY Zenon, <1>2 DEF NeverOverspends, CoinsInv
<1>15. withdrawAddr' \in [Validators -> Addresses] /\ feeCollector' \in Nat /\ communityPool' \in Nat
  BY Zenon, <1>2, <1>3 DEF CoinsInv
<1> QED BY Zenon, <1>3, <1>10, <1>11, <1>12, <1>13, <1>14, <1>15 DEF CoinsInv
\* The steps that leave commissions and validators alone.
LEMMA OtherCoins ==
  ASSUME CoinsInv,
         \/ \E v \in Validators, a \in Addresses : handleMsgModifyWithdrawAddress(v, a)
         \/ \E n \in SpendChoices, a \in Addresses : HandleCommunityPoolSpendProposal(n, a)
         \/ \E fees \in FeeChoices : CollectFees(fees)
         \/ UNCHANGED distrVars
  PROVE  CoinsInv' /\ \A v \in Validators : GoesHome(v)
<1>1. commission' = commission /\ stk' = stk /\ broken' = broken
  BY Zenon DEF handleMsgModifyWithdrawAddress, HandleCommunityPoolSpendProposal, CollectFees,
         distrVars, ownVars
<1>2. RecordsInv' /\ NeverOverspends'
  BY Zenon, <1>1 DEF CoinsInv, RecordsInv, NeverOverspends
<1>3. Earned' = Earned /\ \A v \in Validators : Accumulated(v)' = Accumulated(v)
  BY Zenon, <1>1 DEF Earned, Accumulated
<1>4. \A v \in Validators : GoesHome(v)
  BY <1>3 DEF GoesHome, CoinsInv
<1>5. FeeChoices \subseteq Nat /\ SpendChoices \subseteq Nat
  BY Zenon, DistributionAssumption
<1>6. CASE \/ \E v \in Validators, a \in Addresses : handleMsgModifyWithdrawAddress(v, a)
           \/ UNCHANGED distrVars
  <2>1. UNCHANGED <<communityPool, moduleAcc, feeCollector, received>>
    BY Zenon, <1>6 DEF handleMsgModifyWithdrawAddress, distrVars, ownVars
  <2>2. withdrawAddr' \in [Validators -> Addresses]
    BY Zenon, <1>6 DEF CoinsInv, handleMsgModifyWithdrawAddress, distrVars, ownVars
  <2> QED BY Zenon, <1>2, <1>3, <1>4, <2>1, <2>2 DEF CoinsInv
<1>7. ASSUME NEW n \in SpendChoices, NEW a \in Addresses, HandleCommunityPoolSpendProposal(n, a)
      PROVE  CoinsInv'
  <2>1. /\ communityPool >= n /\ communityPool' = communityPool - n /\ moduleAcc' = moduleAcc - n
        /\ received' = [received EXCEPT ![a] = @ + n]
        /\ UNCHANGED <<feeCollector, withdrawAddr>>
    BY Zenon, <1>7 DEF HandleCommunityPoolSpendProposal
  <2>2. /\ communityPool \in Nat /\ n \in Nat /\ received \in [Addresses -> Nat]
        /\ moduleAcc = communityPool + SumOf(Earned, Validators)
    BY Zenon, <1>5 DEF CoinsInv
  <2>3. SumOf(Earned, Validators) \in Int
    <3>1. \A v \in Validators : Earned[v] \in Int
      BY DEF CoinsInv, Earned
    <3> QED BY Zenon, <3>1, DistributionAssumption, SumInt
  <2>4. communityPool' \in Nat /\ moduleAcc' = communityPool' + SumOf(Earned, Validators)
    BY <2>1, <2>2, <2>3
  <2>5. received' \in [Addresses -> Nat]
    BY <2>1, <2>2
  <2> QED BY Zenon, <1>2, <1>3, <2>1, <2>4, <2>5 DEF CoinsInv
<1>8. ASSUME NEW fees \in FeeChoices, CollectFees(fees) PROVE CoinsInv'
  <2>1. /\ feeCollector' = feeCollector + fees
        /\ UNCHANGED <<communityPool, moduleAcc, received, withdrawAddr>>
    BY Zenon, <1>8 DEF CollectFees
  <2>2. feeCollector' \in Nat
    BY <1>5, <2>1 DEF CoinsInv
  <2> QED BY Zenon, <1>2, <1>3, <2>1, <2>2 DEF CoinsInv
<1> QED BY Zenon, <1>4, <1>6, <1>7, <1>8

\* Every step, of a block or of a restart, keeps the coins.
LEMMA CoinsNext ==
  ASSUME CoinsInv, [ChainNext]_distrVars
  PROVE  CoinsInv' /\ \A v \in Validators : GoesHome(v)
<1>1. CASE \E voters \in SUBSET Validators : BeginBlocker(voters)
  BY Zenon, <1>1, AllocateCoins
<1>2. CASE \E v \in Validators : handleMsgWithdrawValidatorCommission(v)
  BY Zenon, <1>2, WithdrawCoins
<1>3. CASE StakingStep
  <2>1. stk' \in [Validators -> ValidatorView]
    BY <1>3, Zenon DEF StakingStep
  <2> QED BY Zenon, <1>3, <2>1, HookCoins DEF StakingStep
<1>4. CASE \E zeroHeight \in BOOLEAN : Restart(zeroHeight)
  BY Zenon, <1>4, RestartCoins
<1>5. CASE \/ \E v \in Validators, a \in Addresses : handleMsgModifyWithdrawAddress(v, a)
           \/ \E n \in SpendChoices, a \in Addresses : HandleCommunityPoolSpendProposal(n, a)
           \/ \E fees \in FeeChoices : CollectFees(fees)
           \/ UNCHANGED distrVars
  BY Zenon, <1>5, OtherCoins
<1> QED
  BY Zenon, <1>1, <1>2, <1>3, <1>4, <1>5 DEF ChainNext, Next

\* So they are kept along every behaviour.
LEMMA CoinsAlways == ChainSpec => []CoinsInv
BY CoinsAtGenesis, CoinsNext, PTL DEF ChainSpec

\* For every set of validators and every arithmetic of fees: a removed validator leaves no
\* commission record behind and no record is missing for one that exists, so hooks.go,
\* allocation.go and a restart never strand or reset earnings.
THEOREM RecordsCorrect == ChainSpec => []RecordsExact
<1>1. CoinsInv => RecordsExact
  BY Zenon, RecordFacts DEF CoinsInv, RecordsInv, RecordOf, RecordsExact, ValidatorView
<1> QED BY CoinsAlways, <1>1, PTL

\* The registered invariants (keeper/invariants.go), for any validators, fees, shares, tax
\* and precision: truncation, removals, withdrawals, proposals and restarts leave exactly the
\* pool and the commissions in the module account.
THEOREM InvariantsCorrect == ChainSpec => []DistributionInvariants
<1>1. ASSUME CoinsInv PROVE DistributionInvariants
  <2> DEFINE here == {v \in Validators : stk[v].exists}
  <2>1. \A v \in Validators : Accumulated(v) \in Nat
    BY Zenon, <1>1 DEF CoinsInv
  <2>2. /\ SumOf(Earned, Validators) = (SumOf(WholeCoins, here) + SumOf(Remainders, here)) + SumOf(Earned, Validators \ here)
        /\ SumOf(WholeCoins, here) \in Nat /\ SumOf(Remainders, here) \in Nat
        /\ SumOf(Earned, Validators \ here) \in Nat
    BY Zenon, <1>1, EarnedSplit, PaidOutNat
  <2>3. communityPool \in Nat /\ moduleAcc = communityPool + SumOf(Earned, Validators)
    BY Zenon, <1>1 DEF CoinsInv
  <2>4. moduleAcc >= SumOf(WholeCoins, here)
    <3> HIDE DEF here
    <3> QED BY <2>2, <2>3
  <2>5. NonNegativeCommissionsInvariant
    BY <2>1 DEF NonNegativeCommissionsInvariant
  <2> QED
    BY Zenon, <2>3, <2>4, <2>5
    DEF DistributionInvariants, CanWithdrawInvariant, ModuleAccountInvariant, Earned
<1> QED BY CoinsAlways, <1>1, PTL

\* No allocation subtracts more than there is and no hook finds coins missing (SysCoins.Sub,
\* SendCoinsFromModuleToAccount), whatever the fees, the shares, the tax and the precision.
THEOREM OverspendsNever == ChainSpec => []NeverOverspends
<1>1. CoinsInv => NeverOverspends
  BY Zenon DEF CoinsInv
<1> QED BY CoinsAlways, <1>1, PTL

\* In any step of the chain, what a validator has earned leaves its commission only as whole
\* coins for the withdraw address it has in that step (WithdrawValidatorCommission,
\* AfterValidatorRemoved, prepForZeroHeightGenesis).
THEOREM EarningsCorrect == ChainSpec => EarningsGoHome
<1>1. ASSUME CoinsInv, [ChainNext]_distrVars
      PROVE  \A v \in Validators :
               Accumulated(v)' < Accumulated(v) =>
                 received'[withdrawAddr[v]] - received[withdrawAddr[v]] >= Whole(Accumulated(v))
  BY Zenon, <1>1, CoinsNext DEF GoesHome
<1> QED BY CoinsAlways, <1>1, PTL DEF ChainSpec, EarningsGoHome
=============================================================================
