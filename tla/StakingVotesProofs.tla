------------------------- MODULE StakingVotesProofs -------------------------
(***************************************************************************)
(* Votes and proxies: what the calls of the keeper do to them, and what a  *)
(* deposit and a withdrawal do.                                            *)
(*                                                                         *)
(* The argument.  VotesOk relates the three tables of shares: what a       *)
(* delegator added to a validator is in all of them.  HoldOk relates the   *)
(* tokens of delegators to the totals of their proxies.  A handler threads *)
(* a store through calls of the keeper, each of which keeps both, provided *)
(* that a vote has a weight: that is what makes a validator without shares *)
(* one that nobody votes for, so that removing it, and creating it again,  *)
(* takes nothing from a delegator.                                         *)
(***************************************************************************)
EXTENDS Integers, FiniteSets, StakingProofs, SumTheorems

----------------------------------------------------------------------------
(* Votes *)

\* The shares of the own msd of a validator.
OwnShares(r) == IF r.msd = 0 THEN 0 ELSE MsdShares

\* What the delegators have added to v.
Added(s, v) == [d \in Delegators |-> s.to[d][v]]

\* The record of a validator agrees with the votes for it, and one that is not there is
\* the empty record; a destroyed validator stays in jail.
ValidatorOk(s, v) ==
  /\ ~Exists(s.val, v) => s.val[v] = NoValidator
  /\ Exists(s.val, v) /\ s.val[v].msd = 0 => s.val[v].jailed
  /\ Exists(s.val, v) => s.val[v].shares = OwnShares(s.val[v]) + SumOf(Added(s, v), Delegators)

\* The vote of d: it is for validators that exist, has a weight, and SharesKey has it.
VoteOk(s, d) ==
  /\ \A v \in s.del[d].vals : Exists(s.val, v)
  /\ s.del[d].shares \in Nat /\ (s.del[d].vals = {} <=> s.del[d].shares = 0)
  /\ \A v \in Validators : s.to[d][v] = IF v \in s.del[d].vals THEN s.del[d].shares ELSE 0

VotesOk(s) ==
  /\ \A v \in Validators : ValidatorOk(s, v)
  /\ \A d \in Delegators : VoteOk(s, d)

\* A week has passed since blockTimestampEpoch.
LEMMA WeightPositive ==
  ASSUME now \in Nat, now >= SecondsPerWeek, NEW n \in Nat \ {0}
  PROVE  calculateWeight(n) \in Nat \ {0}
<1>1. SecondsPerWeek \in Nat \ {0}
  BY Zenon, StakingAssumption
<1>2. now \div SecondsPerWeek \in Nat \ {0}
  BY <1>1
<1>3. \A a, b \in Nat \ {0} : a * b \in Nat \ {0}
  OBVIOUS
<1> QED BY Zenon, <1>2, <1>3 DEF calculateWeight

\* What is added to a validator is natural, and nothing is added to one nobody votes for.
LEMMA AddedNat ==
  ASSUME NEW s, VotesOk(s), NEW v \in Validators
  PROVE  /\ IsFiniteSet(Delegators)
         /\ \A d \in Delegators : Added(s, v)[d] \in Nat
         /\ SumOf(Added(s, v), Delegators) \in Nat
         /\ \A d \in Delegators : s.to[d][v] <= SumOf(Added(s, v), Delegators)
<1>1. \A d \in Delegators : s.to[d][v] \in Nat
  BY DEF VotesOk, VoteOk
<1>2. \A d \in Delegators : Added(s, v)[d] = s.to[d][v]
  BY Zenon DEF Added
<1>3. IsFiniteSet(Delegators)
  BY Zenon, StakingAssumption
<1> QED BY Zenon, <1>1, <1>2, <1>3, SumNat

\* A validator to which nothing is added is in no vote.
LEMMA NoVotes ==
  ASSUME NEW s, VotesOk(s), NEW v \in Validators, SumOf(Added(s, v), Delegators) = 0
  PROVE  \A d \in Delegators : v \notin s.del[d].vals /\ s.to[d][v] = 0
<1> SUFFICES ASSUME NEW d \in Delegators PROVE v \notin s.del[d].vals /\ s.to[d][v] = 0
  BY Zenon
<1>1. s.to[d][v] \in Nat
  BY DEF VotesOk, VoteOk
<1>2. s.to[d][v] = 0
  BY <1>1, AddedNat
<1> QED BY Zenon, <1>2 DEF VotesOk, VoteOk

\* The shares of the validators d votes for include what d added.
LEMMA VoteFacts ==
  ASSUME NEW s, StoreOk(s), VotesOk(s), NEW d \in Delegators
  PROVE  /\ LastVals(s, d) = s.del[d].vals /\ s.del[d].vals \subseteq Validators
         /\ s.del[d].shares \in Nat
         /\ \A v \in Validators : s.val[v].shares \in Int
BY Zenon, StoreFields DEF VotesOk, VoteOk, LastVals, StoreOk, Store, DelegatorRecord, ValidatorRecord

\* When the votes of one delegator and the shares of its validators change together, the
\* tables agree afterwards.
LEMMA RevoteVotes ==
  ASSUME NEW s, StoreOk(s), VotesOk(s), NEW t, NEW d \in Delegators,
         \A e \in Delegators \ {d} : t.del[e].vals = s.del[e].vals /\ t.del[e].shares = s.del[e].shares
                                     /\ \A v \in Validators : t.to[e][v] = s.to[e][v],
         VoteOk(t, d),
         \A v \in Validators :
            \/ /\ Exists(s.val, v) /\ Exists(t.val, v)
               /\ t.val[v].msd = s.val[v].msd /\ t.val[v].jailed = s.val[v].jailed
               /\ t.val[v].shares = s.val[v].shares + (t.to[d][v] - s.to[d][v])
            \/ /\ t.val[v] = NoValidator /\ t.to[d][v] = 0 /\ s.val[v].msd = 0
               /\ Exists(s.val, v) => s.val[v].shares = s.to[d][v]
            \/ t.val[v] = s.val[v] /\ t.to[d][v] = s.to[d][v]
  PROVE  VotesOk(t)
<1>1. \A v \in Validators : NoValidator.status = "none" /\ ~Exists([w \in Validators |-> NoValidator], v)
  BY Zenon DEF NoValidator, Exists
<1>2. ASSUME NEW v \in Validators
      PROVE  SumOf(Added(t, v), Delegators) = SumOf(Added(s, v), Delegators) + (t.to[d][v] - s.to[d][v])
  <2>1. /\ \A e \in Delegators : Added(s, v)[e] \in Int /\ Added(t, v)[e] \in Int
        /\ \A e \in Delegators \ {d} : Added(t, v)[e] = Added(s, v)[e]
        /\ Added(t, v)[d] = t.to[d][v] /\ Added(s, v)[d] = s.to[d][v]
    <3>1. \A e \in Delegators : s.to[e][v] \in Int
      BY DEF VotesOk, VoteOk
    <3>2. t.to[d][v] \in Int
      BY DEF VoteOk
    <3> QED BY Zenon, <3>1, <3>2 DEF Added
  <2>2. IsFiniteSet(Delegators)
    BY Zenon, StakingAssumption
  <2> QED BY <2>1, <2>2, SumChange
<1>3. ASSUME NEW v \in Validators PROVE ValidatorOk(t, v)
  <2> DEFINE a == SumOf(Added(s, v), Delegators)
             b == SumOf(Added(t, v), Delegators)
  <2>1. a \in Nat /\ b = a + (t.to[d][v] - s.to[d][v]) /\ s.to[d][v] \in Nat /\ t.to[d][v] \in Nat
    <3>1. s.to[d][v] \in Nat /\ t.to[d][v] \in Nat
      BY DEF VotesOk, VoteOk
    <3> QED BY Zenon, <1>2, <3>1, AddedNat
  <2>2. ValidatorOk(s, v)
    BY Zenon DEF VotesOk
  <2>3. OwnShares(s.val[v]) \in Nat
    BY Zenon, StakingAssumption DEF OwnShares, MsdShares
  <2> HIDE DEF a, b
  <2>4. CASE t.val[v] = s.val[v] /\ t.to[d][v] = s.to[d][v]
    <3>1. b = a
      BY <2>1, <2>4
    <3> QED BY Zenon, <2>2, <2>4, <3>1 DEF ValidatorOk, Exists, a, b
  <2>5. CASE t.val[v] = NoValidator
    BY <2>5 DEF ValidatorOk, Exists, NoValidator
  <2>6. CASE /\ Exists(s.val, v) /\ Exists(t.val, v)
             /\ t.val[v].msd = s.val[v].msd /\ t.val[v].jailed = s.val[v].jailed
             /\ t.val[v].shares = s.val[v].shares + (t.to[d][v] - s.to[d][v])
    <3>1. OwnShares(t.val[v]) = OwnShares(s.val[v])
      BY Zenon, <2>6 DEF OwnShares
    <3>2. s.val[v].shares = OwnShares(s.val[v]) + a
      BY Zenon, <2>2, <2>6 DEF ValidatorOk, a
    <3>3. t.val[v].shares = OwnShares(t.val[v]) + b
      BY <2>1, <2>3, <2>6, <3>1, <3>2
    <3> QED BY Zenon, <2>2, <2>6, <3>3 DEF ValidatorOk, b
  <2> QED BY Zenon, <2>4, <2>5, <2>6
<1>4. ASSUME NEW e \in Delegators \ {d} PROVE VoteOk(t, e)
  <2>1. VoteOk(s, e)
    BY Zenon DEF VotesOk
  <2>2. ASSUME NEW v \in s.del[e].vals, v \in Validators PROVE Exists(t.val, v)
    <3>1. Exists(s.val, v)
      BY Zenon, <2>1 DEF VoteOk
    <3>2. s.to[e][v] # 0 /\ s.to[e][v] \in Nat
      BY Zenon, <2>1, <2>2 DEF VoteOk
    <3>3. CASE t.val[v] = NoValidator
      <4>1. s.val[v].shares = s.to[d][v] /\ s.val[v].msd = 0
        BY <2>2, <3>1, <3>3 DEF Exists, NoValidator
      <4>2. s.to[d][v] = SumOf(Added(s, v), Delegators)
        <5>1. s.val[v].shares = OwnShares(s.val[v]) + SumOf(Added(s, v), Delegators)
          BY Zenon, <2>2, <3>1 DEF VotesOk, ValidatorOk
        <5> QED BY <2>2, <4>1, <5>1, AddedNat DEF OwnShares
      <4>3. SumOf(Added(t, v), Delegators) = 0
        <5>1. t.to[d][v] = 0
          BY <2>2, <3>1, <3>3 DEF Exists, NoValidator
        <5> QED BY <1>2, <2>2, <4>2, <5>1, AddedNat
      <4>4. Added(t, v)[e] <= 0
        <5>1. \A x \in Delegators : Added(t, v)[x] \in Nat
          <6>1. \A x \in Delegators : s.to[x][v] \in Nat
            BY <2>2 DEF VotesOk, VoteOk
          <6>2. t.to[d][v] \in Nat
            BY <2>2 DEF VoteOk
          <6> QED BY Zenon, <2>2, <6>1, <6>2 DEF Added
        <5>2. IsFiniteSet(Delegators)
          BY Zenon, StakingAssumption
        <5> QED BY Zenon, <4>3, <5>1, <5>2, SumNat
      <4>5. Added(t, v)[e] = s.to[e][v]
        BY Zenon, <2>2 DEF Added
      <4> QED BY <3>2, <4>4, <4>5
    <3> QED BY Zenon, <2>2, <3>1, <3>3 DEF Exists
  <2>3. s.del[e].vals \subseteq Validators
    BY Zenon, VoteFacts
  <2>4. t.del[e].vals = s.del[e].vals /\ t.del[e].shares = s.del[e].shares
    BY Zenon
  <2>5. \A v \in Validators : t.to[e][v] = s.to[e][v]
    BY Zenon
  <2> QED BY <2>1, <2>2, <2>3, <2>4, <2>5 DEF VoteOk
<1> QED BY Zenon, <1>3, <1>4 DEF VotesOk
\* UpdateShares: the tables agree before and after.
LEMMA UpdateSharesVotes ==
  ASSUME NEW s, StoreOk(s), VotesOk(s), now \in Nat, now >= SecondsPerWeek,
         NEW d \in Delegators, NEW tokens \in Nat \ {0}
  PROVE  VotesOk(UpdateShares(s, d, tokens))
<1> DEFINE vs == s.del[d].vals
           shares == calculateWeight(tokens)
           t == UpdateShares(s, d, tokens)
<1>1. shares \in Nat \ {0}
  BY Zenon, WeightPositive
<1>2. /\ LastVals(s, d) = vs /\ vs \subseteq Validators
      /\ s.del[d].shares \in Nat /\ \A v \in Validators : s.val[v].shares \in Int
  BY Zenon, VoteFacts
<1> HIDE DEF shares
<1>3. /\ t.val = [v \in Validators |->
           IF v \in vs THEN [s.val[v] EXCEPT !.shares = (@ - s.del[d].shares) + shares] ELSE s.val[v]]
      /\ t.del = IF vs = {} THEN s.del ELSE [s.del EXCEPT ![d].shares = shares]
      /\ t.to = [s.to EXCEPT ![d] = [v \in Validators |-> IF v \in vs THEN shares ELSE s.to[d][v]]]
  BY Zenon, <1>2 DEF UpdateShares, shares
<1>4. /\ s.del \in [Delegators -> DelegatorRecord] /\ s.to \in [Delegators -> [Validators -> Int]]
      /\ s.val \in [Validators -> ValidatorRecord]
  BY Zenon DEF StoreOk, Store
<1> HIDE DEF t
<1>5. VoteOk(s, d)
  BY Zenon DEF VotesOk
<1>6. /\ \A v \in Validators : t.to[d][v] = IF v \in vs THEN shares ELSE 0
      /\ \A v \in Validators : s.to[d][v] = IF v \in vs THEN s.del[d].shares ELSE 0
      /\ t.del[d].vals = vs
      /\ t.del[d].shares = IF vs = {} THEN s.del[d].shares ELSE shares
  BY <1>3, <1>4, <1>5 DEF VoteOk, DelegatorRecord
<1>7. \A e \in Delegators \ {d} :
        /\ t.del[e].vals = s.del[e].vals /\ t.del[e].shares = s.del[e].shares
        /\ \A v \in Validators : t.to[e][v] = s.to[e][v]
  BY Zenon, <1>3, <1>4
<1>8. ASSUME NEW v \in Validators
      PROVE  \/ /\ Exists(s.val, v) /\ Exists(t.val, v)
                /\ t.val[v].msd = s.val[v].msd /\ t.val[v].jailed = s.val[v].jailed
                /\ t.val[v].shares = s.val[v].shares + (t.to[d][v] - s.to[d][v])
             \/ t.val[v] = s.val[v] /\ t.to[d][v] = s.to[d][v]
  <2>1. CASE v \in vs
    <3>1. t.val[v] = [s.val[v] EXCEPT !.shares = (s.val[v].shares - s.del[d].shares) + shares]
      BY Zenon, <1>3, <2>1
    <3>2. s.val[v] \in ValidatorRecord
      BY Zenon, <1>4
    <3>3. /\ t.val[v].shares = (s.val[v].shares - s.del[d].shares) + shares
          /\ t.val[v].msd = s.val[v].msd /\ t.val[v].jailed = s.val[v].jailed
          /\ t.val[v].status = s.val[v].status
      BY Zenon, <3>1, <3>2 DEF ValidatorRecord
    <3>4. Exists(s.val, v) /\ Exists(t.val, v)
      BY Zenon, <1>5, <2>1, <3>3 DEF VoteOk, Exists
    <3>5. t.to[d][v] = shares /\ s.to[d][v] = s.del[d].shares
      BY Zenon, <1>6, <2>1
    <3>6. t.val[v].shares = s.val[v].shares + (t.to[d][v] - s.to[d][v])
      BY <1>1, <1>2, <3>3, <3>5
    <3> QED BY Zenon, <3>3, <3>4, <3>6
  <2>2. CASE v \notin vs
    BY Zenon, <1>3, <1>6, <2>2
  <2> QED BY Zenon, <2>1, <2>2
<1>9. \A v \in vs : Exists(t.val, v)
  <2> SUFFICES ASSUME NEW v \in vs PROVE Exists(t.val, v)
    BY Zenon
  <2>1. v \in Validators /\ Exists(s.val, v)
    BY Zenon, <1>2, <1>5 DEF VoteOk
  <2> QED BY Zenon, <1>8, <2>1 DEF Exists
<1>10. VoteOk(t, d)
  BY Zenon, <1>1, <1>5, <1>6, <1>9 DEF VoteOk
<1>11. VotesOk(t)
  <2> HIDE DEF vs
  <2> QED BY <1>7, <1>8, <1>10, RevoteVotes
<1> QED BY Zenon, <1>11 DEF t

\* Records of delegators may change in everything but the vote.
LEMMA SameVotes ==
  ASSUME NEW s, VotesOk(s), NEW t, t.val = s.val, t.to = s.to,
         \A e \in Delegators : t.del[e].vals = s.del[e].vals /\ t.del[e].shares = s.del[e].shares
  PROVE  VotesOk(t)
BY DEF VotesOk, ValidatorOk, VoteOk, Added

\* Withdrawing the last shares, once the record of the delegator has forgotten its vote.
LEMMA WithdrawVotes ==
  ASSUME NEW s, StoreOk(s), VotesOk(s), NEW d \in Delegators, NEW r \in DelegatorRecord,
         r.vals = {}, r.shares = 0
  PROVE  VotesOk([WithdrawLastShares(s, d) EXCEPT !.del = [s.del EXCEPT ![d] = r]])
<1> DEFINE vs == s.del[d].vals
           left(v) == s.val[v].shares - s.del[d].shares
           gone(v) == s.val[v].status = "unbonded" /\ s.val[v].msd = 0 /\ left(v) = 0
           t == [WithdrawLastShares(s, d) EXCEPT !.del = [s.del EXCEPT ![d] = r]]
<1>1. /\ LastVals(s, d) = vs /\ vs \subseteq Validators
      /\ s.del[d].shares \in Nat /\ \A v \in Validators : s.val[v].shares \in Int
  BY Zenon, VoteFacts
<1>2. /\ t.val = [v \in Validators |->
               IF v \notin vs THEN s.val[v]
               ELSE IF gone(v) THEN NoValidator
               ELSE [s.val[v] EXCEPT !.shares = left(v)]]
      /\ t.del = [s.del EXCEPT ![d] = r]
      /\ t.to = [s.to EXCEPT ![d] = [v \in Validators |-> IF v \in vs THEN 0 ELSE s.to[d][v]]]
  BY Zenon, <1>1 DEF WithdrawLastShares
<1>3. /\ s.del \in [Delegators -> DelegatorRecord] /\ s.to \in [Delegators -> [Validators -> Int]]
      /\ s.val \in [Validators -> ValidatorRecord]
  BY Zenon DEF StoreOk, Store
<1> HIDE DEF t
<1>4. VoteOk(s, d)
  BY Zenon DEF VotesOk
<1>5. /\ \A v \in Validators : t.to[d][v] = 0
      /\ \A v \in Validators : s.to[d][v] = IF v \in vs THEN s.del[d].shares ELSE 0
      /\ t.del[d] = r
  BY <1>2, <1>3, <1>4 DEF VoteOk
<1>6. \A e \in Delegators \ {d} :
        /\ t.del[e].vals = s.del[e].vals /\ t.del[e].shares = s.del[e].shares
        /\ \A v \in Validators : t.to[e][v] = s.to[e][v]
  BY Zenon, <1>2, <1>3
<1>7. ASSUME NEW v \in Validators
      PROVE  \/ /\ Exists(s.val, v) /\ Exists(t.val, v)
                /\ t.val[v].msd = s.val[v].msd /\ t.val[v].jailed = s.val[v].jailed
                /\ t.val[v].shares = s.val[v].shares + (t.to[d][v] - s.to[d][v])
             \/ /\ t.val[v] = NoValidator /\ t.to[d][v] = 0 /\ s.val[v].msd = 0
                /\ Exists(s.val, v) => s.val[v].shares = s.to[d][v]
             \/ t.val[v] = s.val[v] /\ t.to[d][v] = s.to[d][v]
  <2>1. CASE v \in vs /\ ~gone(v)
    <3>1. t.val[v] = [s.val[v] EXCEPT !.shares = left(v)]
      BY Zenon, <1>2, <2>1
    <3>2. s.val[v] \in ValidatorRecord
      BY Zenon, <1>3
    <3>3. /\ t.val[v].shares = left(v)
          /\ t.val[v].msd = s.val[v].msd /\ t.val[v].jailed = s.val[v].jailed
          /\ t.val[v].status = s.val[v].status
      BY Zenon, <3>1, <3>2 DEF ValidatorRecord
    <3>4. Exists(s.val, v) /\ Exists(t.val, v)
      BY Zenon, <1>4, <2>1, <3>3 DEF VoteOk, Exists
    <3>5. t.to[d][v] = 0 /\ s.to[d][v] = s.del[d].shares
      BY Zenon, <1>5, <2>1
    <3>6. t.val[v].shares = s.val[v].shares + (t.to[d][v] - s.to[d][v])
      BY <1>1, <3>3, <3>5
    <3> QED BY Zenon, <3>3, <3>4, <3>6
  <2>2. CASE v \in vs /\ gone(v)
    <3>1. t.val[v] = NoValidator /\ t.to[d][v] = 0 /\ s.val[v].msd = 0
      BY Zenon, <1>2, <1>5, <2>2
    <3>2. left(v) = 0 /\ s.to[d][v] = s.del[d].shares
      BY Zenon, <1>5, <2>2
    <3>3. s.val[v].shares = s.to[d][v]
      BY <1>1, <3>2
    <3> QED BY Zenon, <3>1, <3>3
  <2>3. CASE v \notin vs
    BY Zenon, <1>2, <1>5, <2>3
  <2> QED BY Zenon, <2>1, <2>2, <2>3
<1>8. VoteOk(t, d)
  BY <1>5 DEF VoteOk
<1>9. VotesOk(t)
  <2> HIDE DEF vs, gone, left
  <2> QED BY <1>6, <1>7, <1>8, RevoteVotes
<1> QED BY Zenon, <1>9 DEF t

\* AddSharesToValidators, of a delegator that has no vote.
LEMMA AddSharesVotes ==
  ASSUME NEW s, StoreOk(s), VotesOk(s), now \in Nat, now >= SecondsPerWeek,
         NEW d \in Delegators, NEW tokens \in Nat \ {0}, NEW vs \in SUBSET Validators,
         vs # {}, \A v \in vs : Exists(s.val, v),
         s.del[d].vals = {}
  PROVE  VotesOk(AddShares(s, d, vs, tokens))
<1> DEFINE shares == calculateWeight(tokens)
           t == AddShares(s, d, vs, tokens)
<1>1. shares \in Nat \ {0}
  BY Zenon, WeightPositive
<1> HIDE DEF shares
<1>2. /\ t.val = [v \in Validators |->
               IF v \in vs THEN [s.val[v] EXCEPT !.shares = @ + shares] ELSE s.val[v]]
      /\ t.del = [s.del EXCEPT ![d].vals = vs, ![d].shares = shares]
      /\ t.to = [s.to EXCEPT ![d] = [v \in Validators |-> IF v \in vs THEN shares ELSE s.to[d][v]]]
  BY Zenon DEF AddShares, shares
<1>3. /\ s.del \in [Delegators -> DelegatorRecord] /\ s.to \in [Delegators -> [Validators -> Int]]
      /\ s.val \in [Validators -> ValidatorRecord]
  BY Zenon DEF StoreOk, Store
<1> HIDE DEF t
<1>4. \A v \in Validators : s.to[d][v] = 0 /\ s.val[v].shares \in Int
  BY Zenon, <1>3 DEF VotesOk, VoteOk, ValidatorRecord
<1>5. /\ \A v \in Validators : t.to[d][v] = IF v \in vs THEN shares ELSE 0
      /\ t.del[d].vals = vs /\ t.del[d].shares = shares
  BY <1>2, <1>3, <1>4 DEF DelegatorRecord
<1>6. \A e \in Delegators \ {d} :
        /\ t.del[e].vals = s.del[e].vals /\ t.del[e].shares = s.del[e].shares
        /\ \A v \in Validators : t.to[e][v] = s.to[e][v]
  BY Zenon, <1>2, <1>3
<1>7. ASSUME NEW v \in Validators
      PROVE  \/ /\ Exists(s.val, v) /\ Exists(t.val, v)
                /\ t.val[v].msd = s.val[v].msd /\ t.val[v].jailed = s.val[v].jailed
                /\ t.val[v].shares = s.val[v].shares + (t.to[d][v] - s.to[d][v])
             \/ t.val[v] = s.val[v] /\ t.to[d][v] = s.to[d][v]
  <2>1. CASE v \in vs
    <3>1. t.val[v] = [s.val[v] EXCEPT !.shares = s.val[v].shares + shares]
      BY Zenon, <1>2, <2>1
    <3>2. s.val[v] \in ValidatorRecord
      BY Zenon, <1>3
    <3>3. /\ t.val[v].shares = s.val[v].shares + shares
          /\ t.val[v].msd = s.val[v].msd /\ t.val[v].jailed = s.val[v].jailed
          /\ t.val[v].status = s.val[v].status
      BY Zenon, <3>1, <3>2 DEF ValidatorRecord
    <3>4. Exists(s.val, v) /\ Exists(t.val, v)
      BY Zenon, <2>1, <3>3 DEF Exists
    <3>5. t.val[v].shares = s.val[v].shares + (t.to[d][v] - s.to[d][v])
      BY <1>1, <1>4, <1>5, <2>1, <3>3
    <3> QED BY Zenon, <3>3, <3>4, <3>5
  <2>2. CASE v \notin vs
    BY Zenon, <1>2, <1>4, <1>5, <2>2
  <2> QED BY Zenon, <2>1, <2>2
<1>8. VoteOk(t, d)
  <2>1. \A v \in vs : Exists(t.val, v)
    BY Zenon, <1>7 DEF Exists
  <2> QED BY Zenon, <1>1, <1>5, <2>1 DEF VoteOk
<1>9. VotesOk(t)
  BY <1>6, <1>7, <1>8, RevoteVotes
<1> QED BY Zenon, <1>9 DEF t
----------------------------------------------------------------------------
(* Proxies *)

\* What a delegator with record r contributes to the total of p.
Part(r, p) == IF r.proxy = p THEN r.tokens ELSE 0

Parts(dl, p) == [d \in Delegators |-> Part(dl[d], p)]

\* The records of the delegators agree with the binding keys pb and with each other.
HoldOk(dl, pb) ==
  /\ pb = {<<dl[d].proxy, d>> : d \in {e \in Delegators : dl[e].proxy # NoProxy}}
  /\ \A d \in Delegators : dl[d].proxy # NoProxy =>
       /\ dl[d].found /\ ~dl[d].isProxy /\ dl[d].shares = 0
       /\ dl[dl[d].proxy].found /\ dl[dl[d].proxy].isProxy
  /\ \A d \in Delegators : IF dl[d].found THEN dl[d].tokens > 0 ELSE dl[d] = NoDelegator
  /\ \A p \in Delegators : dl[p].total = SumOf(Parts(dl, p), Delegators)

\* The fields of a delegator that BindingsExact is about, without its total.
SameHold(r, r2) == /\ r2.found = r.found /\ r2.isProxy = r.isProxy
                   /\ r2.tokens = r.tokens /\ r2.proxy = r.proxy
                   /\ r.proxy # NoProxy => r2.shares = r.shares
                   /\ ~r.found => r2 = r

\* A handler changes the record of one delegator, and the totals by what it contributes.
HoldStep(dl, dl2, d) ==
  /\ \A e \in Delegators \ {d} : SameHold(dl[e], dl2[e])
  /\ \A p \in Delegators : dl2[p].total = dl[p].total + (Part(dl2[d], p) - Part(dl[d], p))
  /\ IF dl2[d].found THEN dl2[d].tokens > 0 ELSE dl2[d] = NoDelegator
  /\ dl2[d].proxy # NoProxy =>
       /\ dl2[d].found /\ ~dl2[d].isProxy /\ dl2[d].shares = 0
       /\ dl2[d].proxy # d /\ dl[dl2[d].proxy].found /\ dl[dl2[d].proxy].isProxy
  /\ dl[d].isProxy => dl2[d].found /\ dl2[d].isProxy

\* The binding keys after the handler wrote the record of d.
BindingsAfter(pb, dl, dl2, d) ==
  (pb \ {<<dl[d].proxy, d>>}) \cup (IF dl2[d].proxy = NoProxy THEN {} ELSE {<<dl2[d].proxy, d>>})

\* The total of a proxy is not negative.
LEMMA HoldFacts ==
  ASSUME NEW dl \in [Delegators -> DelegatorRecord], NEW pb, HoldOk(dl, pb), NEW p \in Delegators
  PROVE  /\ dl[p].total \in Nat
         /\ dl[p].found => dl[p].tokens \in Nat \ {0} /\ dl[p].tokens + dl[p].total \in Nat \ {0}
         /\ dl[p].tokens \in Nat
         /\ \A d \in Delegators : dl[d].proxy = p => dl[d].tokens <= dl[p].total
<1>1. \A d \in Delegators : dl[d].tokens \in Nat
  BY Zenon DEF DelegatorRecord
<1>2. \A d \in Delegators : Parts(dl, p)[d] = Part(dl[d], p)
  BY Zenon DEF Parts
<1>3. \A d \in Delegators : Parts(dl, p)[d] \in Nat
  BY <1>1, <1>2 DEF Part
<1>4. IsFiniteSet(Delegators)
  BY Zenon, StakingAssumption
<1>5. /\ SumOf(Parts(dl, p), Delegators) \in Nat
      /\ \A d \in Delegators : Parts(dl, p)[d] <= SumOf(Parts(dl, p), Delegators)
  BY Zenon, <1>3, <1>4, SumNat
<1>6. dl[p].total = SumOf(Parts(dl, p), Delegators)
  BY Zenon DEF HoldOk
<1>7. \A d \in Delegators : dl[d].proxy = p => dl[d].tokens <= dl[p].total
  BY Zenon, <1>2, <1>5, <1>6 DEF Part
<1>8. dl[p].total \in Nat /\ dl[p].tokens \in Nat
  BY Zenon, <1>1, <1>5, <1>6
<1>9. dl[p].found => dl[p].tokens > 0
  BY Zenon DEF HoldOk
<1> QED BY <1>7, <1>8, <1>9

\* Nobody is bound to a delegator that is not a proxy.
LEMMA NotProxy ==
  ASSUME NEW dl \in [Delegators -> DelegatorRecord], NEW pb, HoldOk(dl, pb), NEW p \in Delegators,
         ~dl[p].isProxy
  PROVE  dl[p].total = 0
<1>1. \A d \in Delegators : dl[d].proxy # p
  BY StakingAssumption DEF HoldOk
<1>2. \A d \in Delegators : Parts(dl, p)[d] = 0
  BY Zenon, <1>1 DEF Parts, Part
<1>3. IsFiniteSet(Delegators)
  BY Zenon, StakingAssumption
<1>4. SumOf(Parts(dl, p), Delegators) = 0
  BY Zenon, <1>2, <1>3, SumZero
<1> QED BY Zenon, <1>4 DEF HoldOk

\* The change of one delegator keeps the agreement.
LEMMA HoldChange ==
  ASSUME NEW dl \in [Delegators -> DelegatorRecord], NEW dl2 \in [Delegators -> DelegatorRecord],
         NEW pb, NEW pb2, HoldOk(dl, pb), NEW d \in Delegators, HoldStep(dl, dl2, d),
         pb2 = BindingsAfter(pb, dl, dl2, d)
  PROVE  HoldOk(dl2, pb2)
<1>1. \A e \in Delegators : dl[e].tokens \in Int /\ dl2[e].tokens \in Int
  BY DEF DelegatorRecord
<1>2. ASSUME NEW p \in Delegators PROVE dl2[p].total = SumOf(Parts(dl2, p), Delegators)
  <2>1. \A e \in Delegators : Parts(dl, p)[e] = Part(dl[e], p) /\ Parts(dl2, p)[e] = Part(dl2[e], p)
    BY Zenon DEF Parts
  <2>2. \A e \in Delegators : Parts(dl, p)[e] \in Int /\ Parts(dl2, p)[e] \in Int
    BY <1>1, <2>1 DEF Part
  <2>3. \A e \in Delegators \ {d} : Parts(dl, p)[e] = Parts(dl2, p)[e]
    BY <2>1 DEF Part, HoldStep, SameHold
  <2>4. IsFiniteSet(Delegators)
    BY Zenon, StakingAssumption
  <2>5. SumOf(Parts(dl2, p), Delegators)
          = SumOf(Parts(dl, p), Delegators) + (Parts(dl2, p)[d] - Parts(dl, p)[d])
    BY <2>2, <2>3, <2>4, SumChange
  <2> QED BY <2>1, <2>5 DEF HoldOk, HoldStep
<1>3. ASSUME NEW e \in Delegators
      PROVE  /\ IF dl2[e].found THEN dl2[e].tokens > 0 ELSE dl2[e] = NoDelegator
             /\ dl2[e].proxy # NoProxy =>
                  /\ dl2[e].found /\ ~dl2[e].isProxy /\ dl2[e].shares = 0
                  /\ dl2[dl2[e].proxy].found /\ dl2[dl2[e].proxy].isProxy
  <2>1. dl2[e].proxy \in Delegators \cup {NoProxy}
    BY Zenon DEF DelegatorRecord
  <2>2. CASE e = d
    BY Zenon, <2>1, <2>2 DEF HoldStep, SameHold
  <2>3. CASE e # d
    <3>1. SameHold(dl[e], dl2[e])
      BY Zenon, <2>3 DEF HoldStep
    <3>2. IF dl2[e].found THEN dl2[e].tokens > 0 ELSE dl2[e] = NoDelegator
      BY Zenon, <3>1 DEF SameHold, HoldOk
    <3>3. ASSUME dl2[e].proxy # NoProxy
          PROVE  /\ dl2[e].found /\ ~dl2[e].isProxy /\ dl2[e].shares = 0
                 /\ dl2[dl2[e].proxy].found /\ dl2[dl2[e].proxy].isProxy
      <4>1. /\ dl[e].found /\ ~dl[e].isProxy /\ dl[e].shares = 0
            /\ dl[dl[e].proxy].found /\ dl[dl[e].proxy].isProxy
        BY Zenon, <3>1, <3>3 DEF SameHold, HoldOk
      <4>2. dl2[e].proxy = dl[e].proxy
        BY Zenon, <3>1 DEF SameHold
      <4> QED BY <2>1, <3>1, <3>3, <4>1, <4>2 DEF HoldStep, SameHold
    <3> QED BY Zenon, <3>2, <3>3
  <2> QED BY Zenon, <2>2, <2>3
<1>4. pb2 = {<<dl2[e].proxy, e>> : e \in {f \in Delegators : dl2[f].proxy # NoProxy}}
  <2>1. pb = {<<dl[e].proxy, e>> : e \in {f \in Delegators : dl[f].proxy # NoProxy}}
    BY Zenon DEF HoldOk
  <2>2. \A e \in Delegators \ {d} : dl2[e].proxy = dl[e].proxy
    BY Zenon DEF HoldStep, SameHold
  <2> QED BY <2>1, <2>2 DEF BindingsAfter
<1> QED BY Zenon, <1>2, <1>3, <1>4 DEF HoldOk

\* UpdateShares writes the shares of a delegator that is not bound.
LEMMA UpdateSharesHold ==
  ASSUME NEW s, StoreOk(s), NEW d \in Delegators, NEW tokens, s.del[d].proxy = NoProxy, s.del[d].found
  PROVE  \A e \in Delegators : /\ SameHold(s.del[e], UpdateShares(s, d, tokens).del[e])
                               /\ UpdateShares(s, d, tokens).del[e].total = s.del[e].total
                               /\ e # d => UpdateShares(s, d, tokens).del[e] = s.del[e]
<1> DEFINE shares == calculateWeight(tokens)
<1>1. UpdateShares(s, d, tokens).del
        = IF LastVals(s, d) = {} THEN s.del ELSE [s.del EXCEPT ![d].shares = shares]
  BY Zenon DEF UpdateShares
<1> HIDE DEF shares
<1>2. s.del \in [Delegators -> DelegatorRecord]
  BY Zenon DEF StoreOk, Store
<1>3. LET r == [s.del[d] EXCEPT !.shares = shares]
      IN  /\ r.found = s.del[d].found /\ r.isProxy = s.del[d].isProxy /\ r.tokens = s.del[d].tokens
          /\ r.proxy = s.del[d].proxy /\ r.total = s.del[d].total
  BY Zenon, <1>2 DEF DelegatorRecord
<1> QED BY Zenon, <1>1, <1>2, <1>3 DEF SameHold
\* The fields stay the same over several writes.
LEMMA SameHoldTransitive ==
  ASSUME NEW a, NEW b, NEW c, SameHold(a, b), SameHold(b, c)
  PROVE  SameHold(a, c)
BY Zenon DEF SameHold

\* What a table has after the record under one key was replaced.
LEMMA ExceptAt ==
  ASSUME NEW S, NEW T, NEW f \in [S -> T], NEW x \in S, NEW y
  PROVE  [f EXCEPT ![x] = y][x] = y /\ \A z \in S \ {x} : [f EXCEPT ![x] = y][z] = f[z]
  OBVIOUS

\* A delegator that keeps its proxy keeps its binding key.
LEMMA SameBindings ==
  ASSUME NEW dl, NEW pb, HoldOk(dl, pb), NEW dl2, NEW d \in Delegators, dl2[d].proxy = dl[d].proxy
  PROVE  BindingsAfter(pb, dl, dl2, d) = pb
<1>1. dl[d].proxy = NoProxy => <<dl[d].proxy, d>> \notin pb
  BY DEF HoldOk
<1>2. dl[d].proxy # NoProxy => <<dl[d].proxy, d>> \in pb
  BY Zenon DEF HoldOk
<1> QED BY Zenon, <1>1, <1>2 DEF BindingsAfter

\* UpdateShares of a delegator that is not bound completes a change of the tables.
LEMMA HoldStepUpdate ==
  ASSUME NEW dl, NEW s, StoreOk(s), NEW d \in Delegators, HoldStep(dl, s.del, d),
         NEW e \in Delegators, NEW tokens, s.del[e].proxy = NoProxy, s.del[e].found
  PROVE  HoldStep(dl, UpdateShares(s, e, tokens).del, d)
<1> DEFINE u == UpdateShares(s, e, tokens)
<1>1. \A f \in Delegators : SameHold(s.del[f], u.del[f]) /\ u.del[f].total = s.del[f].total
  BY UpdateSharesHold
<1> HIDE DEF u
<1>2. \A f \in Delegators \ {d} : SameHold(dl[f], u.del[f])
  BY Zenon, <1>1, SameHoldTransitive DEF HoldStep
<1>3. \A p \in Delegators : Part(u.del[d], p) = Part(s.del[d], p)
  BY Zenon, <1>1 DEF Part, SameHold
<1>4. \A p \in Delegators : u.del[p].total = dl[p].total + (Part(u.del[d], p) - Part(dl[d], p))
  BY Zenon, <1>1, <1>3 DEF HoldStep
<1>5. SameHold(s.del[d], u.del[d])
  BY Zenon, <1>1
<1>6. HoldStep(dl, u.del, d)
  BY Zenon, <1>2, <1>4, <1>5 DEF HoldStep, SameHold
<1> QED BY Zenon, <1>6 DEF u

\* The total of p, if it is a proxy, changes by n.
TotalStep(dl, dl2, p, n) ==
  \A e \in Delegators : /\ SameHold(dl[e], dl2[e])
                        /\ dl2[e].total = dl[e].total + (IF e = p THEN n ELSE 0)
                        /\ e # p => dl2[e] = dl[e]

\* UpdateProxy changes the total of the proxy, and its shares.
LEMMA UpdateProxyHold ==
  ASSUME NEW s, StoreOk(s), NEW d \in Delegators, NEW tokens \in Int,
         s.del[d].proxy # NoProxy =>
           s.del[s.del[d].proxy].found /\ s.del[s.del[d].proxy].proxy = NoProxy,
         NEW u, u = UpdateProxy(s, d, tokens)
  PROVE  TotalStep(s.del, u.del, s.del[d].proxy, tokens)
<1> DEFINE p == s.del[d].proxy
           total == s.del[p].total + tokens
           s2 == [s EXCEPT !.del = [s.del EXCEPT ![p] = [s.del[p] EXCEPT !.total = total]]]
<1>0. \A e \in Delegators : s.del[e].total \in Int
  BY Zenon, StoreFields
<1>1. CASE p = NoProxy
  <2>1. u = s /\ NoProxy \notin Delegators
    BY Zenon, <1>1, StakingAssumption DEF UpdateProxy
  <2> QED BY <1>0, <1>1, <2>1 DEF SameHold, TotalStep
<1>2. CASE p # NoProxy
  <2>1. p \in Delegators
    BY Zenon, <1>2, StoreFields
  <2>2. total \in Int /\ s.del \in [Delegators -> DelegatorRecord]
    BY <2>1, StoreFields DEF StoreOk, Store
  <2>3. [s.del[p] EXCEPT !.total = total] \in DelegatorRecord
    BY Zenon, <2>1, <2>2, StoreFields, DelegatorEdits
  <2>4. StoreOk(s2)
    BY Zenon, <2>1, <2>3, SetDelegatorSound DEF Sound
  <2>5. u = UpdateShares(s2, p, total + s.del[p].tokens)
    BY Zenon, <1>2 DEF UpdateProxy
  <2>6. s2.del = [s.del EXCEPT ![p] = [s.del[p] EXCEPT !.total = total]]
    BY <2>1, <2>3, SetDelegatorSound
  <2> HIDE DEF s2
  <2>7. /\ \A e \in Delegators \ {p} : s2.del[e] = s.del[e]
        /\ s2.del[p].total = total /\ SameHold(s.del[p], s2.del[p])
        /\ s2.del[p].found /\ s2.del[p].proxy = NoProxy
    <3>1. s.del[p] \in DelegatorRecord /\ s.del[p].found /\ s.del[p].proxy = NoProxy
      BY Zenon, <1>2, <2>1, <2>2
    <3>2. s2.del[p] = [s.del[p] EXCEPT !.total = total]
      <4> DEFINE r == [s.del[p] EXCEPT !.total = total]
      <4>1. s2.del = [s.del EXCEPT ![p] = r]
        BY Zenon, <2>6
      <4> HIDE DEF r, p
      <4>2. s2.del[p] = r
        BY Zenon, <2>1, <2>2, <4>1, ExceptAt
      <4> QED BY Zenon, <4>2 DEF r
    <3>3. /\ s2.del[p].total = total /\ s2.del[p].found = s.del[p].found
          /\ s2.del[p].isProxy = s.del[p].isProxy /\ s2.del[p].tokens = s.del[p].tokens
          /\ s2.del[p].proxy = s.del[p].proxy /\ s2.del[p].shares = s.del[p].shares
      BY <3>1, <3>2, ZenonT(20) DEF DelegatorRecord
    <3>4. \A e \in Delegators \ {p} : s2.del[e] = s.del[e]
      BY Zenon, <2>6, <2>2
    <3> QED BY Zenon, <3>1, <3>3, <3>4 DEF SameHold
  <2>8. \A e \in Delegators : /\ SameHold(s2.del[e], u.del[e]) /\ u.del[e].total = s2.del[e].total
                              /\ e # p => u.del[e] = s2.del[e]
    <3> DEFINE n == total + s.del[p].tokens
    <3> HIDE DEF n, p
    <3>1. u = UpdateShares(s2, p, n)
      BY Zenon, <2>5 DEF n, p
    <3>2. p \in Delegators /\ s2.del[p].proxy = NoProxy /\ s2.del[p].found
      BY Zenon, <2>1, <2>7
    <3>3. StoreOk(s2)
      BY Zenon, <2>4
    <3>4. \A e \in Delegators :
            /\ SameHold(s2.del[e], UpdateShares(s2, p, n).del[e])
            /\ UpdateShares(s2, p, n).del[e].total = s2.del[e].total
            /\ e # p => UpdateShares(s2, p, n).del[e] = s2.del[e]
      BY <3>2, <3>3, UpdateSharesHold
    <3> QED BY Zenon, <3>1, <3>4
  <2>9. ASSUME NEW e \in Delegators
        PROVE  /\ SameHold(s.del[e], u.del[e])
               /\ u.del[e].total = s.del[e].total + (IF e = p THEN tokens ELSE 0)
               /\ e # p => u.del[e] = s.del[e]
    <3>1. CASE e = p
      <4>1. SameHold(s.del[e], u.del[e])
        BY Zenon, <2>7, <2>8, <3>1, SameHoldTransitive
      <4>2. u.del[e].total = s2.del[p].total
        BY Zenon, <2>8, <3>1
      <4> QED BY Zenon, <2>7, <3>1, <4>1, <4>2
    <3>2. CASE e # p
      <4>1. s2.del[e] = s.del[e] /\ u.del[e] = s.del[e] /\ SameHold(s.del[e], u.del[e])
        BY Zenon, <2>7, <2>8, <3>2
      <4>2. s.del[e].total \in Int
        <5>1. s.del[e] \in DelegatorRecord
          BY Zenon, <2>2
        <5> QED BY <5>1 DEF DelegatorRecord
      <4>3. s.del[e].total + 0 = s.del[e].total
        BY <4>2
      <4> QED BY Zenon, <3>2, <4>1, <4>3
    <3> QED BY Zenon, <3>1, <3>2
  <2> QED BY Zenon, <2>9 DEF TotalStep
<1> QED BY Zenon, <1>1, <1>2

\* UpdateProxy keeps the tables of shares in agreement.
LEMMA UpdateProxyVotes ==
  ASSUME NEW s, StoreOk(s), VotesOk(s), now \in Nat, now >= SecondsPerWeek,
         NEW d \in Delegators, NEW tokens \in Int,
         s.del[d].proxy # NoProxy =>
           (s.del[s.del[d].proxy].total + tokens) + s.del[s.del[d].proxy].tokens \in Nat \ {0}
  PROVE  VotesOk(UpdateProxy(s, d, tokens))
<1> DEFINE p == s.del[d].proxy
           total == s.del[p].total + tokens
           r == [s.del[p] EXCEPT !.total = total]
           s2 == [s EXCEPT !.del = [s.del EXCEPT ![p] = r]]
<1>1. CASE p = NoProxy
  BY Zenon, <1>1 DEF UpdateProxy
<1>2. CASE p # NoProxy
  <2>1. p \in Delegators
    BY Zenon, <1>2, StoreFields
  <2>2. total \in Int /\ s.del \in [Delegators -> DelegatorRecord]
    BY <2>1, StoreFields DEF StoreOk, Store
  <2>3. r \in DelegatorRecord
    BY Zenon, <2>1, <2>2, StoreFields, DelegatorEdits
  <2>4. StoreOk(s2) /\ s2.val = s.val /\ s2.to = s.to /\ s2.del = [s.del EXCEPT ![p] = r]
    <3> HIDE DEF r, p
    <3>1. Sound(s, s2) /\ s2.val = s.val /\ s2.to = s.to /\ s2.del = [s.del EXCEPT ![p] = r]
      BY <2>1, <2>3, SetDelegatorSound
    <3> HIDE DEF s2
    <3> QED BY Zenon, <3>1 DEF Sound
  <2>5. UpdateProxy(s, d, tokens) = UpdateShares(s2, p, total + s.del[p].tokens)
    BY Zenon, <1>2 DEF UpdateProxy
  <2> HIDE DEF s2
  <2>6. \A e \in Delegators : s2.del[e].vals = s.del[e].vals /\ s2.del[e].shares = s.del[e].shares
    <3>1. s2.del[p] = r /\ \A e \in Delegators \ {p} : s2.del[e] = s.del[e]
      <4> HIDE DEF r, p
      <4> QED BY Zenon, <2>1, <2>2, <2>4, ExceptAt
    <3>2. s.del[p] \in DelegatorRecord
      BY Zenon, <2>1, <2>2
    <3>3. r.vals = s.del[p].vals /\ r.shares = s.del[p].shares
      <4> HIDE DEF p, total
      <4> QED BY Zenon, <3>2 DEF DelegatorRecord
    <3> HIDE DEF r, p
    <3> QED BY Zenon, <3>1, <3>3
  <2>7. VotesOk(s2)
    BY Zenon, <2>4, <2>6, SameVotes
  <2>8. total + s.del[p].tokens \in Nat \ {0}
    BY Zenon, <1>2
  <2> DEFINE n == total + s.del[p].tokens
  <2> HIDE DEF n, p
  <2>9. p \in Delegators /\ n \in Nat \ {0} /\ UpdateProxy(s, d, tokens) = UpdateShares(s2, p, n)
    BY Zenon, <2>1, <2>5, <2>8 DEF n, p
  <2>10. StoreOk(s2) /\ p \in Delegators /\ n \in Nat \ {0}
    BY Zenon, <2>4, <2>9
  <2>11. VotesOk(UpdateShares(s2, p, n))
    BY Zenon, <2>7, <2>10, UpdateSharesVotes
  <2> QED BY Zenon, <2>9, <2>11
<1> QED BY Zenon, <1>1, <1>2

----------------------------------------------------------------------------
(* The msd of the validators *)

\* Nobody's msd changes, and a validator that has one is not removed.
KeepsMsd(vl, vl2) ==
  \A v \in Validators : vl2[v].msd = vl[v].msd /\ (vl[v].msd # 0 => vl2[v].status = vl[v].status)

\* Two calls of the keeper one after the other.
LEMMA KeepsMsdTransitive ==
  ASSUME NEW a, NEW b, NEW c, KeepsMsd(a, b), KeepsMsd(b, c)
  PROVE  KeepsMsd(a, c)
BY Zenon DEF KeepsMsd

\* UpdateShares changes shares only.
LEMMA UpdateSharesMsd ==
  ASSUME NEW s, StoreOk(s), NEW d, NEW tokens
  PROVE  KeepsMsd(s.val, UpdateShares(s, d, tokens).val)
BY Zenon DEF UpdateShares, KeepsMsd, StoreOk, Store, ValidatorRecord

\* WithdrawLastShares removes no validator that has an msd.
LEMMA WithdrawLastSharesMsd ==
  ASSUME NEW s, StoreOk(s), NEW d
  PROVE  KeepsMsd(s.val, WithdrawLastShares(s, d).val)
<1> DEFINE left(v) == s.val[v].shares - s.del[d].shares
           gone(v) == s.val[v].status = "unbonded" /\ s.val[v].msd = 0 /\ left(v) = 0
<1>1. WithdrawLastShares(s, d).val =
         [v \in Validators |-> IF v \notin LastVals(s, d) THEN s.val[v]
                               ELSE IF gone(v) THEN NoValidator
                               ELSE [s.val[v] EXCEPT !.shares = left(v)]]
  BY Zenon DEF WithdrawLastShares
<1>2. \A v \in Validators : s.val[v] \in ValidatorRecord /\ (gone(v) => s.val[v].msd = 0)
  BY Zenon DEF StoreOk, Store
<1> HIDE DEF gone, left
<1>3. NoValidator.msd = 0
  BY Zenon DEF NoValidator
<1> QED BY Zenon, <1>1, <1>2, <1>3 DEF KeepsMsd, ValidatorRecord

\* AddSharesToValidators changes shares only.
LEMMA AddSharesMsd ==
  ASSUME NEW s, StoreOk(s), NEW d, NEW vs, NEW tokens
  PROVE  KeepsMsd(s.val, AddShares(s, d, vs, tokens).val)
BY Zenon DEF AddShares, KeepsMsd, StoreOk, Store, ValidatorRecord

\* UpdateProxy writes the total of the proxy, and then calls UpdateShares.
LEMMA UpdateProxyMsd ==
  ASSUME NEW s, StoreOk(s), NEW d \in Delegators, NEW tokens \in Int
  PROVE  KeepsMsd(s.val, UpdateProxy(s, d, tokens).val)
<1> DEFINE p == s.del[d].proxy
           total == s.del[p].total + tokens
           s2 == [s EXCEPT !.del = [s.del EXCEPT ![p] = [s.del[p] EXCEPT !.total = total]]]
<1>1. CASE p = NoProxy
  BY Zenon, <1>1 DEF UpdateProxy, KeepsMsd
<1>2. CASE p # NoProxy
  <2>1. p \in Delegators
    BY Zenon, <1>2, StoreFields
  <2>2. total \in Int
    BY <2>1, StoreFields
  <2>3. [s.del[p] EXCEPT !.total = total] \in DelegatorRecord
    BY Zenon, <2>1, <2>2, StoreFields, DelegatorEdits
  <2>4. StoreOk(s2) /\ s2.val = s.val
    BY <2>1, <2>3, SetDelegatorSound DEF Sound
  <2>5. UpdateProxy(s, d, tokens) = UpdateShares(s2, p, total + s.del[p].tokens)
    BY Zenon, <1>2 DEF UpdateProxy
  <2> HIDE DEF s2
  <2> QED BY Zenon, <2>4, <2>5, UpdateSharesMsd
<1> QED BY Zenon, <1>1, <1>2

----------------------------------------------------------------------------
(* Transactions of delegators *)

\* What a transaction of d that moves q tokens does: the records and the binding keys agree
\* afterwards, the tables of shares too if they did, and no msd changes.
DelegatorChange(d, q) ==
  /\ HoldOk(del', proxyBindings')
  /\ now >= SecondsPerWeek /\ VotesOk(Stored) => VotesOk(Stored')
  /\ KeepsMsd(val, val')
  /\ \A e \in Delegators : del'[e].tokens = del[e].tokens + (IF e = d THEN q ELSE 0)

\* The tables a handler saves are those of the next state.
LEMMA SavedVotes ==
  ASSUME NEW s, Save(s), VotesOk(s)
  PROVE  VotesOk(Stored')
<1>1. Stored'.val = s.val /\ Stored'.del = s.del /\ Stored'.to = s.to
  BY Zenon DEF Stored, Save
<1> QED BY Zenon, <1>1, SameVotes

\* From the tables a handler saves to its effect.
LEMMA SaveChange ==
  ASSUME Inv, HoldOk(del, proxyBindings), NEW t, StoreOk(t), Save(t), NEW d \in Delegators, NEW q \in Int,
         HoldStep(del, t.del, d), proxyBindings' = BindingsAfter(proxyBindings, del, t.del, d),
         KeepsMsd(val, t.val), now >= SecondsPerWeek /\ VotesOk(Stored) => VotesOk(t),
         t.del[d].tokens = del[d].tokens + q
  PROVE  DelegatorChange(d, q)
<1>1. del \in [Delegators -> DelegatorRecord] /\ t.del \in [Delegators -> DelegatorRecord]
  BY Zenon DEF Inv, TypeOK, StoreOk, Store
<1>2. del' = t.del /\ val' = t.val
  BY Zenon DEF Save
<1>3. HoldOk(del', proxyBindings')
  BY Zenon, <1>1, <1>2, HoldChange
<1>4. now >= SecondsPerWeek /\ VotesOk(Stored) => VotesOk(Stored')
  BY Zenon, SavedVotes
<1>5. \A e \in Delegators : del[e].tokens \in Int
  BY <1>1 DEF DelegatorRecord
<1>6. \A e \in Delegators : del'[e].tokens = del[e].tokens + (IF e = d THEN q ELSE 0)
  <2>1. \A e \in Delegators \ {d} : del'[e].tokens = del[e].tokens
    BY Zenon, <1>2 DEF HoldStep, SameHold
  <2>2. del'[d].tokens = del[d].tokens + q
    BY Zenon, <1>2
  <2>3. \A n \in Int : n + 0 = n
    OBVIOUS
  <2> QED BY Zenon, <1>5, <2>1, <2>2, <2>3
<1> QED BY Zenon, <1>2, <1>3, <1>4, <1>6 DEF DelegatorChange

\* The proxy a delegator is bound to is registered and not bound.
LEMMA ProxyFacts ==
  ASSUME Inv, HoldOk(del, proxyBindings), NEW d \in Delegators, del[d].proxy # NoProxy
  PROVE  /\ del[d].proxy \in Delegators /\ del[d].proxy # d
         /\ del[del[d].proxy].found /\ del[del[d].proxy].isProxy /\ del[del[d].proxy].proxy = NoProxy
<1>1. del[d].proxy \in Delegators
  BY Zenon DEF Inv, TypeOK, DelegatorRecord
<1>2. /\ del[del[d].proxy].found /\ del[del[d].proxy].isProxy /\ ~del[d].isProxy
  BY Zenon DEF HoldOk
<1>3. del[del[d].proxy].proxy = NoProxy
  BY Zenon, <1>1, <1>2 DEF HoldOk
<1> QED BY Zenon, <1>1, <1>2, <1>3

\* MsgDeposit: tokens are added to d, and to the total of its proxy.
LEMMA DepositChange ==
  ASSUME Inv, HoldOk(del, proxyBindings), NEW d \in Delegators, NEW q \in Quantities, handleMsgDeposit(d, q)
  PROVE  DelegatorChange(d, q)
<1> DEFINE old == IF del[d].found THEN del[d] ELSE NewDelegator
           r == [old EXCEPT !.tokens = old.tokens + q]
           s == [Stored EXCEPT !.del[d] = r]
<1> USE DEF handleMsgDeposit
<1>1. StoreOk(Stored) /\ now \in Nat /\ q \in Nat
  BY StoredOk, InstanceAssumption, ZenonT(60) DEF Inv, TypeOK
<1>2. q > 0
  BY Zenon DEF ValidateDeposit
<1>3. del[d] \in DelegatorRecord /\ del[d].tokens \in Nat /\ del \in [Delegators -> DelegatorRecord]
  BY Zenon DEF Inv, TypeOK, DelegatorRecord
<1>4. ~del[d].found => del[d] = NoDelegator
  BY Zenon DEF HoldOk
<1>5. /\ old \in DelegatorRecord /\ old.found /\ old.tokens = del[d].tokens
      /\ old.shares = del[d].shares /\ old.vals = del[d].vals /\ old.isProxy = del[d].isProxy
      /\ old.total = del[d].total /\ old.proxy = del[d].proxy
  BY Zenon, <1>3, <1>4, EmptyDelegators DEF NewDelegator, NoDelegator
<1> HIDE DEF old
<1>6. old.tokens + q \in Nat \ {0}
  BY <1>1, <1>2, <1>3, <1>5
<1>7. /\ r \in DelegatorRecord /\ r.found /\ r.tokens = del[d].tokens + q
      /\ r.shares = del[d].shares /\ r.vals = del[d].vals /\ r.isProxy = del[d].isProxy
      /\ r.total = del[d].total /\ r.proxy = del[d].proxy
  <2>1. r \in DelegatorRecord
    BY Zenon, <1>5, <1>6, DelegatorEdits
  <2>2. /\ r.found = old.found /\ r.tokens = old.tokens + q
        /\ r.shares = old.shares /\ r.vals = old.vals /\ r.isProxy = old.isProxy
        /\ r.total = old.total /\ r.proxy = old.proxy
    BY Zenon, <1>5 DEF DelegatorRecord
  <2> QED BY Zenon, <1>5, <2>1, <2>2
<1>8. s = [Stored EXCEPT !.del = [Stored.del EXCEPT ![d] = r]]
  BY Zenon DEF Stored
<1> HIDE DEF r
<1>9. /\ StoreOk(s) /\ s.val = val /\ s.to = sharesTo /\ s.del = [del EXCEPT ![d] = r]
  <2>1. Stored.del = del /\ Stored.val = val /\ Stored.to = sharesTo
    BY Zenon DEF Stored
  <2> QED BY <1>1, <1>7, <1>8, <2>1, SetDelegatorSound DEF Sound
<1>10. /\ old.proxy # NoProxy => Save(UpdateProxy(s, d, q))
       /\ old.proxy = NoProxy => Save(UpdateShares(s, d, VotingTokens(s.del[d])))
       /\ proxyBindings' = proxyBindings
  BY Zenon DEF Delegate, old, r
<1> HIDE DEF s, handleMsgDeposit
<1>11. s.del[d] = r /\ \A e \in Delegators \ {d} : s.del[e] = del[e]
  BY Zenon, <1>3, <1>9
<1>12. VotesOk(Stored) => VotesOk(s)
  <2>1. Stored.del = del /\ Stored.val = val /\ Stored.to = sharesTo
    BY Zenon DEF Stored
  <2>2. \A e \in Delegators : s.del[e].vals = Stored.del[e].vals /\ s.del[e].shares = Stored.del[e].shares
    BY Zenon, <1>7, <1>11, <2>1
  <2> QED BY <1>9, <2>1, <2>2, SameVotes, ZenonT(20)
<1>13. \A e \in Delegators : del[e].total \in Nat /\ del[e].tokens \in Nat
  BY Zenon, <1>3, HoldFacts
<1>14. CASE del[d].proxy = NoProxy
  <2> DEFINE n == VotingTokens(s.del[d])
             t == UpdateShares(s, d, n)
  <2>1. Save(t)
    BY Zenon, <1>5, <1>10, <1>14
  <2>2. n \in Nat \ {0}
    <3>1. r.tokens \in Nat \ {0} /\ r.total \in Nat
      BY Zenon, <1>5, <1>6, <1>7, <1>13
    <3> QED BY <1>11, <3>1 DEF VotingTokens
  <2> HIDE DEF n
  <2>3. StoreOk(t) /\ KeepsMsd(s.val, t.val)
    BY <1>1, <1>9, <2>2, UpdateSharesSound, UpdateSharesMsd DEF Sound
  <2>4. HoldStep(del, s.del, d)
    <3>1. \A p \in Delegators : Part(s.del[d], p) = 0 /\ Part(del[d], p) = 0
      BY Zenon, <1>7, <1>11, <1>14, StakingAssumption DEF Part
    <3>2. r.tokens > 0
      BY <1>5, <1>6, <1>7
    <3>3. \A p \in Delegators : s.del[p].total = del[p].total + (Part(s.del[d], p) - Part(del[d], p))
      BY <1>7, <1>11, <1>13, <3>1
    <3>4. \A e \in Delegators \ {d} : SameHold(del[e], s.del[e])
      BY Zenon, <1>11 DEF SameHold
    <3> QED BY Zenon, <1>7, <1>11, <1>14, <3>2, <3>3, <3>4 DEF HoldStep
  <2>5. HoldStep(del, t.del, d)
    BY Zenon, <1>7, <1>9, <1>11, <1>14, <2>4, HoldStepUpdate
  <2>6. now >= SecondsPerWeek /\ VotesOk(Stored) => VotesOk(t)
    BY Zenon, <1>1, <1>9, <1>12, <2>2, UpdateSharesVotes
  <2>7. SameHold(s.del[d], t.del[d])
    BY Zenon, <1>7, <1>9, <1>11, <1>14, UpdateSharesHold
  <2> HIDE DEF t
  <2>8. t.del[d].tokens = del[d].tokens + q /\ t.del[d].proxy = del[d].proxy
    BY Zenon, <1>7, <1>11, <2>7 DEF SameHold
  <2>9. proxyBindings' = BindingsAfter(proxyBindings, del, t.del, d)
    BY <1>10, <2>8, SameBindings
  <2>10. q \in Int /\ KeepsMsd(val, t.val)
    BY <1>1, <1>9, <2>3
  <2> QED BY Zenon, <2>1, <2>3, <2>5, <2>6, <2>8, <2>9, <2>10, SaveChange
<1>15. CASE del[d].proxy # NoProxy
  <2> DEFINE p == del[d].proxy
             t == UpdateProxy(s, d, q)
  <2>1. Save(t)
    BY Zenon, <1>5, <1>10, <1>15
  <2>2. /\ p \in Delegators /\ p # d /\ del[p].found /\ del[p].isProxy /\ del[p].proxy = NoProxy
        /\ s.del[d].proxy = p /\ s.del[p] = del[p]
    BY Zenon, <1>7, <1>11, <1>15, ProxyFacts
  <2> HIDE DEF p
  <2>3. q \in Int
    BY <1>1
  <2>4. StoreOk(t) /\ KeepsMsd(s.val, t.val)
    BY Zenon, <1>1, <1>9, <2>3, UpdateProxySound, UpdateProxyMsd DEF Sound
  <2>5. (s.del[p].total + q) + s.del[p].tokens \in Nat \ {0}
    <3>1. del[p].total \in Nat /\ del[p].tokens \in Nat
      BY Zenon, <1>13, <2>2
    <3> QED BY <1>1, <1>2, <2>2, <3>1
  <2>6. now >= SecondsPerWeek /\ VotesOk(Stored) => VotesOk(t)
    BY Zenon, <1>1, <1>9, <1>12, <2>2, <2>3, <2>5, UpdateProxyVotes
  <2>7. \A e \in Delegators :
             /\ SameHold(s.del[e], t.del[e])
             /\ t.del[e].total = s.del[e].total + (IF e = p THEN q ELSE 0)
             /\ e # p => t.del[e] = s.del[e]
    <3>1. s.del[d].proxy # NoProxy =>
            s.del[s.del[d].proxy].found /\ s.del[s.del[d].proxy].proxy = NoProxy
      BY Zenon, <2>2
    <3>2. TotalStep(s.del, t.del, s.del[d].proxy, q)
      BY Zenon, <1>9, <2>3, <3>1, UpdateProxyHold
    <3> QED BY Zenon, <2>2, <3>2 DEF TotalStep
  <2> HIDE DEF t
  <2>8. t.del[d] = r
    BY Zenon, <1>11, <2>2, <2>7
  <2>9. HoldStep(del, t.del, d)
    <3>1. \A e \in Delegators : Part(t.del[d], e) - Part(del[d], e) = IF e = p THEN q ELSE 0
      BY <1>1, <1>3, <1>7, <2>8 DEF Part, p
    <3>2. \A e \in Delegators : s.del[e].total = del[e].total
      BY Zenon, <1>7, <1>11
    <3>3. \A e \in Delegators : t.del[e].total = del[e].total + (Part(t.del[d], e) - Part(del[d], e))
      BY Zenon, <2>7, <3>1, <3>2
    <3>4. \A e \in Delegators \ {d} : SameHold(del[e], t.del[e])
      BY Zenon, <1>11, <2>7
    <3>5. r.tokens > 0
      BY <1>5, <1>6, <1>7
    <3>6. ~del[d].isProxy /\ del[d].shares = 0
      BY Zenon, <1>15 DEF HoldOk
    <3> QED BY Zenon, <1>7, <2>2, <2>8, <3>3, <3>4, <3>5, <3>6 DEF HoldStep, p
  <2>10. t.del[d].tokens = del[d].tokens + q /\ t.del[d].proxy = del[d].proxy
    BY Zenon, <1>7, <2>8
  <2>11. proxyBindings' = BindingsAfter(proxyBindings, del, t.del, d)
    BY <1>10, <2>10, SameBindings
  <2>12. KeepsMsd(val, t.val)
    BY Zenon, <1>9, <2>4
  <2> QED BY Zenon, <2>1, <2>3, <2>4, <2>6, <2>9, <2>10, <2>11, <2>12, SaveChange
<1> QED BY Zenon, <1>14, <1>15

\* MsgWithdraw: tokens are taken from d, and from the total of its proxy.
LEMMA WithdrawChange ==
  ASSUME Inv, HoldOk(del, proxyBindings), NEW d \in Delegators, NEW q \in Quantities, handleMsgWithdraw(d, q)
  PROVE  DelegatorChange(d, -q)
<1> DEFINE left == del[d].tokens - q
           p == del[d].proxy
           s == UpdateProxy(Stored, d, -q)
           w == WithdrawLastShares(s, d)
           part == [s EXCEPT !.del[d].tokens = left]
           all == [w EXCEPT !.del[d] = NoDelegator]
<1>1. StoreOk(Stored) /\ now \in Nat /\ q \in Nat
  BY StoredOk, InstanceAssumption, ZenonT(60) DEF Inv, TypeOK
<1>2. -q \in Int /\ q \in Int
  BY <1>1
<1>3. /\ del[d] \in DelegatorRecord /\ del \in [Delegators -> DelegatorRecord]
      /\ p \in Delegators \cup {NoProxy} /\ del[d].tokens \in Nat
  BY Zenon DEF Inv, TypeOK, DelegatorRecord
<1>4. /\ del[d].found /\ left >= 0 /\ ~(del[d].isProxy /\ left = 0)
      /\ \/ left = 0 /\ Save(all) /\ proxyBindings' = proxyBindings \ {<<p, d>>}
         \/ left # 0 /\ p # NoProxy /\ Save(part) /\ UNCHANGED proxyBindings
         \/ /\ left # 0 /\ p = NoProxy
            /\ Save(UpdateShares(part, d, VotingTokens(part.del[d])))
            /\ UNCHANGED proxyBindings
  BY Zenon DEF handleMsgWithdraw, Withdraw
<1>5. \A e \in Delegators : del[e].total \in Nat /\ del[e].tokens \in Nat
  BY Zenon, <1>3, HoldFacts
<1>6. p # NoProxy => /\ p \in Delegators /\ p # d
                     /\ del[p].found /\ del[p].isProxy /\ del[p].proxy = NoProxy
  BY Zenon, ProxyFacts
<1>7. Stored.del = del /\ Stored.val = val
  BY Zenon DEF Stored
<1>8. left \in Nat /\ q <= del[d].tokens
  BY <1>1, <1>3, <1>4
<1>9. StoreOk(s) /\ KeepsMsd(val, s.val)
  BY Zenon, <1>1, <1>2, <1>7, UpdateProxySound, UpdateProxyMsd DEF Sound
<1>10. TotalStep(del, s.del, p, -q)
  <2>1. Stored.del[d].proxy # NoProxy =>
          Stored.del[Stored.del[d].proxy].found /\ Stored.del[Stored.del[d].proxy].proxy = NoProxy
    BY Zenon, <1>6, <1>7
  <2>2. TotalStep(Stored.del, s.del, Stored.del[d].proxy, -q)
    BY Zenon, <1>1, <1>2, <2>1, UpdateProxyHold
  <2> QED BY Zenon, <1>7, <2>2
<1>11. now >= SecondsPerWeek /\ VotesOk(Stored) => VotesOk(s)
  <2>1. ASSUME p # NoProxy PROVE (del[p].total + (-q)) + del[p].tokens \in Nat \ {0}
    <3>1. /\ del[p].total \in Nat /\ del[p].tokens \in Nat \ {0}
          /\ del[d].tokens <= del[p].total
      BY Zenon, <1>3, <1>6, <2>1, HoldFacts
    <3>2. \A t, k, x, y \in Nat : x <= y /\ y <= t /\ k # 0 => (t + (-x)) + k \in Nat \ {0}
      OBVIOUS
    <3> QED BY Zenon, <1>1, <1>3, <1>8, <3>1, <3>2
  <2>2. Stored.del[d].proxy # NoProxy =>
          (Stored.del[Stored.del[d].proxy].total + (-q)) + Stored.del[Stored.del[d].proxy].tokens \in Nat \ {0}
    BY Zenon, <1>7, <2>1
  <2> QED BY Zenon, <1>1, <1>2, <2>2, UpdateProxyVotes
<1> HIDE DEF s, left, p
<1>12. /\ s.del[d] = del[d] /\ \A e \in Delegators : SameHold(del[e], s.del[e])
       /\ \A e \in Delegators : s.del[e].total = del[e].total + (IF e = p THEN -q ELSE 0)
  <2>1. d # p
    BY Zenon, <1>6, StakingAssumption
  <2> QED BY Zenon, <1>10, <2>1 DEF TotalStep
<1>13. s.del \in [Delegators -> DelegatorRecord]
  BY Zenon, <1>9 DEF StoreOk, Store
<1>14. CASE left = 0
  <2>1. Save(all) /\ proxyBindings' = proxyBindings \ {<<p, d>>}
    BY Zenon, <1>4, <1>14
  <2>2. w.del = s.del
    BY Zenon DEF WithdrawLastShares
  <2>3. StoreOk(w) /\ KeepsMsd(s.val, w.val)
    BY Zenon, <1>9, WithdrawLastSharesSound, WithdrawLastSharesMsd DEF Sound
  <2>4. now >= SecondsPerWeek /\ VotesOk(Stored) =>
          VotesOk([w EXCEPT !.del = [s.del EXCEPT ![d] = NoDelegator]])
    <3>1. NoDelegator \in DelegatorRecord /\ NoDelegator.vals = {} /\ NoDelegator.shares = 0
      BY Zenon, EmptyDelegators DEF NoDelegator
    <3> QED BY Zenon, <1>9, <1>11, <3>1, WithdrawVotes
  <2> HIDE DEF w
  <2>5. all = [w EXCEPT !.del = [s.del EXCEPT ![d] = NoDelegator]]
    BY Zenon, <2>2
  <2>6. StoreOk(all) /\ all.val = w.val /\ all.del = [s.del EXCEPT ![d] = NoDelegator]
    BY <2>2, <2>3, <2>5, SetDelegatorSound, EmptyDelegators DEF Sound
  <2> HIDE DEF all
  <2>7. all.del[d] = NoDelegator /\ \A e \in Delegators \ {d} : all.del[e] = s.del[e]
    BY Zenon, <1>13, <2>6
  <2>8. HoldStep(del, all.del, d)
    <3>1. del[d].tokens = q
      BY <1>1, <1>3, <1>14 DEF left
    <3>2. ~del[d].isProxy
      BY Zenon, <1>4, <1>14
    <3>3. del[d].total = 0
      BY Zenon, <1>3, <3>2, NotProxy
    <3>4. NoDelegator.total = 0 /\ NoDelegator.proxy = NoProxy /\ ~NoDelegator.found /\ NoDelegator.tokens = 0
      BY Zenon DEF NoDelegator
    <3>5. \A e \in Delegators : Part(all.del[d], e) - Part(del[d], e) = IF e = p THEN -q ELSE 0
      BY <1>1, <2>7, <3>1, <3>4, StakingAssumption DEF Part, p
    <3>6. \A e \in Delegators : all.del[e].total = del[e].total + (IF e = p THEN -q ELSE 0)
      <4>1. d # p
        BY Zenon, <1>6, StakingAssumption
      <4> QED BY Zenon, <1>12, <2>7, <3>3, <3>4, <4>1
    <3>7. \A e \in Delegators : all.del[e].total = del[e].total + (Part(all.del[d], e) - Part(del[d], e))
      BY Zenon, <3>5, <3>6
    <3>8. \A e \in Delegators \ {d} : SameHold(del[e], all.del[e])
      BY Zenon, <1>12, <2>7
    <3> QED BY Zenon, <2>7, <3>2, <3>4, <3>7, <3>8 DEF HoldStep
  <2>9. proxyBindings' = BindingsAfter(proxyBindings, del, all.del, d)
    <3>1. all.del[d].proxy = NoProxy
      BY <2>7 DEF NoDelegator
    <3> QED BY Zenon, <2>1, <3>1 DEF BindingsAfter, p
  <2>10. all.del[d].tokens = del[d].tokens + (-q)
    <3>1. NoDelegator.tokens = 0
      BY Zenon DEF NoDelegator
    <3> QED BY Zenon, <1>1, <1>3, <1>14, <2>7, <3>1 DEF left
  <2>11. KeepsMsd(val, all.val)
    BY Zenon, <1>9, <2>3, <2>6, KeepsMsdTransitive
  <2>12. now >= SecondsPerWeek /\ VotesOk(Stored) => VotesOk(all)
    BY Zenon, <2>4, <2>5
  <2> QED BY Zenon, <1>2, <2>1, <2>6, <2>8, <2>9, <2>10, <2>11, <2>12, SaveChange
<1> DEFINE r == [s.del[d] EXCEPT !.tokens = left]
<1>15. /\ r \in DelegatorRecord /\ r.found /\ r.tokens = left /\ r.shares = del[d].shares
       /\ r.vals = del[d].vals /\ r.isProxy = del[d].isProxy /\ r.total = del[d].total /\ r.proxy = p
  <2>1. r \in DelegatorRecord
    BY Zenon, <1>8, <1>12, <1>3, DelegatorEdits
  <2>2. /\ r.found = del[d].found /\ r.tokens = left /\ r.shares = del[d].shares
        /\ r.vals = del[d].vals /\ r.isProxy = del[d].isProxy /\ r.total = del[d].total /\ r.proxy = p
    BY Zenon, <1>3, <1>12 DEF DelegatorRecord, p
  <2> QED BY Zenon, <1>4, <2>1, <2>2
<1>16. part = [s EXCEPT !.del = [s.del EXCEPT ![d] = r]]
  BY Zenon
<1> HIDE DEF r, part
<1>17. StoreOk(part) /\ part.val = s.val /\ part.to = s.to /\ part.del = [s.del EXCEPT ![d] = r]
  BY <1>9, <1>15, <1>16, SetDelegatorSound DEF Sound
<1>18. part.del[d] = r /\ \A e \in Delegators \ {d} : part.del[e] = s.del[e]
  BY Zenon, <1>13, <1>17
<1>19. now >= SecondsPerWeek /\ VotesOk(Stored) => VotesOk(part)
  <2>1. \A e \in Delegators : part.del[e].vals = s.del[e].vals /\ part.del[e].shares = s.del[e].shares
    BY Zenon, <1>12, <1>15, <1>18
  <2> QED BY Zenon, <1>11, <1>17, <2>1, SameVotes
<1>20. ASSUME left # 0 PROVE HoldStep(del, part.del, d)
  <2>1. \A e \in Delegators : Part(part.del[d], e) - Part(del[d], e) = IF e = p THEN -q ELSE 0
    <3>1. left - del[d].tokens = -q
      BY <1>1, <1>3 DEF left
    <3> QED BY <1>3, <1>8, <1>15, <1>18, <3>1 DEF Part, p
  <2>2. \A e \in Delegators : part.del[e].total = s.del[e].total
    BY Zenon, <1>12, <1>15, <1>18
  <2>3. \A e \in Delegators : part.del[e].total = del[e].total + (Part(part.del[d], e) - Part(del[d], e))
    BY Zenon, <1>12, <2>1, <2>2
  <2>4. \A e \in Delegators \ {d} : SameHold(del[e], part.del[e])
    BY Zenon, <1>12, <1>18
  <2>5. left > 0
    BY <1>8, <1>20
  <2>6. p # NoProxy => ~del[d].isProxy /\ del[d].shares = 0
    BY Zenon DEF HoldOk, p
  <2> QED BY Zenon, <1>6, <1>15, <1>18, <2>3, <2>4, <2>5, <2>6 DEF HoldStep
<1>21. part.del[d].tokens = del[d].tokens + (-q) /\ part.del[d].proxy = del[d].proxy
  BY Zenon, <1>1, <1>3, <1>15, <1>18 DEF left, p
<1>22. KeepsMsd(val, part.val)
  BY Zenon, <1>9, <1>17
<1>23. CASE left # 0 /\ p # NoProxy
  <2>1. Save(part) /\ proxyBindings' = proxyBindings
    BY Zenon, <1>4, <1>23
  <2>2. proxyBindings' = BindingsAfter(proxyBindings, del, part.del, d)
    BY <1>21, <2>1, SameBindings
  <2>3. HoldStep(del, part.del, d)
    BY Zenon, <1>20, <1>23
  <2> QED BY Zenon, <1>2, <1>17, <1>19, <1>21, <1>22, <2>1, <2>2, <2>3, SaveChange
<1>24. CASE left # 0 /\ p = NoProxy
  <2> DEFINE n == VotingTokens(part.del[d])
             t == UpdateShares(part, d, n)
  <2>1. Save(t) /\ proxyBindings' = proxyBindings
    BY Zenon, <1>4, <1>24
  <2>2. n \in Nat \ {0}
    <3>1. r.tokens \in Nat \ {0} /\ r.total \in Nat
      BY Zenon, <1>5, <1>8, <1>15, <1>24
    <3> QED BY <1>18, <3>1 DEF VotingTokens
  <2> HIDE DEF n
  <2>3. StoreOk(t) /\ KeepsMsd(part.val, t.val)
    BY <1>1, <1>17, <2>2, UpdateSharesSound, UpdateSharesMsd DEF Sound
  <2>4. part.del[d].proxy = NoProxy /\ part.del[d].found
    BY Zenon, <1>15, <1>18, <1>24
  <2>5. HoldStep(del, t.del, d)
    BY Zenon, <1>17, <1>20, <1>24, <2>4, HoldStepUpdate
  <2>6. now >= SecondsPerWeek /\ VotesOk(Stored) => VotesOk(t)
    BY Zenon, <1>1, <1>17, <1>19, <2>2, UpdateSharesVotes
  <2>7. SameHold(part.del[d], t.del[d])
    BY Zenon, <1>17, <2>4, UpdateSharesHold
  <2> HIDE DEF t
  <2>8. t.del[d].tokens = del[d].tokens + (-q) /\ t.del[d].proxy = del[d].proxy
    BY Zenon, <1>21, <2>7 DEF SameHold
  <2>9. proxyBindings' = BindingsAfter(proxyBindings, del, t.del, d)
    BY <2>1, <2>8, SameBindings
  <2>10. KeepsMsd(val, t.val)
    BY Zenon, <1>22, <2>3, KeepsMsdTransitive
  <2> QED BY Zenon, <1>2, <2>1, <2>3, <2>5, <2>6, <2>8, <2>9, <2>10, SaveChange
<1> QED BY Zenon, <1>14, <1>23, <1>24
=============================================================================
