------------------------- MODULE StakingProxyProofs -------------------------
(***************************************************************************)
(* The transactions of delegators that vote, and those that make, bind and *)
(* unbind proxies, are a DelegatorChange too; and what deposits,           *)
(* withdrawals and completed undelegations do to the two pools.            *)
(***************************************************************************)
EXTENDS Integers, FiniteSets, StakingVotesProofs

----------------------------------------------------------------------------
(* Votes, and proxies *)

\* MsgAddShares: the last vote of d goes, the new one comes; no token moves.
LEMMA AddSharesChange ==
  ASSUME Inv, HoldOk(del, proxyBindings), NEW d \in Delegators, NEW vs \in SUBSET Validators,
         handleMsgAddShares(d, vs)
  PROVE  DelegatorChange(d, 0)
<1> DEFINE s == WithdrawLastShares(Stored, d)
           n == del[d].tokens + del[d].total
           t == AddShares(s, d, vs, n)
           r == [[del[d] EXCEPT !.vals = {}] EXCEPT !.shares = 0]
           c == [s EXCEPT !.del = [Stored.del EXCEPT ![d] = r]]
           shares == calculateWeight(n)
<1>1. StoreOk(Stored) /\ now \in Nat
  BY Zenon, StoredOk DEF Inv, TypeOK
<1>2. /\ vs # {} /\ del[d].found /\ del[d].proxy = NoProxy
      /\ \A v \in vs : Exists(s.val, v)
      /\ Save(t) /\ proxyBindings' = proxyBindings
  BY Zenon DEF handleMsgAddShares, ValidateAddShares
<1>3. del \in [Delegators -> DelegatorRecord] /\ del[d] \in DelegatorRecord
  BY Zenon DEF Inv, TypeOK
<1>4. n \in Nat \ {0} /\ del[d].tokens > 0
  BY <1>2, <1>3, HoldFacts
<1>5. Stored.del = del /\ Stored.val = val /\ s.del = del
  BY Zenon DEF Stored, WithdrawLastShares
<1>6. StoreOk(s) /\ KeepsMsd(val, s.val)
  BY Zenon, <1>1, <1>5, WithdrawLastSharesSound, WithdrawLastSharesMsd DEF Sound
<1>7. r \in DelegatorRecord /\ r.vals = {} /\ r.shares = 0
  <2>1. [del[d] EXCEPT !.vals = {}] \in DelegatorRecord
    BY Zenon, <1>3, DelegatorEdits
  <2>3. 0 \in Int
    OBVIOUS
  <2>2. r \in DelegatorRecord
    BY <2>1, <2>3, DelegatorEdits, ZenonT(30)
  <2> QED BY Zenon, <1>3, <2>2 DEF DelegatorRecord
<1> HIDE DEF r
<1>8. VotesOk(Stored) => VotesOk(c)
  BY Zenon, <1>1, <1>7, WithdrawVotes
<1> HIDE DEF s, n
<1>9. StoreOk(c) /\ c.val = s.val /\ c.to = s.to /\ c.del = [del EXCEPT ![d] = r]
  BY <1>5, <1>6, <1>7, SetDelegatorSound DEF Sound
<1> HIDE DEF c
<1>10. c.del[d] = r
  BY Zenon, <1>3, <1>9
<1>11. now >= SecondsPerWeek /\ VotesOk(Stored) => VotesOk(AddShares(c, d, vs, n))
  <2>1. c.del[d].vals = {} /\ \A v \in vs : Exists(c.val, v)
    BY Zenon, <1>2, <1>7, <1>9, <1>10 DEF Exists
  <2> QED BY Zenon, <1>1, <1>2, <1>4, <1>8, <1>9, <2>1, AddSharesVotes
<1>12. /\ t.del = [s.del EXCEPT ![d].vals = vs, ![d].shares = shares]
       /\ AddShares(c, d, vs, n).del = [c.del EXCEPT ![d].vals = vs, ![d].shares = shares]
       /\ t.val = AddShares(c, d, vs, n).val /\ t.to = AddShares(c, d, vs, n).to
  BY Zenon, <1>9 DEF AddShares
<1>13. StoreOk(t) /\ KeepsMsd(s.val, t.val)
  BY <1>1, <1>4, <1>6, AddSharesSound, AddSharesMsd DEF Sound
<1> DEFINE a == AddShares(c, d, vs, n)
<1> HIDE DEF t, a, shares
<1>14. /\ t.del[d].vals = vs /\ t.del[d].shares = shares /\ t.del[d].found /\ t.del[d].proxy = NoProxy
       /\ t.del[d].tokens = del[d].tokens /\ t.del[d].total = del[d].total
       /\ t.del[d].isProxy = del[d].isProxy
       /\ \A e \in Delegators \ {d} : t.del[e] = del[e]
  BY <1>2, <1>3, <1>5, <1>12 DEF DelegatorRecord
<1>15. /\ a.del[d].vals = vs /\ a.del[d].shares = shares
       /\ \A e \in Delegators \ {d} : a.del[e] = del[e]
  <2>1. a.del = [c.del EXCEPT ![d].vals = vs, ![d].shares = shares]
    BY Zenon, <1>12 DEF a
  <2> QED BY <1>3, <1>7, <1>9, <2>1 DEF DelegatorRecord
<1>16. now >= SecondsPerWeek /\ VotesOk(Stored) => VotesOk(t)
  <2>1. t.val = a.val /\ t.to = a.to
    BY Zenon, <1>12 DEF a
  <2>2. \A e \in Delegators : t.del[e].vals = a.del[e].vals /\ t.del[e].shares = a.del[e].shares
    BY Zenon, <1>14, <1>15
  <2>3. now >= SecondsPerWeek /\ VotesOk(Stored) => VotesOk(a)
    BY Zenon, <1>11 DEF a
  <2> QED BY Zenon, <2>1, <2>2, <2>3, SameVotes
<1>17. HoldStep(del, t.del, d)
  <2>1. \A p \in Delegators : Part(t.del[d], p) = 0 /\ Part(del[d], p) = 0
    BY Zenon, <1>2, <1>14, StakingAssumption DEF Part
  <2>2. \A p \in Delegators : del[p].total \in Int
    BY Zenon, <1>3 DEF DelegatorRecord
  <2>3. \A p \in Delegators : t.del[p].total = del[p].total + (Part(t.del[d], p) - Part(del[d], p))
    BY <1>14, <2>1, <2>2
  <2>4. \A e \in Delegators \ {d} : SameHold(del[e], t.del[e])
    BY Zenon, <1>14 DEF SameHold
  <2> QED BY Zenon, <1>4, <1>14, <2>3, <2>4 DEF HoldStep
<1>18. proxyBindings' = BindingsAfter(proxyBindings, del, t.del, d)
  BY <1>2, <1>14, SameBindings
<1>19. KeepsMsd(val, t.val)
  BY Zenon, <1>6, <1>13, KeepsMsdTransitive
<1>20. t.del[d].tokens = del[d].tokens + 0 /\ 0 \in Int
  BY <1>3, <1>14 DEF DelegatorRecord
<1> QED BY Zenon, <1>2, <1>13, <1>16, <1>17, <1>18, <1>19, <1>20, SaveChange

\* unbindProxy: d leaves its proxy, whose total loses the tokens of d.
LEMMA UnbindChange ==
  ASSUME Inv, HoldOk(del, proxyBindings), NEW d \in Delegators, del[d].proxy # NoProxy,
         NEW t, t = Unbind(Stored, d)
  PROVE  /\ StoreOk(t) /\ KeepsMsd(val, t.val)
         /\ now >= SecondsPerWeek /\ VotesOk(Stored) => VotesOk(t)
         /\ t.del[d] = [del[d] EXCEPT !.proxy = NoProxy]
         /\ \A e \in Delegators \ {d} : SameHold(del[e], t.del[e])
         /\ \A e \in Delegators : t.del[e].total
              = del[e].total + (IF e = del[d].proxy THEN -del[d].tokens ELSE 0)
<1> DEFINE n == -del[d].tokens
           p == del[d].proxy
           u == UpdateProxy(Stored, d, n)
           r == [u.del[d] EXCEPT !.proxy = NoProxy]
<1>1. StoreOk(Stored) /\ now \in Nat
  BY Zenon, StoredOk DEF Inv, TypeOK
<1>2. del \in [Delegators -> DelegatorRecord] /\ del[d] \in DelegatorRecord /\ del[d].tokens \in Nat
  BY Zenon DEF Inv, TypeOK, DelegatorRecord
<1>3. n \in Int
  BY <1>2
<1>4. Stored.del = del /\ Stored.val = val
  BY Zenon DEF Stored
<1>5. t = [u EXCEPT !.del = [u.del EXCEPT ![d] = r]]
  BY Zenon, <1>4 DEF Unbind
<1>6. p \in Delegators /\ p # d /\ del[p].found /\ del[p].isProxy /\ del[p].proxy = NoProxy
  BY Zenon, ProxyFacts
<1>7. now >= SecondsPerWeek /\ VotesOk(Stored) => VotesOk(u)
  <2>1. (del[p].total + n) + del[p].tokens \in Nat \ {0}
    <3>1. /\ del[p].total \in Nat /\ del[p].tokens \in Nat \ {0}
          /\ del[d].tokens <= del[p].total
      BY Zenon, <1>2, <1>6, HoldFacts
    <3>2. \A x, k, y \in Nat : y <= x /\ k # 0 => (x + (-y)) + k \in Nat \ {0}
      OBVIOUS
    <3> QED BY Zenon, <1>2, <3>1, <3>2
  <2> HIDE DEF n
  <2>2. Stored.del[d].proxy # NoProxy =>
          (Stored.del[Stored.del[d].proxy].total + n) + Stored.del[Stored.del[d].proxy].tokens \in Nat \ {0}
    BY Zenon, <1>4, <2>1
  <2> QED BY Zenon, <1>1, <1>3, <2>2, UpdateProxyVotes
<1> HIDE DEF n
<1>8. TotalStep(del, u.del, p, n)
  <2>1. Stored.del[d].proxy # NoProxy =>
          Stored.del[Stored.del[d].proxy].found /\ Stored.del[Stored.del[d].proxy].proxy = NoProxy
    BY Zenon, <1>4, <1>6
  <2>2. TotalStep(Stored.del, u.del, Stored.del[d].proxy, n)
    BY Zenon, <1>1, <1>3, <2>1, UpdateProxyHold
  <2> QED BY Zenon, <1>4, <2>2
<1>9. StoreOk(u) /\ KeepsMsd(val, u.val)
  BY Zenon, <1>1, <1>3, <1>4, UpdateProxySound, UpdateProxyMsd DEF Sound
<1> HIDE DEF u
<1>10. u.del[d] = del[d] /\ u.del \in [Delegators -> DelegatorRecord]
  BY Zenon, <1>6, <1>8, <1>9 DEF TotalStep, StoreOk, Store
<1>11. r \in DelegatorRecord /\ r.vals = del[d].vals /\ r.shares = del[d].shares /\ r.total = del[d].total
  <2>1. r \in DelegatorRecord
    BY Zenon, <1>2, <1>10, DelegatorEdits
  <2> QED BY Zenon, <1>2, <1>10, <2>1 DEF DelegatorRecord
<1>12. r = [del[d] EXCEPT !.proxy = NoProxy]
  BY Zenon, <1>10
<1> HIDE DEF r
<1>13. StoreOk(t) /\ t.val = u.val /\ t.to = u.to /\ t.del = [u.del EXCEPT ![d] = r]
  BY <1>5, <1>9, <1>11, SetDelegatorSound DEF Sound
<1>14. t.del[d] = r /\ \A e \in Delegators \ {d} : t.del[e] = u.del[e]
  BY Zenon, <1>10, <1>13
<1>15. now >= SecondsPerWeek /\ VotesOk(Stored) => VotesOk(t)
  <2>1. \A e \in Delegators : t.del[e].vals = u.del[e].vals /\ t.del[e].shares = u.del[e].shares
    BY Zenon, <1>10, <1>11, <1>14
  <2>2. t.val = u.val /\ t.to = u.to
    BY Zenon, <1>13
  <2>3. VotesOk(u) => VotesOk(t)
    BY <2>1, <2>2, SameVotes, ZenonT(30)
  <2> QED BY Zenon, <1>7, <2>3
<1>16. \A e \in Delegators : t.del[e].total = del[e].total + (IF e = p THEN n ELSE 0)
  <2>1. \A e \in Delegators : t.del[e].total = u.del[e].total
    BY Zenon, <1>10, <1>11, <1>14
  <2> QED BY Zenon, <1>8, <2>1 DEF TotalStep
<1>17. \A e \in Delegators \ {d} : SameHold(del[e], t.del[e])
  BY Zenon, <1>8, <1>14 DEF TotalStep
<1>18. KeepsMsd(val, t.val)
  BY Zenon, <1>9, <1>13
<1> QED BY Zenon, <1>12, <1>13, <1>14, <1>15, <1>16, <1>17, <1>18 DEF n

\* MsgUnbindProxy.
LEMMA UnbindProxyChange ==
  ASSUME Inv, HoldOk(del, proxyBindings), NEW d \in Delegators, handleMsgUnbindProxy(d)
  PROVE  DelegatorChange(d, 0)
<1> DEFINE t == Unbind(Stored, d)
           r == [del[d] EXCEPT !.proxy = NoProxy]
<1>1. /\ del[d].proxy # NoProxy /\ Save(t)
      /\ proxyBindings' = proxyBindings \ {<<del[d].proxy, d>>}
  BY Zenon DEF handleMsgUnbindProxy, UnbindOk, Stored
<1>2. /\ StoreOk(t) /\ KeepsMsd(val, t.val)
      /\ now >= SecondsPerWeek /\ VotesOk(Stored) => VotesOk(t)
      /\ t.del[d] = r
      /\ \A e \in Delegators \ {d} : SameHold(del[e], t.del[e])
      /\ \A e \in Delegators : t.del[e].total
           = del[e].total + (IF e = del[d].proxy THEN -del[d].tokens ELSE 0)
  BY <1>1, UnbindChange
<1> HIDE DEF t
<1>3. del[d] \in DelegatorRecord
  BY Zenon DEF Inv, TypeOK
<1>4. /\ r.found = del[d].found /\ r.tokens = del[d].tokens /\ r.isProxy = del[d].isProxy
      /\ r.proxy = NoProxy /\ del[d].tokens \in Nat
  BY Zenon, <1>3 DEF DelegatorRecord
<1>5. del[d].found /\ ~del[d].isProxy /\ del[d].tokens > 0
  BY Zenon, <1>1 DEF HoldOk
<1> HIDE DEF r
<1>6. \A e \in Delegators : Part(t.del[d], e) - Part(del[d], e) = IF e = del[d].proxy THEN -del[d].tokens ELSE 0
  BY <1>2, <1>4, StakingAssumption DEF Part
<1>7. \A e \in Delegators : t.del[e].total = del[e].total + (Part(t.del[d], e) - Part(del[d], e))
  BY Zenon, <1>2, <1>6
<1>8. HoldStep(del, t.del, d)
  BY Zenon, <1>2, <1>4, <1>5, <1>7 DEF HoldStep
<1>9. proxyBindings' = BindingsAfter(proxyBindings, del, t.del, d)
  BY Zenon, <1>1, <1>2, <1>4 DEF BindingsAfter
<1>10. t.del[d].tokens = del[d].tokens + 0 /\ 0 \in Int
  BY <1>2, <1>4
<1> QED BY Zenon, <1>1, <1>2, <1>8, <1>9, <1>10, SaveChange

\* The tables agree with themselves, and after UpdateShares of a delegator that is not bound.
LEMMA HoldUpdate ==
  ASSUME NEW s, StoreOk(s), NEW pb, HoldOk(s.del, pb), NEW d \in Delegators,
         NEW tokens \in Int, now \in Nat,
         s.del[d].proxy = NoProxy, s.del[d].found, NEW e \in Delegators
  PROVE  /\ HoldStep(s.del, UpdateShares(s, d, tokens).del, e)
         /\ HoldOk(UpdateShares(s, d, tokens).del, pb)
<1> DEFINE u == UpdateShares(s, d, tokens)
<1>1. s.del \in [Delegators -> DelegatorRecord]
  BY Zenon DEF StoreOk, Store
<1>2. \A f \in Delegators : s.del[f].tokens \in Int /\ s.del[f].total \in Int
  BY <1>1 DEF DelegatorRecord
<1>3. ASSUME NEW f \in Delegators PROVE HoldStep(s.del, s.del, f)
  <2>1. \A p \in Delegators : Part(s.del[f], p) \in Int
    BY <1>2 DEF Part
  <2>2. \A p \in Delegators : s.del[p].total = s.del[p].total + (Part(s.del[f], p) - Part(s.del[f], p))
    BY <1>2, <2>1
  <2>3. \A g \in Delegators \ {f} : SameHold(s.del[g], s.del[g])
    BY Zenon DEF SameHold
  <2>4. s.del[f].isProxy => s.del[f].found
    BY DEF HoldOk, NoDelegator
  <2> QED BY Zenon, <2>2, <2>3, <2>4 DEF HoldStep, HoldOk
<1>4. \A f \in Delegators : HoldStep(s.del, u.del, f)
  BY Zenon, <1>3, HoldStepUpdate
<1>5. StoreOk(u)
  BY Zenon, UpdateSharesSound DEF Sound
<1>6. SameHold(s.del[d], u.del[d])
  BY Zenon, UpdateSharesHold
<1> HIDE DEF u
<1>7. u.del \in [Delegators -> DelegatorRecord] /\ u.del[d].proxy = s.del[d].proxy
  BY Zenon, <1>5, <1>6 DEF StoreOk, Store, SameHold
<1>8. HoldOk(u.del, pb)
  <2>1. pb = BindingsAfter(pb, s.del, u.del, d)
    BY <1>7, SameBindings
  <2>2. HoldStep(s.del, u.del, d)
    BY Zenon, <1>4
  <2> QED BY Zenon, <1>1, <1>7, <2>1, <2>2, HoldChange
<1> QED BY Zenon, <1>4, <1>8 DEF u

\* MsgBindProxy: d leaves the proxy it had and enters the total of p.
LEMMA BindProxyChange ==
  ASSUME Inv, HoldOk(del, proxyBindings), NEW d \in Delegators, NEW p \in Delegators,
         handleMsgBindProxy(d, p)
  PROVE  DelegatorChange(d, 0)
<1> DEFINE old == del[d].proxy
           s0 == IF old = NoProxy THEN Stored ELSE Unbind(Stored, d)
           total == del[p].total + del[d].tokens
           s == [s0 EXCEPT !.del = [@ EXCEPT ![d].proxy = p, ![d].isProxy = FALSE, ![p].total = total]]
           n == total + del[p].tokens
           m == del[p].total + del[p].tokens
<1>1. StoreOk(Stored) /\ now \in Nat
  BY StoredOk, ZenonT(60) DEF Inv, TypeOK
<1>2. /\ d # p /\ del[d].found /\ del[d].shares = 0 /\ ~del[d].isProxy
      /\ del[p].found /\ del[p].isProxy
      /\ \/ old = p /\ Save(UpdateShares(Stored, p, m)) /\ UNCHANGED proxyBindings
         \/ /\ old # p
            /\ Save(UpdateShares(s, p, n))
            /\ proxyBindings' = (proxyBindings \ {<<old, d>>}) \cup {<<p, d>>}
  BY ZenonT(60) DEF handleMsgBindProxy, ValidateBindProxy
<1>3. del \in [Delegators -> DelegatorRecord] /\ del[d] \in DelegatorRecord /\ del[p] \in DelegatorRecord
  BY Zenon DEF Inv, TypeOK
<1>4. /\ del[p].total \in Nat /\ del[d].tokens \in Nat \ {0} /\ del[p].tokens \in Nat \ {0}
      /\ old \in Delegators \cup {NoProxy} /\ del[d].total \in Nat
  <2>1. del[p].total \in Nat /\ del[p].tokens \in Nat \ {0}
    BY Zenon, <1>2, <1>3, HoldFacts
  <2>2. del[d].total \in Nat /\ del[d].tokens \in Nat \ {0}
    BY Zenon, <1>2, <1>3, HoldFacts
  <2> QED BY Zenon, <1>3, <2>1, <2>2 DEF DelegatorRecord
<1>5. n \in Nat \ {0} /\ m \in Nat \ {0} /\ total \in Nat
  BY <1>4
<1>6. del[p].proxy = NoProxy
  BY Zenon, <1>2 DEF HoldOk
<1>7. Stored.del = del /\ Stored.val = val
  BY Zenon DEF Stored
<1>8. CASE old = p
  <2> DEFINE t == UpdateShares(Stored, p, m)
  <2>1. Save(t) /\ proxyBindings' = proxyBindings
    BY Zenon, <1>2, <1>8
  <2>2. m \in Nat \ {0}
    BY Zenon, <1>5
  <2> HIDE DEF m, n, total, s0, s, old
  <2>3. m \in Int
    BY <2>2
  <2>4. StoreOk(Stored) /\ Stored.del[p].proxy = NoProxy /\ Stored.del[p].found
    BY Zenon, <1>1, <1>2, <1>6, <1>7
  <2>5. HoldOk(Stored.del, proxyBindings)
    BY Zenon, <1>7
  <2>6. StoreOk(t) /\ KeepsMsd(val, t.val)
    <3>1. StoreOk(t)
      BY Zenon, <1>1, <2>3, UpdateSharesSound DEF Sound
    <3>2. KeepsMsd(Stored.val, t.val)
      BY Zenon, <1>1, UpdateSharesMsd
    <3> QED BY Zenon, <1>7, <3>1, <3>2
  <2>7. now >= SecondsPerWeek /\ VotesOk(Stored) => VotesOk(t)
    BY Zenon, <1>1, <2>2, UpdateSharesVotes
  <2>8. HoldStep(Stored.del, t.del, d)
    BY Zenon, <1>1, <2>3, <2>4, <2>5, HoldUpdate
  <2>9. t.del[d] = del[d]
    <3>1. \A e \in Delegators : e # p => t.del[e] = Stored.del[e]
      BY <2>4, UpdateSharesHold
    <3> QED BY Zenon, <1>2, <1>7, <3>1
  <2> HIDE DEF t
  <2>10. proxyBindings' = BindingsAfter(proxyBindings, del, t.del, d)
    BY Zenon, <2>1, <2>9, SameBindings
  <2>11. t.del[d].tokens = del[d].tokens + 0 /\ 0 \in Int /\ HoldStep(del, t.del, d)
    BY <1>4, <1>7, <2>8, <2>9
  <2> QED BY Zenon, <2>1, <2>6, <2>7, <2>10, <2>11, SaveChange
<1>9. CASE old # p
  <2>1. Save(UpdateShares(s, p, n)) /\ proxyBindings' = (proxyBindings \ {<<old, d>>}) \cup {<<p, d>>}
    BY Zenon, <1>2, <1>9
  <2> DEFINE k == -del[d].tokens
  <2>2. /\ StoreOk(s0) /\ KeepsMsd(val, s0.val)
        /\ now >= SecondsPerWeek /\ VotesOk(Stored) => VotesOk(s0)
        /\ s0.del[d] = [del[d] EXCEPT !.proxy = NoProxy]
        /\ \A e \in Delegators \ {d} : SameHold(del[e], s0.del[e])
        /\ \A e \in Delegators : s0.del[e].total = del[e].total + (IF e = old THEN k ELSE 0)
    <3>1. CASE old = NoProxy
      <4>1. s0 = Stored
        BY Zenon, <3>1
      <4>2. [del[d] EXCEPT !.proxy = NoProxy] = del[d]
        BY Zenon, <1>3, <3>1 DEF DelegatorRecord
      <4>3. \A e \in Delegators : e # old /\ del[e].total \in Int
        BY Zenon, <1>3, <3>1, StakingAssumption DEF DelegatorRecord
      <4> HIDE DEF s0, k, old
      <4> QED BY <1>1, <1>7, <4>1, <4>2, <4>3 DEF SameHold, KeepsMsd
    <3>2. CASE old # NoProxy
      <4>1. s0 = Unbind(Stored, d)
        BY Zenon, <3>2
      <4> HIDE DEF s0
      <4> QED BY <3>2, <4>1, UnbindChange
    <3> QED BY Zenon, <3>1, <3>2
  <2> HIDE DEF k
  <2>3. s0.del \in [Delegators -> DelegatorRecord]
    BY Zenon, <2>2 DEF StoreOk, Store
  <2> DEFINE r0 == [del[d] EXCEPT !.proxy = NoProxy]
             rd == [[r0 EXCEPT !.proxy = p] EXCEPT !.isProxy = FALSE]
             rp == [s0.del[p] EXCEPT !.total = total]
             d1 == [s0.del EXCEPT ![d] = rd]
             d2 == [d1 EXCEPT ![p] = rp]
  <2>4. /\ rd \in DelegatorRecord /\ rd.found /\ rd.tokens = del[d].tokens /\ rd.shares = 0
        /\ rd.vals = del[d].vals /\ ~rd.isProxy /\ rd.total = del[d].total /\ rd.proxy = p
    <3>1. r0 \in DelegatorRecord
      BY Zenon, <1>3, DelegatorEdits
    <3>2. /\ r0.found = del[d].found /\ r0.tokens = del[d].tokens /\ r0.shares = del[d].shares
          /\ r0.vals = del[d].vals /\ r0.total = del[d].total
      BY Zenon, <1>3 DEF DelegatorRecord
    <3> HIDE DEF r0
    <3>3. [r0 EXCEPT !.proxy = p] \in DelegatorRecord
      BY Zenon, <3>1, DelegatorEdits
    <3>4. rd \in DelegatorRecord
      BY <3>3, DelegatorEdits, ZenonT(30)
    <3>5. /\ rd.found = r0.found /\ rd.tokens = r0.tokens /\ rd.shares = r0.shares
          /\ rd.vals = r0.vals /\ ~rd.isProxy /\ rd.total = r0.total /\ rd.proxy = p
      BY Zenon, <3>1 DEF DelegatorRecord
    <3> QED BY Zenon, <1>2, <3>2, <3>4, <3>5
  <2>5. /\ rp \in DelegatorRecord /\ rp.total = total /\ SameHold(s0.del[p], rp)
        /\ rp.vals = s0.del[p].vals /\ rp.shares = s0.del[p].shares
    <3>1. s0.del[p] \in DelegatorRecord
      BY Zenon, <2>3
    <3>2. rp \in DelegatorRecord
      BY <1>5, <3>1, DelegatorEdits
    <3>3. /\ rp.total = total /\ rp.found = s0.del[p].found /\ rp.isProxy = s0.del[p].isProxy
          /\ rp.tokens = s0.del[p].tokens /\ rp.proxy = s0.del[p].proxy
          /\ rp.shares = s0.del[p].shares /\ rp.vals = s0.del[p].vals
      BY Zenon, <3>1 DEF DelegatorRecord
    <3>4. s0.del[p].found
      BY Zenon, <1>2, <2>2 DEF SameHold
    <3> QED BY Zenon, <3>2, <3>3, <3>4 DEF SameHold
  <2>6. s = [s0 EXCEPT !.del = d2]
    <3> HIDE DEF s0, total, rp
    <3>1. d2 = [s0.del EXCEPT ![d].proxy = p, ![d].isProxy = FALSE, ![p].total = total]
      BY <1>2, <2>2, <2>3, ZenonT(60) DEF rp
    <3> QED BY Zenon, <3>1
  <2> HIDE DEF s0, rd, rp, n, total
  <2>7. d2 \in [Delegators -> DelegatorRecord] /\ d2[d] = rd /\ d2[p] = rp
        /\ \A e \in Delegators \ {d, p} : d2[e] = s0.del[e]
    BY Zenon, <1>2, <2>3, <2>4, <2>5
  <2> HIDE DEF s, d2, r0
  <2>8. StoreOk(s) /\ s.val = s0.val /\ s.to = s0.to /\ s.del = d2
    BY Zenon, <2>2, <2>6, <2>7 DEF StoreOk, Store
  <2>9. now >= SecondsPerWeek /\ VotesOk(Stored) => VotesOk(s)
    <3>1. s0.del[d].vals = del[d].vals /\ s0.del[d].shares = 0
      BY Zenon, <1>2, <1>3, <2>2 DEF DelegatorRecord
    <3>2. \A e \in Delegators : s.del[e].vals = s0.del[e].vals /\ s.del[e].shares = s0.del[e].shares
      BY <2>4, <2>5, <2>7, <2>8, <3>1
    <3>3. VotesOk(s0) => VotesOk(s)
      BY Zenon, <2>8, <3>2, SameVotes
    <3> QED BY Zenon, <2>2, <3>3
  <2>10. HoldStep(del, s.del, d)
    <3>1. \A e \in Delegators : Part(s.del[d], e) - Part(del[d], e)
             = (IF e = p THEN del[d].tokens ELSE 0) - (IF e = old THEN del[d].tokens ELSE 0)
      BY Zenon, <2>4, <2>7, <2>8 DEF Part
    <3>2. old # d
      BY <1>2, StakingAssumption DEF HoldOk
    <3>3. s0.del[d].total = del[d].total
      BY <1>4, <2>2, <3>2
    <3>4. ASSUME NEW e \in Delegators
          PROVE  s.del[e].total = del[e].total + (Part(s.del[d], e) - Part(del[d], e))
      <4>1. CASE e = p
        BY <1>4, <1>9, <2>5, <2>7, <2>8, <3>1, <4>1 DEF total
      <4>2. CASE e = old
        <5>1. e # d /\ e # p /\ s.del[e] = s0.del[e]
          BY Zenon, <1>9, <2>7, <2>8, <3>2, <4>2
        <5>2. del[e].total \in Int
          BY Zenon, <1>3 DEF DelegatorRecord
        <5> QED BY <1>4, <2>2, <3>1, <4>2, <5>1, <5>2 DEF k
      <4>3. CASE e # p /\ e # old
        <5>1. del[e].total \in Int
          BY Zenon, <1>3 DEF DelegatorRecord
        <5>2. s.del[e].total = s0.del[e].total
          BY Zenon, <2>4, <2>7, <2>8, <3>3, <4>3
        <5> QED BY <1>4, <2>2, <3>1, <4>3, <5>1, <5>2
      <4> QED BY Zenon, <4>1, <4>2, <4>3
    <3>5. \A e \in Delegators \ {d} : SameHold(del[e], s.del[e])
      BY Zenon, <2>2, <2>5, <2>7, <2>8, SameHoldTransitive
    <3>6. s.del[d].tokens > 0
      BY <1>4, <2>4, <2>7, <2>8
    <3> HIDE DEF old
    <3> QED BY Zenon, <1>2, <2>4, <2>7, <2>8, <3>4, <3>5, <3>6 DEF HoldStep
  <2> DEFINE t == UpdateShares(s, p, n)
  <2>11. s.del[p].proxy = NoProxy /\ s.del[p].found
    <3>1. SameHold(del[p], s0.del[p])
      BY Zenon, <1>2, <2>2
    <3> QED BY Zenon, <1>2, <1>6, <2>5, <2>7, <2>8, <3>1 DEF SameHold
  <2>12. HoldStep(del, t.del, d)
    BY Zenon, <2>8, <2>10, <2>11, HoldStepUpdate
  <2>13. StoreOk(t) /\ KeepsMsd(s.val, t.val)
    BY <1>1, <1>5, <2>8, UpdateSharesSound, UpdateSharesMsd DEF Sound
  <2>14. now >= SecondsPerWeek /\ VotesOk(Stored) => VotesOk(t)
    BY Zenon, <1>1, <1>5, <2>8, <2>9, UpdateSharesVotes
  <2>15. t.del[d] = rd
    <3>1. t.del[d] = s.del[d]
      BY <1>2, <2>8, <2>11, UpdateSharesHold
    <3> QED BY Zenon, <2>7, <2>8, <3>1
  <2>16. Save(t)
    BY Zenon, <2>1
  <2> HIDE DEF t, old
  <2>17. proxyBindings' = BindingsAfter(proxyBindings, del, t.del, d)
    BY Zenon, <2>1, <2>4, <2>15, StakingAssumption DEF BindingsAfter, old
  <2>18. KeepsMsd(val, t.val)
    BY Zenon, <2>2, <2>8, <2>13, KeepsMsdTransitive
  <2>19. t.del[d].tokens = del[d].tokens + 0 /\ 0 \in Int
    BY <1>4, <2>4, <2>15
  <2> QED BY Zenon, <2>12, <2>13, <2>14, <2>16, <2>17, <2>18, <2>19, SaveChange
<1> QED BY Zenon, <1>8, <1>9

\* MsgRegProxy, registering.
LEMMA RegProxyChange ==
  ASSUME Inv, HoldOk(del, proxyBindings), NEW d \in Delegators, regProxy(d)
  PROVE  DelegatorChange(d, 0)
<1> DEFINE r == [del[d] EXCEPT !.isProxy = TRUE]
           s == [Stored EXCEPT !.del = [Stored.del EXCEPT ![d] = r]]
           n == del[d].tokens
           t == UpdateShares(s, d, n)
<1>1. StoreOk(Stored) /\ now \in Nat
  BY Zenon, StoredOk DEF Inv, TypeOK
<1>2. del \in [Delegators -> DelegatorRecord] /\ del[d] \in DelegatorRecord
  BY Zenon DEF Inv, TypeOK
<1>3. /\ del[d].found /\ ~del[d].isProxy /\ del[d].proxy = NoProxy
      /\ proxyBindings' = proxyBindings
  BY Zenon DEF regProxy
<1>4. Save(t)
  <2>1. [Stored EXCEPT !.del[d].isProxy = TRUE] = s
    BY Zenon DEF Stored
  <2> QED BY Zenon, <2>1 DEF regProxy
<1>5. n \in Nat \ {0} /\ n \in Int
  BY <1>2, <1>3, HoldFacts
<1>6. /\ r \in DelegatorRecord /\ r.found /\ r.tokens = del[d].tokens /\ r.shares = del[d].shares
      /\ r.vals = del[d].vals /\ r.isProxy /\ r.total = del[d].total /\ r.proxy = NoProxy
  <2>1. r \in DelegatorRecord
    BY <1>2, DelegatorEdits, ZenonT(30)
  <2> QED BY Zenon, <1>2, <1>3, <2>1 DEF DelegatorRecord
<1> HIDE DEF r
<1>7. Stored.del = del /\ Stored.val = val /\ Stored.to = sharesTo
  BY Zenon DEF Stored
<1>8. StoreOk(s) /\ s.val = val /\ s.to = sharesTo /\ s.del = [del EXCEPT ![d] = r]
  BY <1>1, <1>6, <1>7, SetDelegatorSound DEF Sound
<1> HIDE DEF s, n
<1>9. s.del[d] = r /\ \A e \in Delegators \ {d} : s.del[e] = del[e]
  BY Zenon, <1>2, <1>8
<1>10. VotesOk(Stored) => VotesOk(s)
  <2>1. \A e \in Delegators : s.del[e].vals = Stored.del[e].vals /\ s.del[e].shares = Stored.del[e].shares
    BY Zenon, <1>6, <1>7, <1>9
  <2> QED BY <1>7, <1>8, <2>1, SameVotes, ZenonT(20)
<1>11. HoldStep(del, s.del, d)
  <2>1. \A p \in Delegators : Part(s.del[d], p) = 0 /\ Part(del[d], p) = 0
    BY Zenon, <1>3, <1>6, <1>9, StakingAssumption DEF Part
  <2>2. \A p \in Delegators : del[p].total \in Int
    BY Zenon, <1>2 DEF DelegatorRecord
  <2>3. \A p \in Delegators : s.del[p].total = del[p].total + (Part(s.del[d], p) - Part(del[d], p))
    BY <1>6, <1>9, <2>1, <2>2
  <2>4. \A e \in Delegators \ {d} : SameHold(del[e], s.del[e])
    BY Zenon, <1>9 DEF SameHold
  <2>5. del[d].tokens > 0
    BY Zenon, <1>3 DEF HoldOk
  <2> QED BY Zenon, <1>6, <1>9, <2>3, <2>4, <2>5 DEF HoldStep
<1>12. s.del[d].proxy = NoProxy /\ s.del[d].found
  BY Zenon, <1>6, <1>9
<1>13. StoreOk(t) /\ KeepsMsd(s.val, t.val)
  BY Zenon, <1>1, <1>5, <1>8, UpdateSharesSound, UpdateSharesMsd DEF Sound
<1>14. now >= SecondsPerWeek /\ VotesOk(Stored) => VotesOk(t)
  BY Zenon, <1>1, <1>5, <1>8, <1>10, UpdateSharesVotes
<1>15. HoldStep(del, t.del, d)
  BY Zenon, <1>8, <1>11, <1>12, HoldStepUpdate
<1>16. SameHold(s.del[d], t.del[d])
  BY Zenon, <1>8, <1>12, UpdateSharesHold
<1> HIDE DEF t
<1>17. t.del[d].tokens = del[d].tokens + 0 /\ t.del[d].proxy = del[d].proxy /\ 0 \in Int
  <2>1. t.del[d].tokens = del[d].tokens /\ t.del[d].proxy = del[d].proxy
    BY Zenon, <1>3, <1>6, <1>9, <1>16 DEF SameHold
  <2>2. del[d].tokens \in Int
    BY <1>2 DEF DelegatorRecord
  <2> QED BY <2>1, <2>2
<1>18. proxyBindings' = BindingsAfter(proxyBindings, del, t.del, d)
  BY <1>3, <1>17, SameBindings
<1>19. KeepsMsd(val, t.val)
  BY Zenon, <1>8, <1>13
<1> QED BY Zenon, <1>4, <1>13, <1>14, <1>15, <1>17, <1>18, <1>19, SaveChange

\* MsgRegProxy, unregistering: everybody bound to d is released.
LEMMA UnregProxyChange ==
  ASSUME Inv, HoldOk(del, proxyBindings), NEW d \in Delegators, unregProxy(d)
  PROVE  DelegatorChange(d, 0)
<1> DEFINE c == ClearProxy(d)
           dl == [c EXCEPT ![d].isProxy = FALSE, ![d].total = 0]
           s == [Stored EXCEPT !.del = dl]
           n == del[d].tokens
           t == UpdateShares(s, d, n)
           pb == {b \in proxyBindings : b[1] # d}
<1>1. StoreOk(Stored) /\ now \in Nat
  BY Zenon, StoredOk DEF Inv, TypeOK
<1>2. del \in [Delegators -> DelegatorRecord] /\ del[d] \in DelegatorRecord
  BY Zenon DEF Inv, TypeOK
<1>3. /\ del[d].found /\ del[d].isProxy /\ proxyBindings' = pb /\ Save(t)
  BY Zenon DEF unregProxy
<1>4. n \in Nat \ {0} /\ n \in Int
  BY <1>2, <1>3, HoldFacts
<1>5. \A e \in Delegators : <<d, e>> \in proxyBindings /\ del[e].found <=> del[e].proxy = d
  BY StakingAssumption DEF HoldOk
<1>6. /\ c \in [Delegators -> DelegatorRecord]
      /\ \A e \in Delegators : c[e] = IF del[e].proxy = d THEN [del[e] EXCEPT !.proxy = NoProxy] ELSE del[e]
  <2>1. \A e \in Delegators : c[e] = IF del[e].proxy = d THEN [del[e] EXCEPT !.proxy = NoProxy] ELSE del[e]
    BY Zenon, <1>5 DEF ClearProxy
  <2>2. c \in [Delegators -> DelegatorRecord]
    BY <1>2, DelegatorEdits, ZenonT(60) DEF ClearProxy
  <2> QED BY Zenon, <2>1, <2>2
<1> HIDE DEF c
<1>7. del[d].proxy = NoProxy
  BY Zenon, <1>3 DEF HoldOk
<1>8. c[d] = del[d]
  BY Zenon, <1>6, <1>7, StakingAssumption
<1>9. /\ dl \in [Delegators -> DelegatorRecord] /\ \A e \in Delegators \ {d} : dl[e] = c[e]
      /\ dl[d].found /\ dl[d].tokens = n /\ dl[d].shares = del[d].shares /\ dl[d].vals = del[d].vals
      /\ ~dl[d].isProxy /\ dl[d].total = 0 /\ dl[d].proxy = NoProxy
  <2> DEFINE r1 == [del[d] EXCEPT !.isProxy = FALSE]
             r == [r1 EXCEPT !.total = 0]
  <2>1. dl = [c EXCEPT ![d] = r]
    BY <1>6, <1>8, ZenonT(30)
  <2>2. r1 \in DelegatorRecord
    BY <1>2, DelegatorEdits, ZenonT(30)
  <2>3. /\ r1.found = del[d].found /\ r1.tokens = n /\ r1.shares = del[d].shares /\ r1.vals = del[d].vals
        /\ ~r1.isProxy /\ r1.proxy = NoProxy
    BY Zenon, <1>2, <1>7 DEF DelegatorRecord
  <2> HIDE DEF r1
  <2>4. r \in DelegatorRecord
    BY <2>2, DelegatorEdits
  <2>5. /\ r.found = r1.found /\ r.tokens = r1.tokens /\ r.shares = r1.shares /\ r.vals = r1.vals
        /\ r.isProxy = r1.isProxy /\ r.proxy = r1.proxy /\ r.total = 0
    BY Zenon, <2>2 DEF DelegatorRecord
  <2> HIDE DEF r, dl
  <2>6. dl \in [Delegators -> DelegatorRecord] /\ dl[d] = r /\ \A e \in Delegators \ {d} : dl[e] = c[e]
    BY Zenon, <1>6, <2>1, <2>4
  <2> QED BY Zenon, <1>3, <2>3, <2>5, <2>6
<1> HIDE DEF dl, n
<1>10. \A e \in Delegators \ {d} :
         /\ dl[e].found = del[e].found /\ dl[e].tokens = del[e].tokens /\ dl[e].shares = del[e].shares
         /\ dl[e].vals = del[e].vals /\ dl[e].isProxy = del[e].isProxy /\ dl[e].total = del[e].total
         /\ dl[e].proxy = IF del[e].proxy = d THEN NoProxy ELSE del[e].proxy
         /\ ~del[e].found => dl[e] = NoDelegator
  <2>2. \A e \in Delegators \ {d} : dl[e] = IF del[e].proxy = d THEN [del[e] EXCEPT !.proxy = NoProxy] ELSE del[e]
    BY Zenon, <1>6, <1>9
  <2>3. \A e \in Delegators : ~del[e].found => del[e] = NoDelegator /\ del[e].proxy # d
    BY Zenon, <1>5 DEF HoldOk
  <2>4. \A e \in Delegators \ {d} : ~del[e].found => dl[e] = NoDelegator
    BY Zenon, <2>2, <2>3
  <2> SUFFICES ASSUME NEW e \in Delegators \ {d}
               PROVE  /\ dl[e].found = del[e].found /\ dl[e].tokens = del[e].tokens
                      /\ dl[e].shares = del[e].shares /\ dl[e].vals = del[e].vals
                      /\ dl[e].isProxy = del[e].isProxy /\ dl[e].total = del[e].total
                      /\ dl[e].proxy = IF del[e].proxy = d THEN NoProxy ELSE del[e].proxy
    BY Zenon, <2>4
  <2>5. CASE del[e].proxy = d
    <3>1. dl[e] = [del[e] EXCEPT !.proxy = NoProxy]
      BY Zenon, <2>2, <2>5
    <3>2. del[e] \in DelegatorRecord
      BY Zenon, <1>2
    <3> QED BY Zenon, <2>5, <3>1, <3>2 DEF DelegatorRecord
  <2>6. CASE del[e].proxy # d
    BY Zenon, <2>2, <2>6
  <2> QED BY Zenon, <2>5, <2>6
<1>11. HoldOk(dl, pb)
  <2>1. pb = {<<dl[e].proxy, e>> : e \in {f \in Delegators : dl[f].proxy # NoProxy}}
    <3>1. proxyBindings = {<<del[e].proxy, e>> : e \in {f \in Delegators : del[f].proxy # NoProxy}}
      BY Zenon DEF HoldOk
    <3>2. \A e \in Delegators : dl[e].proxy = IF del[e].proxy = d THEN NoProxy ELSE del[e].proxy
      BY <1>7, <1>9, <1>10
    <3> QED BY <3>1, <3>2
  <2>2. \A e \in Delegators : dl[e].proxy # NoProxy =>
          /\ dl[e].found /\ ~dl[e].isProxy /\ dl[e].shares = 0
          /\ dl[dl[e].proxy].found /\ dl[dl[e].proxy].isProxy
    <3> SUFFICES ASSUME NEW e \in Delegators, dl[e].proxy # NoProxy
                 PROVE  /\ dl[e].found /\ ~dl[e].isProxy /\ dl[e].shares = 0
                        /\ dl[dl[e].proxy].found /\ dl[dl[e].proxy].isProxy
      BY Zenon
    <3>1. e # d /\ dl[e].proxy = del[e].proxy /\ del[e].proxy # d
      BY Zenon, <1>9, <1>10
    <3>2. dl[e].proxy \in Delegators
      BY Zenon, <1>9 DEF DelegatorRecord
    <3>3. /\ del[e].found /\ ~del[e].isProxy /\ del[e].shares = 0
          /\ del[del[e].proxy].found /\ del[del[e].proxy].isProxy
      BY Zenon, <3>1 DEF HoldOk
    <3> QED BY <1>10, <3>1, <3>2, <3>3
  <2>3. \A e \in Delegators : IF dl[e].found THEN dl[e].tokens > 0 ELSE dl[e] = NoDelegator
    BY <1>4, <1>9, <1>10 DEF HoldOk
  <2>4. ASSUME NEW p \in Delegators PROVE dl[p].total = SumOf(Parts(dl, p), Delegators)
    <3>1. IsFiniteSet(Delegators)
      BY Zenon, StakingAssumption
    <3>2. CASE p = d
      <4>1. \A e \in Delegators : dl[e].proxy # d
        BY <1>9, <1>10, StakingAssumption
      <4>2. \A e \in Delegators : Parts(dl, p)[e] = 0
        BY Zenon, <3>2, <4>1 DEF Parts, Part
      <4>3. SumOf(Parts(dl, p), Delegators) = 0
        BY Zenon, <3>1, <4>2, SumZero
      <4> QED BY Zenon, <1>9, <3>2, <4>3
    <3>3. CASE p # d
      <4>1. \A e \in Delegators : Part(dl[e], p) = Part(del[e], p)
        BY <1>7, <1>9, <1>10, <3>3, StakingAssumption DEF Part
      <4>2. \A e \in Delegators : Parts(dl, p)[e] = Parts(del, p)[e]
        BY Zenon, <4>1 DEF Parts
      <4>3. SumOf(Parts(dl, p), Delegators) = SumOf(Parts(del, p), Delegators)
        BY Zenon, <3>1, <4>2, SumEqual
      <4> QED BY <1>10, <3>3, <4>3 DEF HoldOk
    <3> QED BY Zenon, <3>2, <3>3
  <2> QED BY Zenon, <2>1, <2>2, <2>3, <2>4 DEF HoldOk
<1> HIDE DEF pb
<1>12. Stored.del = del /\ Stored.val = val /\ Stored.to = sharesTo
  BY Zenon DEF Stored
<1>13. StoreOk(s) /\ s.val = val /\ s.to = sharesTo /\ s.del = dl
  BY Zenon, <1>1, <1>9, <1>12 DEF StoreOk, Store
<1> HIDE DEF s
<1>14. VotesOk(Stored) => VotesOk(s)
  <2>1. \A e \in Delegators : s.del[e].vals = Stored.del[e].vals /\ s.del[e].shares = Stored.del[e].shares
    BY Zenon, <1>9, <1>10, <1>12, <1>13
  <2> QED BY Zenon, <1>12, <1>13, <2>1, SameVotes
<1>15. StoreOk(t) /\ KeepsMsd(s.val, t.val)
  BY Zenon, <1>1, <1>4, <1>13, UpdateSharesSound, UpdateSharesMsd DEF Sound
<1>16. now >= SecondsPerWeek /\ VotesOk(Stored) => VotesOk(t)
  BY Zenon, <1>1, <1>4, <1>13, <1>14, UpdateSharesVotes
<1>17. s.del[d].proxy = NoProxy /\ s.del[d].found /\ HoldOk(s.del, pb)
  BY Zenon, <1>9, <1>11, <1>13
<1>18. HoldOk(t.del, pb)
  BY Zenon, <1>1, <1>4, <1>13, <1>17, HoldUpdate
<1>19. \A e \in Delegators : SameHold(s.del[e], t.del[e])
  BY Zenon, <1>13, <1>17, UpdateSharesHold
<1> HIDE DEF t
<1>20. \A e \in Delegators : t.del[e].tokens = del[e].tokens /\ del[e].tokens \in Int
  BY <1>2, <1>9, <1>10, <1>13, <1>19 DEF SameHold, n, DelegatorRecord
<1>21. del' = t.del /\ val' = t.val /\ proxyBindings' = pb
  BY Zenon, <1>3 DEF Save
<1>22. now >= SecondsPerWeek /\ VotesOk(Stored) => VotesOk(Stored')
  BY Zenon, <1>3, <1>16, SavedVotes
<1>23. HoldOk(del', proxyBindings') /\ KeepsMsd(val, val')
  BY Zenon, <1>13, <1>15, <1>18, <1>21
<1>24. \A e \in Delegators : del'[e].tokens = del[e].tokens + (IF e = d THEN 0 ELSE 0)
  BY <1>20, <1>21
<1> QED BY Zenon, <1>22, <1>23, <1>24 DEF DelegatorChange

----------------------------------------------------------------------------
(* Pools and undelegations *)

Msds(vl) == [v \in Validators |-> vl[v].msd]
Tokens(dl) == [d \in Delegators |-> dl[d].tokens]
Pending(un) == [a \in Accounts |-> un[a].quantity]

\* The bonded pool holds the msd of the validators and the tokens of the delegators.
BondedOk(pool, vl, dl) ==
  /\ \A v \in Validators : vl[v].msd # 0 => Exists(vl, v)
  /\ pool = SumOf(Msds(vl), Validators) + SumOf(Tokens(dl), Delegators)

\* The other pool holds the pending undelegations, each of which has one key.
PendingOk(pool, un, queue) ==
  /\ pool = SumOf(Pending(un), Accounts)
  /\ queue = {<<un[a].time, a>> : a \in {b \in Accounts : un[b].quantity # 0}}

\* A pool and the sums it is compared with are natural numbers.
LEMMA PoolSums ==
  ASSUME Inv
  PROVE  /\ SumOf(Msds(val), Validators) \in Nat
         /\ SumOf(Tokens(del), Delegators) \in Nat
         /\ SumOf(Pending(undelegation), Accounts) \in Nat
         /\ \A a \in Accounts : undelegation[a].quantity <= SumOf(Pending(undelegation), Accounts)
         /\ IsFiniteSet(Validators) /\ IsFiniteSet(Delegators) /\ IsFiniteSet(Accounts)
<1>1. IsFiniteSet(Validators) /\ IsFiniteSet(Delegators)
  BY Zenon, StakingAssumption
<1>2. IsFiniteSet(Accounts)
  BY Zenon, <1>1, FS_Union DEF Accounts
<1>3. \A v \in Validators : Msds(val)[v] \in Nat
  BY Zenon DEF Inv, TypeOK, ValidatorRecord, Msds
<1>4. \A d \in Delegators : Tokens(del)[d] \in Nat
  BY Zenon DEF Inv, TypeOK, DelegatorRecord, Tokens
<1>5. \A a \in Accounts : Pending(undelegation)[a] \in Nat /\ Pending(undelegation)[a] = undelegation[a].quantity
  BY Zenon DEF Inv, TypeOK, Pending
<1>6. SumOf(Msds(val), Validators) \in Nat
  BY Zenon, <1>1, <1>3, SumNat
<1>7. SumOf(Tokens(del), Delegators) \in Nat
  BY Zenon, <1>1, <1>4, SumNat
<1>8. /\ SumOf(Pending(undelegation), Accounts) \in Nat
      /\ \A a \in Accounts : Pending(undelegation)[a] <= SumOf(Pending(undelegation), Accounts)
  BY Zenon, <1>2, <1>5, SumNat
<1> QED BY Zenon, <1>1, <1>2, <1>5, <1>6, <1>7, <1>8

\* The msds of the validators stay.
LEMMA SameMsds ==
  ASSUME KeepsMsd(val, val')
  PROVE  SumOf(Msds(val'), Validators) = SumOf(Msds(val), Validators)
<1>1. \A v \in Validators : Msds(val')[v] = Msds(val)[v]
  BY Zenon DEF KeepsMsd, Msds
<1>2. IsFiniteSet(Validators)
  BY Zenon, StakingAssumption
<1> QED BY Zenon, <1>1, <1>2, SumEqual

\* The tokens of one delegator change.
LEMMA TokensChange ==
  ASSUME Inv, Inv', NEW d \in Delegators, NEW q \in Int, DelegatorChange(d, q)
  PROVE  SumOf(Tokens(del'), Delegators) = SumOf(Tokens(del), Delegators) + q
<1>1. \A e \in Delegators : del[e].tokens \in Int /\ del'[e].tokens \in Int
  <2>1. del \in [Delegators -> DelegatorRecord] /\ del' \in [Delegators -> DelegatorRecord]
    BY Zenon DEF Inv, TypeOK
  <2>2. \A e \in Delegators : del[e].tokens \in Nat /\ del'[e].tokens \in Nat
    BY Zenon, <2>1 DEF DelegatorRecord
  <2> QED BY <2>2
<1>2. \A e \in Delegators : Tokens(del)[e] = del[e].tokens /\ Tokens(del')[e] = del'[e].tokens
  BY Zenon DEF Tokens
<1>3. \A e \in Delegators : Tokens(del)[e] \in Int /\ Tokens(del')[e] \in Int
  BY Zenon, <1>1, <1>2
<1>4. \A e \in Delegators \ {d} : Tokens(del)[e] = Tokens(del')[e]
  BY <1>1, <1>2 DEF DelegatorChange
<1>5. Tokens(del')[d] - Tokens(del)[d] = q
  BY <1>1, <1>2 DEF DelegatorChange
<1>6. IsFiniteSet(Delegators)
  BY Zenon, StakingAssumption
<1>7. SumOf(Tokens(del'), Delegators) = SumOf(Tokens(del), Delegators) + (Tokens(del')[d] - Tokens(del)[d])
  BY <1>3, <1>4, <1>6, SumChange
<1> QED BY Zenon, <1>5, <1>7

\* The bonded pool after a transaction of a delegator that moves q tokens.
LEMMA BondedChange ==
  ASSUME Inv, Inv', BondedOk(bondedPool, val, del), NEW d \in Delegators, NEW q \in Int,
         DelegatorChange(d, q), bondedPool' = bondedPool + q
  PROVE  BondedOk(bondedPool', val', del')
<1>1. /\ SumOf(Tokens(del'), Delegators) = SumOf(Tokens(del), Delegators) + q
      /\ SumOf(Msds(val'), Validators) = SumOf(Msds(val), Validators)
  BY Zenon, TokensChange, SameMsds DEF DelegatorChange
<1>2. \A v \in Validators : val'[v].msd # 0 => Exists(val', v)
  BY Zenon DEF BondedOk, DelegatorChange, KeepsMsd, Exists
<1>3. SumOf(Msds(val), Validators) \in Int /\ SumOf(Tokens(del), Delegators) \in Int
  BY PoolSums
<1> QED BY <1>1, <1>2, <1>3 DEF BondedOk

\* The msds of the validators when one of them changes.
LEMMA MsdSum ==
  ASSUME NEW vl, NEW vl2, NEW v \in Validators,
         \A w \in Validators : vl[w].msd \in Int /\ vl2[w].msd \in Int,
         \A w \in Validators \ {v} : vl2[w].msd = vl[w].msd
  PROVE  SumOf(Msds(vl2), Validators) = SumOf(Msds(vl), Validators) + (vl2[v].msd - vl[v].msd)
<1> DEFINE f == Msds(vl)
           g == Msds(vl2)
<1>1. /\ \A w \in Validators : f[w] = vl[w].msd /\ g[w] = vl2[w].msd
  BY Zenon DEF Msds
<1>2. \A w \in Validators : f[w] \in Int /\ g[w] \in Int
  BY Zenon, <1>1
<1>3. \A w \in Validators \ {v} : f[w] = g[w]
  BY Zenon, <1>1
<1>4. IsFiniteSet(Validators)
  BY Zenon, StakingAssumption
<1> HIDE DEF f, g
<1>5. SumOf(g, Validators) = SumOf(f, Validators) + (g[v] - f[v])
  BY <1>2, <1>3, <1>4, SumChange
<1>6. SumOf(g, Validators) = SumOf(f, Validators) + (vl2[v].msd - vl[v].msd)
  BY Zenon, <1>1, <1>5
<1> QED BY Zenon, <1>6 DEF f, g

\* The bonded pool after a step that changes the msd of one validator.
LEMMA MsdChange ==
  ASSUME Inv, Inv', BondedOk(bondedPool, val, del), NEW v \in Validators, NEW m \in Int,
         \A w \in Validators \ {v} : val'[w] = val[w], val'[v].msd = val[v].msd + m,
         val'[v].msd # 0 => Exists(val', v),
         del' = del, bondedPool' = bondedPool + m
  PROVE  BondedOk(bondedPool', val', del')
<1>1. \A w \in Validators : val[w].msd \in Int /\ val'[w].msd \in Int
  <2>1. val \in [Validators -> ValidatorRecord] /\ val' \in [Validators -> ValidatorRecord]
    BY Zenon DEF Inv, TypeOK
  <2>2. \A w \in Validators : val[w].msd \in Nat /\ val'[w].msd \in Nat
    BY Zenon, <2>1 DEF ValidatorRecord
  <2> QED BY <2>2
<1>2. SumOf(Msds(val'), Validators) = SumOf(Msds(val), Validators) + (val'[v].msd - val[v].msd)
  <2>1. \A w \in Validators \ {v} : val'[w].msd = val[w].msd
    BY Zenon
  <2> QED BY Zenon, <1>1, <2>1, MsdSum
<1>3. SumOf(Msds(val), Validators) \in Int /\ SumOf(Tokens(del), Delegators) \in Int
  BY PoolSums
<1>4. \A w \in Validators : val'[w].msd # 0 => Exists(val', w)
  BY Zenon DEF BondedOk, Exists
<1> QED BY <1>1, <1>2, <1>3, <1>4 DEF BondedOk

\* AddUndelegation: what is added to the pending undelegation of a comes out of the bonded pool,
\* and the key moves to the new completion time.
LEMMA PendingChange ==
  ASSUME Inv, Inv', PendingOk(notBondedPool, undelegation, undelegateQueue),
         NEW a \in Accounts, NEW q \in Nat \ {0}, BondedToNotBonded(q), AddUndelegation(a, q)
  PROVE  PendingOk(notBondedPool', undelegation', undelegateQueue')
<1> DEFINE time == now + UnbondingTime
           r == [quantity |-> undelegation[a].quantity + q, time |-> time]
<1>1. undelegation \in [Accounts -> [quantity : Nat, time : Nat]] /\ undelegation[a].quantity \in Nat
  BY Zenon DEF Inv, TypeOK
<1>2. /\ undelegation' = [undelegation EXCEPT ![a] = r]
      /\ undelegateQueue' = (undelegateQueue
               \ (IF undelegation[a].quantity = 0 THEN {} ELSE {<<undelegation[a].time, a>>}))
            \cup {<<time, a>>}
  BY Zenon DEF AddUndelegation
<1> HIDE DEF time
<1>3. /\ undelegation'[a].quantity = undelegation[a].quantity + q /\ undelegation'[a].time = time
      /\ \A b \in Accounts \ {a} : undelegation'[b] = undelegation[b]
  BY Zenon, <1>1, <1>2
<1>4. undelegation'[a].quantity # 0
  BY <1>1, <1>3
<1>5. undelegateQueue' = {<<undelegation'[b].time, b>> : b \in {c \in Accounts : undelegation'[c].quantity # 0}}
  <2>1. undelegateQueue = {<<undelegation[b].time, b>> : b \in {c \in Accounts : undelegation[c].quantity # 0}}
    BY Zenon DEF PendingOk
  <2> HIDE DEF r
  <2>2. ASSUME NEW b \in Accounts \ {a}
        PROVE  undelegation'[b].time = undelegation[b].time
               /\ undelegation'[b].quantity = undelegation[b].quantity
    BY Zenon, <1>3
  <2> QED BY <1>2, <1>3, <1>4, <2>1, <2>2
<1>6. notBondedPool' = SumOf(Pending(undelegation'), Accounts)
  <2>1. \A b \in Accounts : undelegation[b].quantity \in Int /\ undelegation'[b].quantity \in Int
    <3>1. /\ undelegation \in [Accounts -> [quantity : Nat, time : Nat]]
          /\ undelegation' \in [Accounts -> [quantity : Nat, time : Nat]]
      BY Zenon DEF Inv, TypeOK
    <3> QED BY <3>1
  <2>2. \A b \in Accounts : /\ Pending(undelegation)[b] = undelegation[b].quantity
                            /\ Pending(undelegation')[b] = undelegation'[b].quantity
    BY Zenon DEF Pending
  <2>3. \A b \in Accounts : Pending(undelegation)[b] \in Int /\ Pending(undelegation')[b] \in Int
    BY Zenon, <2>1, <2>2
  <2>4. \A b \in Accounts \ {a} : Pending(undelegation)[b] = Pending(undelegation')[b]
    BY Zenon, <1>3, <2>2
  <2>5. Pending(undelegation')[a] - Pending(undelegation)[a] = q
    BY <1>1, <1>3, <2>2
  <2>6. IsFiniteSet(Accounts)
    BY Zenon, PoolSums
  <2>7. SumOf(Pending(undelegation'), Accounts) =
          SumOf(Pending(undelegation), Accounts) + (Pending(undelegation')[a] - Pending(undelegation)[a])
    BY <2>3, <2>4, <2>6, SumChange
  <2>8. notBondedPool = SumOf(Pending(undelegation), Accounts) /\ notBondedPool' = notBondedPool + q
    BY Zenon DEF PendingOk, BondedToNotBonded
  <2> QED BY Zenon, <2>5, <2>7, <2>8
<1> QED BY Zenon, <1>5, <1>6 DEF PendingOk

\* CompleteUndelegation pays: a key has a record, and the pool holds all of them.
LEMMA CompletePending ==
  ASSUME Inv, Inv', PendingOk(notBondedPool, undelegation, undelegateQueue),
         NEW t, NEW a, CompleteUndelegation(t, a)
  PROVE  PendingOk(notBondedPool', undelegation', undelegateQueue')
<1> DEFINE q == undelegation[a].quantity
<1>1. <<t, a>> \in undelegateQueue /\ undelegateQueue' = undelegateQueue \ {<<t, a>>}
  BY Zenon DEF CompleteUndelegation
<1>2. undelegateQueue = {<<undelegation[b].time, b>> : b \in {c \in Accounts : undelegation[c].quantity # 0}}
  BY Zenon DEF PendingOk
<1>3. a \in Accounts /\ t = undelegation[a].time /\ q # 0
  BY Zenon, <1>1, <1>2
<1>4. q \in Nat /\ undelegation \in [Accounts -> [quantity : Nat, time : Nat]] /\ notBondedPool \in Nat
  BY Zenon, <1>3 DEF Inv, TypeOK
<1>5. notBondedPool >= q
  BY Zenon, <1>3, <1>4, PoolSums DEF PendingOk
<1>6. notBondedPool' = notBondedPool - q /\ undelegation' = [undelegation EXCEPT ![a] = NoUndelegation]
  BY Zenon, <1>3, <1>5 DEF CompleteUndelegation
<1>7. /\ undelegation'[a].quantity = 0
      /\ \A b \in Accounts \ {a} : undelegation'[b] = undelegation[b]
  BY Zenon, <1>3, <1>4, <1>6 DEF NoUndelegation
<1>8. undelegateQueue' = {<<undelegation'[b].time, b>> : b \in {c \in Accounts : undelegation'[c].quantity # 0}}
  BY <1>1, <1>2, <1>3, <1>7
<1>9. notBondedPool' = SumOf(Pending(undelegation'), Accounts)
  <2>1. \A b \in Accounts : undelegation[b].quantity \in Int /\ undelegation'[b].quantity \in Int
    <3>1. /\ undelegation \in [Accounts -> [quantity : Nat, time : Nat]]
          /\ undelegation' \in [Accounts -> [quantity : Nat, time : Nat]]
      BY Zenon DEF Inv, TypeOK
    <3> QED BY <3>1
  <2>2. \A b \in Accounts : /\ Pending(undelegation)[b] = undelegation[b].quantity
                            /\ Pending(undelegation')[b] = undelegation'[b].quantity
    BY Zenon DEF Pending
  <2>3. \A b \in Accounts : Pending(undelegation)[b] \in Int /\ Pending(undelegation')[b] \in Int
    BY Zenon, <2>1, <2>2
  <2>4. \A b \in Accounts \ {a} : Pending(undelegation)[b] = Pending(undelegation')[b]
    BY Zenon, <1>7, <2>2
  <2>5. Pending(undelegation')[a] - Pending(undelegation)[a] = -q
    BY <1>3, <1>4, <1>7, <2>2
  <2>6. IsFiniteSet(Accounts)
    BY Zenon, PoolSums
  <2> DEFINE f == Pending(undelegation)
             g == Pending(undelegation')
  <2>7. SumOf(g, Accounts) = SumOf(f, Accounts) + (g[a] - f[a])
    <3>1. /\ \A b \in Accounts : f[b] \in Int /\ g[b] \in Int
          /\ \A b \in Accounts \ {a} : f[b] = g[b]
          /\ a \in Accounts
      BY Zenon, <1>3, <2>3, <2>4
    <3> HIDE DEF f, g, q
    <3> QED BY <2>6, <3>1, SumChange
  <2>8. notBondedPool = SumOf(Pending(undelegation), Accounts)
    BY Zenon DEF PendingOk
  <2> HIDE DEF q
  <2> QED BY Zenon, <1>4, <1>6, <2>5, <2>7, <2>8
<1> QED BY Zenon, <1>8, <1>9 DEF PendingOk
=============================================================================
