---------------------------- MODULE TokenProofs ----------------------------
(***************************************************************************)
(* Where the coins of the token module are, and who owns a token, for any  *)
(* accounts, tokens, amounts, fees, windows and times.                     *)
(*                                                                         *)
(* Coins: the supply is what the accounts have, nobody is overdrawn, and   *)
(* the module account has what is locked.  Every message is a few changes  *)
(* of tables (Add, Move, UpdateLocked), each of which keeps Sane.  The     *)
(* loop of a MultiSend is unrolled for its one or two transfers.           *)
(*                                                                         *)
(* Owners: the keys under the owners are exact, a token changes hands only *)
(* by consent, and one that was given up stays given up.  The argument     *)
(* rests on OfferStands: an offer that can still be confirmed was made by  *)
(* the owner the token has now, and that owner can sign.                   *)
(***************************************************************************)
EXTENDS Integers, FiniteSets, Token, SumTheorems, TLAPS

----------------------------------------------------------------------------
(* Tables of coins *)

Balances == [Holders -> [Denoms -> Int]]
Column(b, d) == [a \in Holders |-> b[a][d]]

\* The sets that coins are summed over.
LEMMA FiniteHolders ==
  /\ IsFiniteSet(Holders) /\ IsFiniteSet(Accounts)
  /\ Accounts \subseteq Holders /\ TokenAcc \in Holders /\ FeeAcc \in Holders
  /\ TokenAcc # FeeAcc /\ TokenAcc \notin Accounts /\ Native \in Denoms
<1>1. IsFiniteSet({BlackHole, TokenAcc, FeeAcc})
  <2>1. IsFiniteSet({}) /\ IsFiniteSet({} \cup {BlackHole})
    BY Zenon, FS_EmptySet, FS_AddElement
  <2>2. IsFiniteSet(({} \cup {BlackHole}) \cup {TokenAcc})
    BY Zenon, <2>1, FS_AddElement
  <2>3. IsFiniteSet((({} \cup {BlackHole}) \cup {TokenAcc}) \cup {FeeAcc})
    BY Zenon, <2>2, FS_AddElement
  <2>4. (({} \cup {BlackHole}) \cup {TokenAcc}) \cup {FeeAcc} = {BlackHole, TokenAcc, FeeAcc}
    BY Zenon
  <2> QED BY <2>3, <2>4, Zenon
<1>2. IsFiniteSet(Users)
  BY Zenon, TokenAssumption
<1>3. IsFiniteSet(Holders)
  BY Zenon, <1>1, <1>2, FS_Union DEF Holders
<1>4. Accounts \in SUBSET Users
  BY Zenon DEF Users
<1>5. IsFiniteSet(Accounts)
  BY Zenon, <1>2, <1>4, FS_Subset
<1> QED BY Zenon, <1>3, <1>5, TokenAssumption DEF Holders, Users, Denoms

\* The table t is b with n coins d added to the account a.
Added(b, t, a, d, n) ==
  /\ t \in Balances
  /\ t[a][d] = b[a][d] + n
  /\ \A y \in Denoms \ {d} : t[a][y] = b[a][y]
  /\ \A x \in Holders \ {a} : t[x] = b[x]
  /\ \A y \in Denoms : SumOf(Column(t, y), Holders) =
                         IF y = d THEN SumOf(Column(b, y), Holders) + n ELSE SumOf(Column(b, y), Holders)

\* The table t is b with n coins d moved from one account to another.
Moved(b, t, from, to, d, n) ==
  /\ t \in Balances
  /\ \A x \in Holders, y \in Denoms : y # d => t[x][y] = b[x][y]
  /\ \A x \in Holders \ {from, to} : t[x] = b[x]
  /\ from # to => t[from][d] = b[from][d] - n /\ t[to][d] = b[to][d] + n
  /\ from = to => t[from][d] = b[from][d]
  /\ \A y \in Denoms : SumOf(Column(t, y), Holders) = SumOf(Column(b, y), Holders)

\* What Add does.
LEMMA AddEffect ==
  ASSUME NEW b \in Balances, NEW a \in Holders, NEW d \in Denoms, NEW n \in Int
  PROVE  Added(b, Add(b, a, d, n), a, d, n)
<1> DEFINE t == Add(b, a, d, n)
<1>1. t = [b EXCEPT ![a] = [b[a] EXCEPT ![d] = b[a][d] + n]]
  BY Zenon DEF Add, Balances
<1>2. b[a] \in [Denoms -> Int] /\ b[a][d] + n \in Int
  BY DEF Balances
<1>3. [b[a] EXCEPT ![d] = b[a][d] + n] \in [Denoms -> Int]
  BY Zenon, <1>2
<1>4. t \in Balances
  BY Zenon, <1>1, <1>3 DEF Balances
<1>5. /\ t[a][d] = b[a][d] + n
      /\ \A y \in Denoms \ {d} : t[a][y] = b[a][y]
      /\ \A x \in Holders \ {a} : t[x] = b[x]
  BY Zenon, <1>1, <1>2 DEF Balances
<1> SUFFICES ASSUME NEW y \in Denoms
             PROVE  SumOf(Column(t, y), Holders) =
                      IF y = d THEN SumOf(Column(b, y), Holders) + n ELSE SumOf(Column(b, y), Holders)
  BY Zenon, <1>4, <1>5 DEF Added
<1> HIDE DEF t
<1> DEFINE f == Column(b, y)
           g == Column(t, y)
<1>6. \A x \in Holders : f[x] = b[x][y] /\ g[x] = t[x][y]
  BY Zenon DEF Column
<1>7. \A x \in Holders : f[x] \in Int /\ g[x] \in Int
  BY <1>4, <1>6 DEF Balances
<1>8. \A x \in Holders \ {a} : f[x] = g[x]
  BY <1>5, <1>6
<1>9. IF y = d THEN g[a] = f[a] + n ELSE g[a] = f[a]
  BY <1>5, <1>6
<1>10. IsFiniteSet(Holders)
  BY Zenon, FiniteHolders
<1> HIDE DEF f, g
<1>11. SumOf(g, Holders) = SumOf(f, Holders) + (g[a] - f[a])
  BY <1>7, <1>8, <1>10, SumChange
<1>12. SumOf(f, Holders) \in Int
  BY Zenon, <1>7, <1>10, SumInt
<1>13. SumOf(g, Holders) = IF y = d THEN SumOf(f, Holders) + n ELSE SumOf(f, Holders)
  BY <1>7, <1>9, <1>11, <1>12
<1> QED BY Zenon, <1>13 DEF f, g

\* What Move does.
LEMMA MoveEffect ==
  ASSUME NEW b \in Balances, NEW from \in Holders, NEW to \in Holders, NEW d \in Denoms, NEW n \in Int
  PROVE  Moved(b, Move(b, from, to, d, n), from, to, d, n)
<1> DEFINE u == Add(b, from, d, -n)
           t == Add(u, to, d, n)
<1> HIDE DEF t, u
<1>1. Added(b, u, from, d, -n)
  <2>1. -n \in Int
    OBVIOUS
  <2> QED BY Zenon, <2>1, AddEffect DEF u
<1>2. u \in Balances
  BY Zenon, <1>1 DEF Added
<1>3. Added(u, t, to, d, n)
  BY Zenon, <1>2, AddEffect DEF t
<1>4. b[from][d] \in Int /\ b[to][d] \in Int
  BY Zenon DEF Balances
<1>5. \A y \in Denoms : SumOf(Column(t, y), Holders) = SumOf(Column(b, y), Holders)
  <2> SUFFICES ASSUME NEW y \in Denoms PROVE SumOf(Column(t, y), Holders) = SumOf(Column(b, y), Holders)
    BY Zenon
  <2>1. \A x \in Holders : Column(b, y)[x] \in Int
    BY Zenon DEF Column, Balances
  <2>2. SumOf(Column(b, y), Holders) \in Int
    BY Zenon, <2>1, FiniteHolders, SumInt
  <2> DEFINE p == SumOf(Column(b, y), Holders)
             q == SumOf(Column(u, y), Holders)
             r == SumOf(Column(t, y), Holders)
  <2>3. /\ q = IF y = d THEN p + (-n) ELSE p
        /\ r = IF y = d THEN q + n ELSE q
        /\ p \in Int
    BY Zenon, <1>1, <1>3, <2>2 DEF Added
  <2> HIDE DEF p, q, r
  <2>4. r = p
    BY <2>3
  <2> QED BY Zenon, <2>4 DEF p, r
<1>6. \A x \in Holders, y \in Denoms : y # d => t[x][y] = b[x][y]
  BY <1>1, <1>3 DEF Added
<1>7. \A x \in Holders \ {from, to} : t[x] = b[x]
  BY Zenon, <1>1, <1>3 DEF Added
<1>8. from # to => t[from][d] = b[from][d] - n /\ t[to][d] = b[to][d] + n
  <2> SUFFICES ASSUME from # to PROVE t[from][d] = b[from][d] - n /\ t[to][d] = b[to][d] + n
    BY Zenon
  <2>1. t[from] = u[from] /\ u[to] = b[to]
    BY Zenon, <1>1, <1>3 DEF Added
  <2> QED BY Zenon, <1>1, <1>3, <1>4, <2>1 DEF Added
<1>9. from = to => t[from][d] = b[from][d]
  BY <1>1, <1>3, <1>4 DEF Added
<1>10. t \in Balances /\ Move(b, from, to, d, n) = t
  BY Zenon, <1>3 DEF Added, Move, t, u
<1> QED BY Zenon, <1>5, <1>6, <1>7, <1>8, <1>9, <1>10 DEF Moved

Locks == [Accounts -> [LockTypes -> [Denoms -> Nat]]]
LockedColumn(l, d) == [a \in Accounts |-> l[a]["quantity"][d] + l[a]["fee"][d]]

\* What CoinsExact says of the tables b of balances, s of supplies and l of locked coins.
Sane(b, s, l) ==
  /\ b \in Balances /\ s \in [Denoms -> Int] /\ l \in Locks
  /\ \A d \in Denoms : s[d] = SumOf(Column(b, d), Holders)
  /\ \A d \in Denoms, a \in Holders : b[a][d] >= 0
  /\ \A d \in Denoms : b[TokenAcc][d] = SumOf(LockedColumn(l, d), Accounts)

\* Coins made or destroyed with the supply, in an account that is not the module account.
LEMMA SaneAdd ==
  ASSUME NEW b, NEW s, NEW l, Sane(b, s, l), NEW a \in Holders, a # TokenAcc, NEW d \in Denoms,
         NEW n \in Int, b[a][d] + n >= 0
  PROVE  Sane(Add(b, a, d, n), [s EXCEPT ![d] = @ + n], l)
<1> DEFINE t == Add(b, a, d, n)
           z == [s EXCEPT ![d] = s[d] + n]
<1>1. Added(b, t, a, d, n)
  BY Zenon, AddEffect DEF Sane
<1> HIDE DEF t
<1>2. t \in Balances
  BY Zenon, <1>1 DEF Added
<1>3. s \in [Denoms -> Int]
  BY Zenon DEF Sane
<1>4. z \in [Denoms -> Int] /\ z[d] = s[d] + n /\ \A y \in Denoms \ {d} : z[y] = s[y]
  BY <1>3
<1>5. ASSUME NEW y \in Denoms PROVE z[y] = SumOf(Column(t, y), Holders)
  <2>1. s[y] = SumOf(Column(b, y), Holders)
    BY Zenon DEF Sane
  <2>2. SumOf(Column(t, y), Holders) =
          IF y = d THEN SumOf(Column(b, y), Holders) + n ELSE SumOf(Column(b, y), Holders)
    BY Zenon, <1>1 DEF Added
  <2> QED BY Zenon, <1>4, <2>1, <2>2
<1>6. ASSUME NEW y \in Denoms, NEW x \in Holders PROVE t[x][y] >= 0
  <2>1. b[x][y] >= 0
    BY Zenon DEF Sane
  <2> QED BY Zenon, <1>1, <2>1 DEF Added
<1>7. t[TokenAcc] = b[TokenAcc]
  BY Zenon, <1>1, FiniteHolders DEF Added
<1>8. Sane(t, z, l)
  BY Zenon, <1>2, <1>4, <1>5, <1>6, <1>7 DEF Sane
<1> QED BY Zenon, <1>8 DEF t

\* Coins moved between accounts other than the module account.
LEMMA SaneMove ==
  ASSUME NEW b, NEW s, NEW l, Sane(b, s, l), NEW from \in Holders, NEW to \in Holders,
         from # TokenAcc, to # TokenAcc, NEW d \in Denoms, NEW n \in Nat, CanPay(b, from, d, n)
  PROVE  Sane(Move(b, from, to, d, n), s, l)
<1> DEFINE t == Move(b, from, to, d, n)
<1>1. Moved(b, t, from, to, d, n)
  <2>1. n \in Int
    OBVIOUS
  <2> QED BY Zenon, <2>1, MoveEffect DEF Sane
<1> HIDE DEF t
<1>2. t \in Balances /\ \A y \in Denoms : SumOf(Column(t, y), Holders) = SumOf(Column(b, y), Holders)
  BY Zenon, <1>1 DEF Moved
<1>3. ASSUME NEW y \in Denoms, NEW x \in Holders PROVE t[x][y] >= 0
  <2>1. b[x][y] >= 0 /\ b[x][y] \in Int /\ b[from][d] >= n /\ b[from][d] \in Int
    BY Zenon DEF Sane, CanPay, Balances
  <2>2. CASE y # d \/ x \notin {from, to}
    <3>1. t[x][y] = b[x][y]
      BY Zenon, <1>1, <2>2 DEF Moved
    <3> QED BY Zenon, <2>1, <3>1
  <2>3. CASE y = d /\ x \in {from, to}
    <3>1. t[x][y] = b[x][y] \/ (x = from /\ t[x][y] = b[x][y] - n) \/ t[x][y] = b[x][y] + n
      BY Zenon, <1>1, <2>3 DEF Moved
    <3> QED BY <2>1, <2>3, <3>1
  <2> QED BY Zenon, <2>2, <2>3
<1>4. t[TokenAcc] = b[TokenAcc]
  BY Zenon, <1>1, FiniteHolders DEF Moved
<1>5. Sane(t, s, l)
  BY Zenon, <1>2, <1>3, <1>4 DEF Sane
<1> QED BY Zenon, <1>5 DEF t

\* Locked coins of a change by n.
LEMMA LockEffect ==
  ASSUME NEW l \in Locks, NEW a \in Accounts, NEW k \in LockTypes, NEW d \in Denoms, NEW n \in Int,
         l[a][k][d] + n >= 0
  PROVE  /\ UpdateLocked(l, a, k, d, n) \in Locks
         /\ \A y \in Denoms : SumOf(LockedColumn(UpdateLocked(l, a, k, d, n), y), Accounts) =
              IF y = d THEN SumOf(LockedColumn(l, y), Accounts) + n ELSE SumOf(LockedColumn(l, y), Accounts)
<1> DEFINE r == [l[a][k] EXCEPT ![d] = l[a][k][d] + n]
           t == UpdateLocked(l, a, k, d, n)
<1>1. t = [l EXCEPT ![a] = [l[a] EXCEPT ![k] = r]]
  BY Zenon DEF UpdateLocked
<1>2. l[a] \in [LockTypes -> [Denoms -> Nat]] /\ l[a][k] \in [Denoms -> Nat]
  BY Zenon DEF Locks
<1>3. l[a][k][d] + n \in Nat
  BY <1>2
<1>4. r \in [Denoms -> Nat] /\ r[d] = l[a][k][d] + n /\ \A y \in Denoms \ {d} : r[y] = l[a][k][y]
  BY Zenon, <1>2, <1>3
<1> HIDE DEF r
<1>5. t \in Locks
  BY <1>1, <1>2, <1>4 DEF Locks
<1>6. /\ t[a][k] = r
      /\ \A j \in LockTypes \ {k} : t[a][j] = l[a][j]
      /\ \A x \in Accounts \ {a} : t[x] = l[x]
  BY Zenon, <1>1, <1>2 DEF Locks
<1> HIDE DEF t
<1> SUFFICES ASSUME NEW y \in Denoms
             PROVE  SumOf(LockedColumn(t, y), Accounts) =
                      IF y = d THEN SumOf(LockedColumn(l, y), Accounts) + n ELSE SumOf(LockedColumn(l, y), Accounts)
  BY Zenon, <1>5 DEF t
<1> DEFINE f == LockedColumn(l, y)
           g == LockedColumn(t, y)
<1>7. \A x \in Accounts : /\ f[x] = l[x]["quantity"][y] + l[x]["fee"][y]
                          /\ g[x] = t[x]["quantity"][y] + t[x]["fee"][y]
  BY Zenon DEF LockedColumn
<1>8. "quantity" \in LockTypes /\ "fee" \in LockTypes /\ (k = "quantity" \/ k = "fee")
  BY Zenon DEF LockTypes
<1>9. \A x \in Accounts, j \in LockTypes : l[x][j][y] \in Nat /\ t[x][j][y] \in Nat
  BY <1>5 DEF Locks
<1>10. \A x \in Accounts : f[x] \in Int /\ g[x] \in Int
  BY <1>7, <1>8, <1>9
<1>11. \A x \in Accounts \ {a} : f[x] = g[x]
  BY Zenon, <1>6, <1>7
<1>12. IF y = d THEN g[a] = f[a] + n ELSE g[a] = f[a]
  <2>1. CASE y = d
    <3>1. t[a][k][y] = l[a][k][y] + n
      BY Zenon, <1>4, <1>6, <2>1
    <3>2. CASE k = "quantity"
      <4>1. t[a]["fee"] = l[a]["fee"]
        BY Zenon, <1>6, <1>8, <3>2
      <4> QED BY <1>7, <1>8, <1>9, <2>1, <3>1, <3>2, <4>1
    <3>3. CASE k = "fee"
      <4>1. t[a]["quantity"] = l[a]["quantity"]
        BY Zenon, <1>6, <1>8, <3>3
      <4> QED BY <1>7, <1>8, <1>9, <2>1, <3>1, <3>3, <4>1
    <3> QED BY Zenon, <1>8, <3>2, <3>3
  <2>2. CASE y # d
    <3>1. \A j \in LockTypes : t[a][j][y] = l[a][j][y]
      BY Zenon, <1>4, <1>6, <2>2
    <3> QED BY Zenon, <1>7, <1>8, <2>2, <3>1
  <2> QED BY Zenon, <2>1, <2>2
<1>13. IsFiniteSet(Accounts)
  BY Zenon, FiniteHolders
<1> HIDE DEF f, g
<1>14. SumOf(g, Accounts) = SumOf(f, Accounts) + (g[a] - f[a])
  BY <1>10, <1>11, <1>13, SumChange
<1>15. SumOf(f, Accounts) \in Int
  BY Zenon, <1>10, <1>13, SumInt
<1>16. SumOf(g, Accounts) = IF y = d THEN SumOf(f, Accounts) + n ELSE SumOf(f, Accounts)
  BY <1>10, <1>12, <1>14, <1>15
<1> QED BY Zenon, <1>16 DEF f, g

\* The module account and the lock store change together; r is the other side.
LEMMA SaneLock ==
  ASSUME NEW b, NEW s, NEW l, Sane(b, s, l), NEW r \in Holders, r # TokenAcc,
         NEW a \in Accounts, NEW k \in LockTypes, NEW d \in Denoms, NEW n \in Int,
         NEW t, Moved(b, t, r, TokenAcc, d, n), b[r][d] - n >= 0, l[a][k][d] + n >= 0
  PROVE  Sane(t, s, UpdateLocked(l, a, k, d, n))
<1> DEFINE m == UpdateLocked(l, a, k, d, n)
<1>1. l \in Locks /\ b \in Balances
  BY Zenon DEF Sane
<1>2. /\ m \in Locks
      /\ \A y \in Denoms : SumOf(LockedColumn(m, y), Accounts) =
              IF y = d THEN SumOf(LockedColumn(l, y), Accounts) + n ELSE SumOf(LockedColumn(l, y), Accounts)
  BY <1>1, LockEffect
<1> HIDE DEF m
<1>3. /\ t \in Balances /\ \A y \in Denoms : SumOf(Column(t, y), Holders) = SumOf(Column(b, y), Holders)
      /\ \A x \in Holders, y \in Denoms : y # d => t[x][y] = b[x][y]
      /\ \A x \in Holders \ {r, TokenAcc} : t[x] = b[x]
      /\ t[r][d] = b[r][d] - n /\ t[TokenAcc][d] = b[TokenAcc][d] + n
  BY Zenon DEF Moved
<1>4. TokenAcc \in Holders /\ IsFiniteSet(Accounts)
  BY Zenon, FiniteHolders
<1>5. ASSUME NEW y \in Denoms PROVE t[TokenAcc][y] = SumOf(LockedColumn(m, y), Accounts)
  <2>1. b[TokenAcc][y] = SumOf(LockedColumn(l, y), Accounts)
    BY Zenon DEF Sane
  <2> QED BY Zenon, <1>2, <1>3, <1>4, <2>1
<1>6. ASSUME NEW y \in Denoms, NEW x \in Holders PROVE t[x][y] >= 0
  <2>1. b[x][y] >= 0
    BY Zenon DEF Sane
  <2>2. CASE x = TokenAcc
    <3>1. "quantity" \in LockTypes /\ "fee" \in LockTypes
      BY Zenon DEF LockTypes
    <3>2. \A z \in Accounts : m[z]["quantity"][y] \in Nat /\ m[z]["fee"][y] \in Nat
      BY <1>2, <3>1 DEF Locks
    <3>3. \A z \in Accounts : LockedColumn(m, y)[z] \in Nat
      BY <3>2 DEF LockedColumn
    <3>4. SumOf(LockedColumn(m, y), Accounts) \in Nat
      BY Zenon, <1>4, <3>3, SumNat
    <3> QED BY <1>5, <2>2, <3>4
  <2>3. CASE x = r /\ y = d
    BY Zenon, <1>3, <2>3
  <2>4. CASE x # TokenAcc /\ ~(x = r /\ y = d)
    <3>1. t[x][y] = b[x][y]
      BY Zenon, <1>3, <2>4
    <3> QED BY Zenon, <2>1, <3>1
  <2> QED BY Zenon, <2>2, <2>3, <2>4
<1>7. Sane(t, s, m)
  BY Zenon, <1>2, <1>3, <1>5, <1>6 DEF Sane
<1> QED BY Zenon, <1>7 DEF m

\* A payment of the module account, out of the locked coins of a.
LEMMA SaneUnlock ==
  ASSUME NEW b, NEW s, NEW l, Sane(b, s, l), NEW r \in Accounts, NEW a \in Accounts,
         NEW k \in LockTypes, NEW d \in Denoms, NEW n \in Nat, l[a][k][d] >= n
  PROVE  Sane(Move(b, TokenAcc, r, d, n), s, UpdateLocked(l, a, k, d, -n))
<1> DEFINE t == Move(b, TokenAcc, r, d, n)
<1>1. /\ r \in Holders /\ TokenAcc \in Holders /\ r # TokenAcc /\ b \in Balances /\ l \in Locks
      /\ n \in Int /\ -n \in Int
  BY FiniteHolders DEF Sane
<1>2. Moved(b, t, TokenAcc, r, d, n)
  BY Zenon, <1>1, MoveEffect
<1> HIDE DEF t
<1>3. b[r][d] \in Int /\ b[TokenAcc][d] \in Int /\ b[r][d] >= 0 /\ l[a][k][d] \in Nat
  BY <1>1 DEF Balances, Locks, Sane
<1>4. b[r][d] - (-n) = b[r][d] + n /\ b[TokenAcc][d] + (-n) = b[TokenAcc][d] - n
  BY <1>3
<1>5. Moved(b, t, r, TokenAcc, d, -n)
  BY Zenon, <1>1, <1>2, <1>4 DEF Moved
<1>6. b[r][d] - (-n) >= 0 /\ l[a][k][d] + (-n) >= 0
  BY <1>3
<1>7. Sane(t, s, UpdateLocked(l, a, k, d, -n))
  BY Zenon, <1>1, <1>5, <1>6, SaneLock
<1> QED BY Zenon, <1>7 DEF t

\* The fee is paid last.
LEMMA SaneFee ==
  ASSUME NEW b, NEW s, NEW l, Sane(b, s, l), NEW a \in Accounts, PayFee(b, a)
  PROVE  Sane(balance', s, l)
<1>1. /\ a \in Holders /\ FeeAcc \in Holders /\ a # TokenAcc /\ FeeAcc # TokenAcc
      /\ Native \in Denoms /\ Fee \in Nat
  BY Zenon, FiniteHolders, TokenAssumption
<1>2. CanPay(b, a, Native, Fee) /\ balance' = Move(b, a, FeeAcc, Native, Fee)
  BY Zenon DEF PayFee, Charged
<1> QED BY Zenon, <1>1, <1>2, SaneMove

CoinsInv == Sane(balance, supply, locked)

\* The table g is f with z coins y more in the row of x and k.
RowChange(f, g, x, k, y, z) ==
  /\ g \in [Accounts -> [LockTypes -> [Denoms -> Int]]]
  /\ g[x][k][y] = f[x][k][y] + z
  /\ \A p \in Accounts, q \in LockTypes, i \in Denoms :
       p # x \/ q # k \/ i # y => g[p][q][i] = f[p][q][i]

\* What updateLockedCoins does to a table.
LEMMA UpdateEffect ==
  ASSUME NEW f \in [Accounts -> [LockTypes -> [Denoms -> Int]]], NEW x \in Accounts,
         NEW k \in LockTypes, NEW y \in Denoms, NEW z \in Int
  PROVE  RowChange(f, UpdateLocked(f, x, k, y, z), x, k, y, z)
<1> DEFINE g == UpdateLocked(f, x, k, y, z)
           r == [f[x][k] EXCEPT ![y] = f[x][k][y] + z]
           w == [f[x] EXCEPT ![k] = r]
<1>1. f[x] \in [LockTypes -> [Denoms -> Int]] /\ f[x][k] \in [Denoms -> Int] /\ f[x][k][y] + z \in Int
  OBVIOUS
<1>2. g = [f EXCEPT ![x] = w]
  BY Zenon DEF UpdateLocked
<1>3. r \in [Denoms -> Int] /\ r[y] = f[x][k][y] + z /\ \A i \in Denoms \ {y} : r[i] = f[x][k][i]
  BY Zenon, <1>1
<1> HIDE DEF r
<1>4. w \in [LockTypes -> [Denoms -> Int]] /\ w[k] = r /\ \A q \in LockTypes \ {k} : w[q] = f[x][q]
  BY Zenon, <1>1, <1>3
<1> HIDE DEF w
<1>5. g \in [Accounts -> [LockTypes -> [Denoms -> Int]]] /\ g[x] = w /\ \A p \in Accounts \ {x} : g[p] = f[p]
  BY Zenon, <1>2, <1>4
<1> HIDE DEF g
<1>6. ASSUME NEW p \in Accounts, NEW q \in LockTypes, NEW i \in Denoms, p # x \/ q # k \/ i # y
      PROVE  g[p][q][i] = f[p][q][i]
  BY Zenon, <1>3, <1>4, <1>5, <1>6
<1>7. RowChange(f, g, x, k, y, z)
  BY Zenon, <1>3, <1>4, <1>5, <1>6 DEF RowChange
<1> QED BY Zenon, <1>7 DEF g

\* Two changes of locked coins may be made in either order.
LEMMA LocksCommute ==
  ASSUME NEW l \in Locks, NEW a \in Accounts, NEW b \in Accounts, NEW k \in LockTypes,
         NEW d \in Denoms, NEW e \in Denoms, NEW n \in Int, NEW m \in Int
  PROVE  UpdateLocked(UpdateLocked(l, a, k, d, n), b, k, e, m) =
         UpdateLocked(UpdateLocked(l, b, k, e, m), a, k, d, n)
<1> DEFINE f1 == UpdateLocked(l, a, k, d, n)
           g1 == UpdateLocked(l, b, k, e, m)
<1>1. l \in [Accounts -> [LockTypes -> [Denoms -> Int]]]
  BY DEF Locks
<1>2. RowChange(l, f1, a, k, d, n) /\ RowChange(l, g1, b, k, e, m)
  BY Zenon, <1>1, UpdateEffect
<1> HIDE DEF f1, g1
<1> DEFINE f == UpdateLocked(f1, b, k, e, m)
           g == UpdateLocked(g1, a, k, d, n)
<1>3. RowChange(f1, f, b, k, e, m) /\ RowChange(g1, g, a, k, d, n)
  <2>1. f1 \in [Accounts -> [LockTypes -> [Denoms -> Int]]] /\ g1 \in [Accounts -> [LockTypes -> [Denoms -> Int]]]
    BY Zenon, <1>2 DEF RowChange
  <2> QED BY Zenon, <2>1, UpdateEffect
<1> HIDE DEF f, g
<1>4. ASSUME NEW p \in Accounts, NEW q \in LockTypes, NEW i \in Denoms PROVE f[p][q][i] = g[p][q][i]
  <2>1. l[p][q][i] \in Int /\ l[a][k][d] \in Int /\ l[b][k][e] \in Int
    BY <1>1
  <2>2. CASE (p # a \/ q # k \/ i # d) /\ (p # b \/ q # k \/ i # e)
    BY <1>2, <1>3, <2>2 DEF RowChange
  <2>3. CASE p = a /\ q = k /\ i = d /\ (a # b \/ d # e)
    <3>1. f[a][k][d] = f1[a][k][d] /\ g1[a][k][d] = l[a][k][d]
      BY <1>2, <1>3, <2>3 DEF RowChange
    <3>2. f1[a][k][d] = l[a][k][d] + n /\ g[a][k][d] = g1[a][k][d] + n
      BY Zenon, <1>2, <1>3 DEF RowChange
    <3> QED BY Zenon, <2>3, <3>1, <3>2
  <2>4. CASE p = b /\ q = k /\ i = e /\ (a # b \/ d # e)
    <3>1. g[b][k][e] = g1[b][k][e] /\ f1[b][k][e] = l[b][k][e]
      BY <1>2, <1>3, <2>4 DEF RowChange
    <3>2. g1[b][k][e] = l[b][k][e] + m /\ f[b][k][e] = f1[b][k][e] + m
      BY Zenon, <1>2, <1>3 DEF RowChange
    <3> QED BY Zenon, <2>4, <3>1, <3>2
  <2>5. CASE p = a /\ q = k /\ i = d /\ a = b /\ d = e
    <3>1. g[a][k][d] = g1[a][k][d] + n /\ f1[a][k][d] = l[a][k][d] + n
      BY Zenon, <1>2, <1>3 DEF RowChange
    <3>2. g1[a][k][d] = l[a][k][d] + m /\ f[a][k][d] = f1[a][k][d] + m
      BY Zenon, <1>2, <1>3, <2>5 DEF RowChange
    <3>3. f[a][k][d] = g[a][k][d]
      BY <2>1, <3>1, <3>2
    <3> QED BY Zenon, <2>5, <3>3
  <2> QED BY Zenon, <2>2, <2>3, <2>4, <2>5
<1>5. /\ f \in [Accounts -> [LockTypes -> [Denoms -> Int]]]
      /\ g \in [Accounts -> [LockTypes -> [Denoms -> Int]]]
  BY Zenon, <1>3 DEF RowChange
<1>6. ASSUME NEW p \in Accounts PROVE f[p] = g[p]
  <2>1. ASSUME NEW q \in LockTypes PROVE f[p][q] = g[p][q]
    <3>1. f[p][q] \in [Denoms -> Int] /\ g[p][q] \in [Denoms -> Int]
      BY Zenon, <1>5
    <3> QED BY <1>4, <3>1
  <2>2. f[p] \in [LockTypes -> [Denoms -> Int]] /\ g[p] \in [LockTypes -> [Denoms -> Int]]
    BY Zenon, <1>5
  <2> QED BY <2>1, <2>2
<1>7. f = g
  BY <1>5, <1>6
<1> QED BY Zenon, <1>7 DEF f, g, f1, g1

\* A settlement: what one side has locked goes to the other.
LEMMA BalanceAccountKeepsCoins ==
  ASSUME CoinsInv, NEW a \in Accounts, NEW b \in Accounts, NEW d \in Denoms, NEW e \in Denoms,
         NEW n \in Nat, NEW m \in Nat, BalanceAccount(a, d, n, b, e, m)
  PROVE  CoinsInv'
<1> DEFINE k == "quantity"
           l1 == UpdateLocked(locked, b, k, e, -m)
           l == UpdateLocked(locked, a, k, d, -n)
           b1 == Move(balance, TokenAcc, a, e, m)
<1>1. /\ locked[a][k][d] >= n /\ l[b][k][e] >= m
      /\ locked' = UpdateLocked(l, b, k, e, -m) /\ supply' = supply
      /\ balance' = Move(b1, TokenAcc, b, d, n)
  BY Zenon DEF BalanceAccount
<1>2. locked \in Locks /\ k \in LockTypes /\ -n \in Int /\ -m \in Int
  BY DEF CoinsInv, Sane, LockTypes
<1> HIDE DEF k
<1>3. locked[a][k][d] \in Nat /\ locked[b][k][e] \in Nat
  BY <1>2 DEF Locks
<1>4. /\ l[b][k][e] = IF a = b /\ d = e THEN locked[b][k][e] - n ELSE locked[b][k][e]
      /\ l1[a][k][d] = IF a = b /\ d = e THEN locked[a][k][d] - m ELSE locked[a][k][d]
  <2>1. locked \in [Accounts -> [LockTypes -> [Denoms -> Int]]]
    BY <1>2 DEF Locks
  <2>2. RowChange(locked, l, a, k, d, -n) /\ RowChange(locked, l1, b, k, e, -m)
    BY Zenon, <1>2, <2>1, UpdateEffect
  <2> HIDE DEF l, l1
  <2>3. CASE a = b /\ d = e
    <3>1. l[b][k][e] = locked[b][k][e] + (-n) /\ l1[a][k][d] = locked[a][k][d] + (-m)
      BY Zenon, <2>2, <2>3 DEF RowChange
    <3> QED BY Zenon, <1>3, <2>3, <3>1
  <2>4. CASE a # b \/ d # e
    BY Zenon, <1>2, <2>2, <2>4 DEF RowChange
  <2> QED BY Zenon, <2>3, <2>4
<1>5. locked[b][k][e] >= m
  BY <1>1, <1>3, <1>4
<1>6. l1[a][k][d] >= n
  BY <1>1, <1>3, <1>4, <1>5
<1>7. Sane(b1, supply, l1)
  BY Zenon, <1>2, <1>5, SaneUnlock DEF CoinsInv
<1>8. locked' = UpdateLocked(l1, a, k, d, -n)
  BY <1>1, <1>2, LocksCommute
<1> HIDE DEF l1, l, b1
<1>9. Sane(Move(b1, TokenAcc, b, d, n), supply, UpdateLocked(l1, a, k, d, -n))
  BY Zenon, <1>2, <1>6, <1>7, SaneUnlock
<1> QED BY Zenon, <1>1, <1>8, <1>9 DEF CoinsInv

\* The genesis: the native coins of the accounts are the supply, and nothing is locked.
LEMMA InitCoins == ASSUME Init PROVE CoinsInv
<1>1. /\ locked = [a \in Accounts |-> [k \in LockTypes |-> [d \in Denoms |-> 0]]]
      /\ balance = [a \in Holders |-> [d \in Denoms |-> IF a \in Accounts /\ d = Native THEN InitialBalance ELSE 0]]
      /\ supply = [d \in Denoms |-> IF d = Native THEN InitialBalance * Cardinality(Accounts) ELSE 0]
  BY Zenon DEF Init
<1>2. InitialBalance \in Nat
  BY Zenon, TokenAssumption
<1>3. Cardinality(Accounts) \in Nat
  BY Zenon, FiniteHolders, FS_CardinalityType
<1>4. InitialBalance * Cardinality(Accounts) \in Int
  BY <1>2, <1>3
<1>5. balance \in Balances /\ supply \in [Denoms -> Int] /\ locked \in Locks
  BY <1>1, <1>2, <1>4 DEF Balances, Locks
<1>6. ASSUME NEW d \in Denoms, NEW a \in Holders PROVE balance[a][d] >= 0
  BY <1>1, <1>2
<1>7. ASSUME NEW d \in Denoms PROVE balance[TokenAcc][d] = SumOf(LockedColumn(locked, d), Accounts)
  <2>1. balance[TokenAcc][d] = 0
    BY Zenon, <1>1, FiniteHolders
  <2>2. "quantity" \in LockTypes /\ "fee" \in LockTypes
    BY Zenon DEF LockTypes
  <2>3. \A a \in Accounts : LockedColumn(locked, d)[a] = 0
    BY <1>1, <2>2 DEF LockedColumn
  <2>4. SumOf(LockedColumn(locked, d), Accounts) = 0
    BY Zenon, <2>3, FiniteHolders, SumZero
  <2> QED BY Zenon, <2>1, <2>4
<1>8. ASSUME NEW d \in Denoms PROVE supply[d] = SumOf(Column(balance, d), Holders)
  <2>1. CASE d # Native
    <3>1. \A a \in Holders : Column(balance, d)[a] = 0
      BY Zenon, <1>1, <2>1 DEF Column
    <3>2. SumOf(Column(balance, d), Holders) = 0
      BY Zenon, <3>1, FiniteHolders, SumZero
    <3> QED BY Zenon, <1>1, <2>1, <3>2
  <2>2. CASE d = Native
    <3> DEFINE f == Column(balance, d)
    <3>1. \A a \in Holders : f[a] = IF a \in Accounts THEN InitialBalance ELSE 0
      BY Zenon, <1>1, <2>2 DEF Column
    <3> HIDE DEF f
    <3>2. IsFiniteSet(Holders) /\ Accounts \in SUBSET Holders /\ IsFiniteSet(Accounts)
      BY Zenon, FiniteHolders
    <3>3. \A a \in Holders : f[a] \in Int
      BY <1>2, <3>1
    <3>4. \A a \in Holders \ Accounts : f[a] = 0
      BY Zenon, <3>1
    <3>5. SumOf(f, Holders) = SumOf(f, Accounts)
      BY Zenon, <3>2, <3>3, <3>4, SumSubset
    <3>6. \A a \in Accounts : f[a] = InitialBalance
      BY Zenon, <3>1, <3>2
    <3>7. SumOf(f, Accounts) = InitialBalance * Cardinality(Accounts)
      BY <1>2, <3>2, <3>6, SumConstant
    <3>8. supply[d] = InitialBalance * Cardinality(Accounts)
      BY Zenon, <1>1, <2>2
    <3> QED BY Zenon, <3>5, <3>7, <3>8 DEF f
  <2> QED BY Zenon, <2>1, <2>2
<1> QED BY Zenon, <1>5, <1>6, <1>7, <1>8 DEF CoinsInv, Sane

\* Coins are made and destroyed with the supply, and the fee is paid.
LEMMA SupplyMessagesKeepCoins == ASSUME CoinsInv, SupplyMessages PROVE CoinsInv'
<1>1. /\ balance \in Balances /\ Symbols \subseteq Denoms /\ Amounts \subseteq Int /\ Upperbound \in Int
      /\ supply \in [Denoms -> Int]
      /\ \A a \in Accounts : a \in Holders /\ a # TokenAcc
      /\ \A a \in Holders, d \in Denoms : balance[a][d] >= 0 /\ balance[a][d] \in Int
  BY TokenAssumption, FiniteHolders DEF CoinsInv, Sane, Denoms, Balances
<1>2. ASSUME NEW a \in Accounts, NEW s \in Denoms, NEW n \in Int, n >= 0,
             supply' = [supply EXCEPT ![s] = supply[s] + n], PayFee(Add(balance, a, s, n), a), locked' = locked
      PROVE  CoinsInv'
  <2>1. balance[a][s] + n >= 0
    BY <1>1, <1>2
  <2>2. Sane(Add(balance, a, s, n), supply', locked)
    BY Zenon, <1>1, <1>2, <2>1, SaneAdd DEF CoinsInv
  <2>3. Sane(balance', supply', locked)
    BY Zenon, <1>2, <2>2, SaneFee
  <2> QED BY Zenon, <1>2, <2>3 DEF CoinsInv
<1>3. ASSUME NEW a \in Accounts, NEW s \in Symbols, NEW n \in Amounts, NEW m \in BOOLEAN,
             handleMsgTokenIssue(a, s, n, m)
      PROVE  CoinsInv'
  <2>1. /\ n > 0 /\ supply' = [supply EXCEPT ![s] = supply[s] + n]
        /\ PayFee(Add(balance, a, s, n), a) /\ locked' = locked
    BY Zenon, <1>3 DEF handleMsgTokenIssue, ValidateIssue
  <2>2. s \in Denoms /\ n \in Int /\ n >= 0
    BY <1>1, <2>1
  <2> QED BY Zenon, <1>2, <2>1, <2>2
<1>4. ASSUME NEW a \in Accounts, NEW s \in Denoms, NEW n \in Amounts, handleMsgTokenMint(a, s, n)
      PROVE  CoinsInv'
  <2>1. /\ n >= 0 /\ supply' = [supply EXCEPT ![s] = supply[s] + n]
        /\ PayFee(Add(balance, a, s, n), a) /\ locked' = locked
    BY Zenon, <1>4 DEF handleMsgTokenMint, ValidateMint
  <2>2. n \in Int
    BY Zenon, <1>1
  <2> QED BY Zenon, <1>2, <2>1, <2>2
<1>5. ASSUME NEW a \in Accounts, NEW s \in Denoms, NEW n \in Amounts, handleMsgTokenBurn(a, s, n)
      PROVE  CoinsInv'
  <2>1. /\ n >= 0 /\ CanPay(balance, a, s, n) /\ supply' = [supply EXCEPT ![s] = supply[s] - n]
        /\ PayFee(Add(balance, a, s, -n), a) /\ locked' = locked
    BY Zenon, <1>5 DEF handleMsgTokenBurn, ValidateBurn
  <2>2. n \in Int /\ -n \in Int /\ supply[s] \in Int
    BY <1>1
  <2>3. balance[a][s] + (-n) >= 0 /\ supply[s] - n = supply[s] + (-n)
    BY <1>1, <2>1, <2>2 DEF CanPay
  <2>4. supply' = [supply EXCEPT ![s] = supply[s] + (-n)]
    BY Zenon, <2>1, <2>3
  <2>5. Sane(Add(balance, a, s, -n), supply', locked)
    BY Zenon, <1>1, <2>2, <2>3, <2>4, SaneAdd DEF CoinsInv
  <2>6. Sane(balance', supply', locked)
    BY Zenon, <2>1, <2>5, SaneFee
  <2> QED BY Zenon, <2>1, <2>6 DEF CoinsInv
<1>6. ASSUME NEW a \in Accounts, PayFee(balance, a), supply' = supply, locked' = locked
      PROVE  CoinsInv'
  <2>1. Sane(balance', supply, locked)
    BY Zenon, <1>6, SaneFee DEF CoinsInv
  <2> QED BY Zenon, <1>6, <2>1 DEF CoinsInv
<1>7. CASE \E a \in Accounts, s \in Denoms, edited, malformed \in SUBSET {"wholeName", "description"} :
             handleMsgTokenModify(a, s, edited, malformed)
  <2>1. \E a \in Accounts : PayFee(balance, a) /\ supply' = supply /\ locked' = locked
    BY Zenon, <1>7 DEF handleMsgTokenModify
  <2> QED BY Zenon, <1>6, <2>1
<1> QED BY Zenon, <1>3, <1>4, <1>5, <1>7 DEF SupplyMessages

\* A change of the owner moves no coins but the fee.
LEMMA OwnerMessagesKeepCoins == ASSUME CoinsInv, OwnerMessages PROVE CoinsInv'
<1>1. ASSUME NEW a \in Accounts, NEW to \in Users \cup {BlackHole}, NEW s \in Denoms,
             handleMsgTransferOwnership(a, to, s)
      PROVE  CoinsInv'
  <2>1. PayFee(balance, a) /\ supply' = supply /\ locked' = locked
    BY Zenon, <1>1 DEF handleMsgTransferOwnership
  <2>2. Sane(balance', supply, locked)
    BY Zenon, <2>1, SaneFee DEF CoinsInv
  <2> QED BY Zenon, <2>1, <2>2 DEF CoinsInv
<1>2. ASSUME NEW a \in Accounts, NEW s \in Denoms, handleMsgConfirmOwnership(a, s)
      PROVE  CoinsInv'
  <2>1. balance' = balance /\ supply' = supply /\ locked' = locked
    BY Zenon, <1>2 DEF handleMsgConfirmOwnership, coinVars
  <2> QED BY Zenon, <2>1 DEF CoinsInv
<1> QED BY Zenon, <1>1, <1>2 DEF OwnerMessages

\* Coins go into the module account with the lock store, and out with it.
LEMMA LockCallsKeepCoins == ASSUME CoinsInv, LockCalls PROVE CoinsInv'
<1>1. /\ balance \in Balances /\ locked \in Locks /\ Amounts \subseteq Int
      /\ TokenAcc \in Holders /\ \A a \in Accounts : a \in Holders /\ a # TokenAcc
  BY Zenon, TokenAssumption, FiniteHolders DEF CoinsInv, Sane
<1>2. ASSUME NEW a \in Accounts, NEW k \in LockTypes, NEW d \in Denoms, NEW n \in Amounts, n > 0,
             LockCoins(a, k, d, n)
      PROVE  CoinsInv'
  <2>1. /\ balance[a][d] >= n /\ balance' = Move(balance, a, TokenAcc, d, n) /\ supply' = supply
        /\ locked' = UpdateLocked(locked, a, k, d, n)
    BY Zenon, <1>2 DEF LockCoins, CanPay
  <2>2. n \in Int /\ locked[a][k][d] \in Nat /\ balance[a][d] \in Int
    BY <1>1 DEF Locks, Balances
  <2>3. balance[a][d] - n >= 0 /\ locked[a][k][d] + n >= 0
    BY <1>2, <2>1, <2>2
  <2>4. Moved(balance, balance', a, TokenAcc, d, n)
    BY Zenon, <1>1, <2>1, <2>2, MoveEffect
  <2>5. Sane(balance', supply, UpdateLocked(locked, a, k, d, n))
    BY Zenon, <1>1, <2>2, <2>3, <2>4, SaneLock DEF CoinsInv
  <2> QED BY Zenon, <2>1, <2>5 DEF CoinsInv
<1>3. ASSUME NEW a \in Accounts, NEW k \in LockTypes, NEW d \in Denoms, NEW n \in Amounts, n > 0,
             UnlockCoins(a, k, d, n)
      PROVE  CoinsInv'
  <2>1. /\ locked[a][k][d] >= n /\ balance' = Move(balance, TokenAcc, a, d, n) /\ supply' = supply
        /\ locked' = UpdateLocked(locked, a, k, d, -n)
    BY Zenon, <1>3 DEF UnlockCoins
  <2>2. n \in Nat
    BY <1>1, <1>3
  <2>3. Sane(balance', supply, UpdateLocked(locked, a, k, d, -n))
    BY Zenon, <2>1, <2>2, SaneUnlock DEF CoinsInv
  <2> QED BY Zenon, <2>1, <2>3 DEF CoinsInv
<1>4. ASSUME NEW a \in Accounts, NEW b \in Accounts, NEW d \in Denoms, NEW e \in Denoms,
             NEW n \in Amounts, NEW m \in Amounts, n > 0, m > 0, BalanceAccount(a, d, n, b, e, m)
      PROVE  CoinsInv'
  <2>1. n \in Nat /\ m \in Nat
    BY <1>1, <1>4
  <2> QED BY Zenon, <1>4, <2>1, BalanceAccountKeepsCoins
<1> QED BY Zenon, <1>2, <1>3, <1>4 DEF LockCalls

\* One turn of the loop of handleMsgMultiSend, and its result after each transfer.
Sent(r, from, t) ==
  [ok  |-> r.ok /\ Receives(t.to) /\ CanPay(r.bal, from, t.denom, t.amount),
   bal |-> Move(r.bal, from, t.to, t.denom, t.amount)]
Unsent == [ok |-> TRUE, bal |-> balance]
IsSending(g, from, transfers) ==
  g = [i \in 0..Len(transfers) |-> IF i = 0 THEN Unsent ELSE Sent(g[i - 1], from, transfers[i])]

\* MultiSent is the choice of such a function, applied to the number of transfers.
LEMMA SendingChoice ==
  ASSUME NEW from, NEW transfers
  PROVE  MultiSent(from, transfers) = (CHOOSE g : IsSending(g, from, transfers))[Len(transfers)]
  BY Zenon DEF MultiSent, IsSending, Sent, Unsent

\* The result for one transfer.
LEMMA SendingOnce ==
  ASSUME NEW from, NEW t
  PROVE  MultiSent(from, <<t>>) = Sent(Unsent, from, t)
<1> DEFINE h == [i \in 0..1 |-> IF i = 0 THEN Unsent ELSE Sent(Unsent, from, t)]
           ts == <<t>>
           c == CHOOSE g : IsSending(g, from, ts)
<1>1. Len(ts) = 1 /\ ts[1] = t
  BY Zenon
<1> HIDE DEF ts
<1>2. IsSending(h, from, ts)
  <2>1. ASSUME NEW i \in 0..1 PROVE h[i] = IF i = 0 THEN Unsent ELSE Sent(h[i - 1], from, ts[i])
    <3>1. CASE i = 0
      BY Zenon, <3>1
    <3>2. CASE i = 1
      <4>1. h[i - 1] = Unsent
        BY <3>2
      <4> QED BY Zenon, <1>1, <3>2, <4>1
    <3> QED BY <3>1, <3>2
  <2>2. h = [i \in 0..1 |-> IF i = 0 THEN Unsent ELSE Sent(h[i - 1], from, ts[i])]
    BY Zenon, <2>1
  <2> QED BY Zenon, <1>1, <2>2 DEF IsSending
<1>3. IsSending(c, from, ts)
  BY Zenon, <1>2
<1> HIDE DEF c, h
<1>4. c = [i \in 0..1 |-> IF i = 0 THEN Unsent ELSE Sent(c[i - 1], from, ts[i])]
  BY Zenon, <1>1, <1>3 DEF IsSending
<1>5. c[0] = Unsent
  BY <1>4
<1>6. c[1] = Sent(c[1 - 1], from, ts[1])
  BY <1>4
<1>7. c[1] = Sent(Unsent, from, t)
  BY <1>1, <1>5, <1>6
<1>8. MultiSent(from, ts) = c[1]
  BY Zenon, <1>1, SendingChoice DEF c
<1> QED BY Zenon, <1>7, <1>8 DEF ts

\* The same for two transfers: the second is made on what the first has left.
LEMMA SendingTwice ==
  ASSUME NEW from, NEW t, NEW u
  PROVE  MultiSent(from, <<t, u>>) = Sent(Sent(Unsent, from, t), from, u)
<1> DEFINE r == Sent(Unsent, from, t)
           h == [i \in 0..2 |-> IF i = 0 THEN Unsent ELSE IF i = 1 THEN r ELSE Sent(r, from, u)]
           ts == <<t, u>>
           c == CHOOSE g : IsSending(g, from, ts)
<1>1. Len(ts) = 2 /\ ts[1] = t /\ ts[2] = u
  BY Zenon
<1> HIDE DEF ts
<1>2. IsSending(h, from, ts)
  <2>1. ASSUME NEW i \in 0..2 PROVE h[i] = IF i = 0 THEN Unsent ELSE Sent(h[i - 1], from, ts[i])
    <3>1. CASE i = 0
      BY Zenon, <3>1
    <3>2. CASE i = 1
      <4>1. h[i - 1] = Unsent
        BY <3>2
      <4> QED BY Zenon, <1>1, <3>2, <4>1
    <3>3. CASE i = 2
      <4>1. h[i - 1] = r
        BY <3>3
      <4> HIDE DEF r
      <4> QED BY <1>1, <3>3, <4>1
    <3> QED BY <3>1, <3>2, <3>3
  <2>2. h = [i \in 0..2 |-> IF i = 0 THEN Unsent ELSE Sent(h[i - 1], from, ts[i])]
    BY Zenon, <2>1
  <2> QED BY Zenon, <1>1, <2>2 DEF IsSending
<1>3. IsSending(c, from, ts)
  BY Zenon, <1>2
<1> HIDE DEF c, h
<1>4. c = [i \in 0..2 |-> IF i = 0 THEN Unsent ELSE Sent(c[i - 1], from, ts[i])]
  BY Zenon, <1>1, <1>3 DEF IsSending
<1>5. c[0] = Unsent
  BY <1>4
<1>6. c[1] = Sent(c[1 - 1], from, ts[1]) /\ c[2] = Sent(c[2 - 1], from, ts[2])
  BY <1>4
<1>7. c[1] = Sent(Unsent, from, t)
  BY <1>1, <1>5, <1>6
<1>8. c[2] = Sent(r, from, u)
  BY <1>1, <1>6, <1>7
<1>9. MultiSent(from, ts) = c[2]
  BY Zenon, <1>1, SendingChoice DEF c
<1> QED BY Zenon, <1>8, <1>9 DEF ts

\* A transfer that is made keeps the tables sane.
LEMMA SaneSent ==
  ASSUME NEW r, Sane(r.bal, supply, locked), NEW a \in Accounts, NEW t \in Transfers, t.amount > 0,
         Sent(r, a, t).ok
  PROVE  r.ok /\ Sane(Sent(r, a, t).bal, supply, locked)
<1>1. r.ok /\ Receives(t.to) /\ CanPay(r.bal, a, t.denom, t.amount)
  BY Zenon DEF Sent
<1>2. t.to \in Holders /\ t.denom \in Denoms /\ t.amount \in Nat /\ t.to # TokenAcc
  <2>1. t.to \in Holders /\ t.denom \in Denoms /\ t.amount \in Amounts
    BY Zenon DEF Transfers
  <2>2. Amounts \subseteq Int
    BY Zenon, TokenAssumption
  <2>3. t.to # TokenAcc
    BY <1>1, Zenon DEF Receives
  <2>4. t.amount \in Int
    BY <2>1, <2>2, Zenon
  <2>5. \A n \in Int : n > 0 => n \in Nat
    OBVIOUS
  <2>6. t.amount \in Nat
    BY <2>4, <2>5, Zenon
  <2> QED BY <2>1, <2>3, <2>6, Zenon
<1>3. a \in Holders /\ a # TokenAcc
  BY Zenon, FiniteHolders
<1>4. Sent(r, a, t).bal = Move(r.bal, a, t.to, t.denom, t.amount)
  BY Zenon DEF Sent
<1>5. Sane(Move(r.bal, a, t.to, t.denom, t.amount), supply, locked)
  BY Zenon, <1>1, <1>2, <1>3, SaneMove
<1> QED BY Zenon, <1>1, <1>4, <1>5

\* No transfer of a MultiSend can overdraw the sender or pay into the module account.
LEMMA SendMessagesKeepCoins == ASSUME CoinsInv, SendMessages PROVE CoinsInv'
<1>0. Sane(Unsent.bal, supply, locked)
  BY Zenon DEF CoinsInv, Unsent
<1>1. ASSUME NEW a \in Accounts, NEW t \in Transfers, handleMsgMultiSend(a, <<t>>)
      PROVE  CoinsInv'
  <2>1. ValidateMultiSend(<<t>>) /\ MultiSent(a, <<t>>).ok /\ balance' = MultiSent(a, <<t>>).bal
        /\ supply' = supply /\ locked' = locked
    BY Zenon, <1>1 DEF handleMsgMultiSend
  <2>2. t.amount > 0
    BY <2>1 DEF ValidateMultiSend
  <2>3. Sent(Unsent, a, t).ok /\ balance' = Sent(Unsent, a, t).bal
    BY Zenon, <2>1, SendingOnce
  <2>4. Sane(balance', supply, locked)
    BY Zenon, <1>0, <2>2, <2>3, SaneSent
  <2> QED BY Zenon, <2>1, <2>4 DEF CoinsInv
<1>2. ASSUME NEW a \in Accounts, NEW t \in Transfers, NEW u \in Transfers, handleMsgMultiSend(a, <<t, u>>)
      PROVE  CoinsInv'
  <2> DEFINE r == Sent(Unsent, a, t)
  <2>1. ValidateMultiSend(<<t, u>>) /\ MultiSent(a, <<t, u>>).ok /\ balance' = MultiSent(a, <<t, u>>).bal
        /\ supply' = supply /\ locked' = locked
    BY Zenon, <1>2 DEF handleMsgMultiSend
  <2>2. t.amount > 0 /\ u.amount > 0
    BY <2>1 DEF ValidateMultiSend
  <2>3. Sent(r, a, u).ok /\ balance' = Sent(r, a, u).bal
    BY <2>1, SendingTwice
  <2>4. r.ok
    BY Zenon, <2>3 DEF Sent
  <2>5. Sane(r.bal, supply, locked)
    BY Zenon, <1>0, <2>2, <2>4, SaneSent
  <2> HIDE DEF r
  <2>6. Sane(balance', supply, locked)
    BY Zenon, <2>2, <2>3, <2>5, SaneSent
  <2> QED BY Zenon, <2>1, <2>6 DEF CoinsInv
<1> QED BY Zenon, <1>1, <1>2 DEF SendMessages

\* Exporting and importing a kind of locked coins gives every account its own back.
LEMMA RelockedSame ==
  ASSUME locked \in Locks, NEW a \in Accounts, NEW k \in LockTypes
  PROVE  Relocked(LockedOf(k), a) = locked[a][k]
<1> DEFINE lines == {l \in LockedOf(k) : l.acc = a}
           own == [acc |-> a, coins |-> locked[a][k]]
<1>1. locked[a][k] \in [Denoms -> Nat]
  BY Zenon DEF Locks
<1>2. ASSUME NEW d \in Denoms PROVE SumOf([l \in lines |-> l.coins[d]], lines) = locked[a][k][d]
  <2>1. CASE locked[a][k] = NoCoins
    <3>1. lines = {}
      BY <2>1 DEF LockedOf
    <3>2. SumOf([l \in lines |-> l.coins[d]], {}) = 0
      BY Zenon, SumEmpty
    <3>3. locked[a][k][d] = 0
      BY Zenon, <2>1 DEF NoCoins
    <3> QED BY Zenon, <3>1, <3>2, <3>3
  <2>2. CASE locked[a][k] # NoCoins
    <3>1. lines = {own}
      BY <2>2 DEF LockedOf
    <3> DEFINE f == [l \in lines |-> l.coins[d]]
    <3>2. own \in lines
      BY Zenon, <3>1
    <3>3. f[own] = locked[a][k][d]
      BY Zenon, <3>2
    <3>4. f[own] \in Int
      BY <1>1, <3>3
    <3> HIDE DEF f, own, lines
    <3>5. SumOf(f, {own}) = f[own]
      BY Zenon, <3>4, SumSingle
    <3>6. SumOf(f, lines) = locked[a][k][d]
      BY Zenon, <3>1, <3>3, <3>5
    <3> QED BY Zenon, <3>6 DEF f
  <2> QED BY Zenon, <2>1, <2>2
<1>3. Relocked(LockedOf(k), a) = [d \in Denoms |-> SumOf([l \in lines |-> l.coins[d]], lines)]
  BY Zenon DEF Relocked
<1> HIDE DEF lines
<1> QED BY Zenon, <1>1, <1>2, <1>3

\* A new genesis, a later block and new parameters move no coins.
LEMMA ChainStepsKeepCoins == ASSUME CoinsInv, ChainSteps PROVE CoinsInv'
<1>1. CASE ExportAndInit
  <2>1. locked \in Locks
    BY Zenon DEF CoinsInv, Sane
  <2>2. \A k \in LockTypes :
          (IF k = "quantity" THEN GetAllLockedCoins ELSE IterateLockedFees) = LockedOf(k)
    BY Zenon DEF LockTypes, GetAllLockedCoins, IterateLockedFees
  <2>3. locked' = [a \in Accounts |-> [k \in LockTypes |->
          Relocked(IF k = "quantity" THEN GetAllLockedCoins ELSE IterateLockedFees, a)]]
    BY Zenon, <1>1 DEF ExportAndInit
  <2>4. ASSUME NEW a \in Accounts, NEW k \in LockTypes PROVE locked'[a][k] = locked[a][k]
    <3>1. locked'[a][k] = Relocked(IF k = "quantity" THEN GetAllLockedCoins ELSE IterateLockedFees, a)
      BY Zenon, <2>3
    <3>2. locked'[a][k] = Relocked(LockedOf(k), a)
      BY Zenon, <2>2, <3>1
    <3> QED BY Zenon, <2>1, <3>2, RelockedSame
  <2>5. ASSUME NEW a \in Accounts PROVE locked'[a] = locked[a]
    <3>1. locked'[a] = [k \in LockTypes |-> locked'[a][k]]
      BY Zenon, <2>3
    <3>2. locked[a] = [k \in LockTypes |-> locked[a][k]]
      BY Zenon, <2>1 DEF Locks
    <3> QED BY Zenon, <2>4, <3>1, <3>2
  <2>6. locked' = [a \in Accounts |-> locked'[a]] /\ locked = [a \in Accounts |-> locked[a]]
    BY Zenon, <2>1, <2>3 DEF Locks
  <2>7. locked' = locked
    BY Zenon, <2>5, <2>6
  <2>8. balance' = balance /\ supply' = supply
    BY Zenon, <1>1 DEF ExportAndInit
  <2> QED BY Zenon, <2>7, <2>8 DEF CoinsInv
<1>2. CASE UNCHANGED coinVars
  BY Zenon, <1>2 DEF CoinsInv, coinVars
<1> QED BY Zenon, <1>1, <1>2 DEF ChainSteps, Tick, ChangeParams

\* Every message, call and step of the chain keeps the coins in order.
LEMMA NextCoins == CoinsInv /\ [Next]_vars => CoinsInv'
<1> SUFFICES ASSUME CoinsInv, [Next]_vars PROVE CoinsInv'
  BY Zenon
<1>1. CASE UNCHANGED vars
  BY Zenon, <1>1 DEF vars, coinVars, CoinsInv
<1> QED
  BY Zenon, <1>1, SupplyMessagesKeepCoins, SendMessagesKeepCoins, OwnerMessagesKeepCoins, LockCallsKeepCoins,
     ChainStepsKeepCoins DEF Next

\* The supply of every token is what the accounts have of it, no account is overdrawn, and the
\* module account has exactly the locked coins, for any accounts, tokens, amounts and fees
\* (handlers of the token module, LockCoins, UnlockCoins, BalanceAccount, ExportGenesis).
THEOREM CoinsCorrect == Spec => []CoinsExact
<1>1. Init => CoinsInv
  BY Zenon, InitCoins
<1>2. CoinsInv => CoinsExact
  BY Zenon DEF CoinsInv, Sane, CoinsExact, Column, LockedColumn
<1> QED BY <1>1, <1>2, NextCoins, PTL DEF Spec

----------------------------------------------------------------------------
(* Owners *)

Owners == Users \cup {BlackHole}

\* The types of the records that the argument is about.
OwnTypes ==
  /\ token \in [Denoms -> [exists : BOOLEAN, owner : Owners, mintable : BOOLEAN]]
  /\ confirm \in [Denoms -> [found : BOOLEAN, address : Owners, expire : Nat]]
  /\ offeredBy \in [Denoms -> Owners]
  /\ window \in Nat /\ now \in Nat

\* An offer that can still be confirmed was made by the present owner.
OfferStands ==
  \A s \in Denoms : Pending(s) =>
    token[s].exists /\ token[s].owner \in Accounts /\ offeredBy[s] = token[s].owner

OwnInv == OwnTypes /\ OwnerIndexExact /\ OfferStands

\* The genesis of the chain, with one token and no offers, satisfies the invariant.
LEMMA InitOwnInv == Init => OwnInv
<1> SUFFICES ASSUME Init PROVE OwnInv
    BY Zenon
<1> USE TokenAssumption
<1>1. PICK a \in Accounts :
        /\ token = [s \in Denoms |-> IF s = Native THEN [exists |-> TRUE, owner |-> a, mintable |-> TRUE] ELSE NoToken]
        /\ userTokens = {<<a, Native>>}
    BY Zenon DEF Init
<1>2. OwnTypes
    BY Zenon, <1>1 DEF Init, OwnTypes, NoToken, NoOffer, Owners, Users, Denoms
<1>3. OwnerIndexExact
    BY Zenon, <1>1 DEF OwnerIndexExact, GetTokensInfo, NoToken, Denoms
<1>4. OfferStands
    BY Zenon DEF Init, OfferStands, Pending, NoOffer
<1> QED
    BY Zenon, <1>2, <1>3, <1>4 DEF OwnInv

\* A step that leaves the token store alone and lets time pass keeps the invariant.
LEMMA TokensUntouched ==
  ASSUME OwnInv, UNCHANGED tokenVars, now' \in Nat, now' >= now, window' \in Nat
  PROVE  OwnInv'
<1>1. OwnTypes'
    BY Zenon DEF OwnInv, OwnTypes, tokenVars
<1>2. OwnerIndexExact'
    BY Zenon DEF OwnInv, OwnerIndexExact, GetTokensInfo, tokenVars
<1>3. OfferStands'
  <2> SUFFICES ASSUME NEW s \in Denoms, Pending(s)' PROVE Pending(s)
      BY Zenon DEF OwnInv, OfferStands, tokenVars
  <2>1. confirm[s].expire \in Nat
      BY Zenon DEF OwnInv, OwnTypes
  <2> QED
      BY <2>1 DEF Pending, tokenVars, OwnInv, OwnTypes
<1> QED
    BY Zenon, <1>1, <1>2, <1>3 DEF OwnInv

\* NewToken for a symbol that is not taken keeps the keys under the owners exact.
LEMMA IssueKeepsInv ==
  ASSUME OwnInv, NEW a \in Accounts, NEW s \in Symbols, NEW n \in Amounts, NEW m \in BOOLEAN,
         handleMsgTokenIssue(a, s, n, m)
  PROVE  OwnInv'
<1> DEFINE t == [exists |-> TRUE, owner |-> a, mintable |-> m]
<1>1. /\ ~token[s].exists /\ token' = [token EXCEPT ![s] = t]
      /\ userTokens' = userTokens \cup {<<a, s>>}
      /\ UNCHANGED <<confirm, offeredBy, window, now>>
    BY Zenon DEF handleMsgTokenIssue, addTokenSuffix, NewToken, envVars
<1>2. s \in Denoms
    BY Zenon DEF Denoms
<1>3. OwnTypes'
  <2>1. t \in [exists : BOOLEAN, owner : Owners, mintable : BOOLEAN]
      BY Zenon DEF Owners, Users
  <2> QED
      BY Zenon, <1>1, <2>1 DEF OwnInv, OwnTypes
<1>4. /\ token'[s] = t
      /\ \A d \in Denoms : d # s => token'[d] = token[d]
    BY Zenon, <1>1, <1>2 DEF OwnInv, OwnTypes
<1>5. OwnerIndexExact'
  <2>1. userTokens = {<<token[d].owner, d>> : d \in {e \in Denoms : token[e].exists}}
      BY Zenon DEF OwnInv, OwnerIndexExact, GetTokensInfo
  <2>2. ASSUME NEW p \in userTokens'
        PROVE  p \in {<<token'[d].owner, d>> : d \in {e \in Denoms : token'[e].exists}}
    <3>1. CASE p = <<a, s>>
        BY <3>1, <1>2, <1>4
    <3>2. CASE p \in userTokens
      <4>1. PICK d \in Denoms : token[d].exists /\ p = <<token[d].owner, d>>
          BY Zenon, <3>2, <2>1
      <4> QED
          BY Zenon, <4>1, <1>1, <1>4
    <3> QED
        BY Zenon, <1>1, <2>2, <3>1, <3>2
  <2>3. ASSUME NEW d \in Denoms, token'[d].exists
        PROVE  <<token'[d].owner, d>> \in userTokens'
    <3>1. CASE d = s
        BY <3>1, <1>1, <1>4
    <3>2. CASE d # s
        BY <3>2, <2>1, <2>3, <1>1, <1>4
    <3> QED
        BY Zenon, <3>1, <3>2
  <2> QED
      BY Zenon, <2>2, <2>3 DEF OwnerIndexExact, GetTokensInfo
<1>6. OfferStands'
  <2> SUFFICES ASSUME NEW d \in Denoms, Pending(d)'
               PROVE  token'[d].exists /\ token'[d].owner \in Accounts /\ offeredBy'[d] = token'[d].owner
      BY Zenon DEF OfferStands
  <2>1. Pending(d)
      BY Zenon, <1>1 DEF Pending
  <2>2. token[d].exists /\ token[d].owner \in Accounts /\ offeredBy[d] = token[d].owner
      BY Zenon, <2>1 DEF OwnInv, OfferStands
  <2>3. d # s
      BY Zenon, <1>1, <2>2
  <2> QED
      BY Zenon, <1>1, <1>4, <2>2, <2>3
<1> QED
    BY Zenon, <1>3, <1>5, <1>6 DEF OwnInv

\* ChangeOwner moves the key with the owner.
LEMMA ChangeOwnerKeepsIndex ==
  ASSUME OwnInv, NEW s \in Denoms, NEW a \in Owners, token[s].exists, ChangeOwner(s, a)
  PROVE  /\ OwnerIndexExact'
         /\ token' \in [Denoms -> [exists : BOOLEAN, owner : Owners, mintable : BOOLEAN]]
         /\ token'[s].owner = a /\ token'[s].exists
         /\ \A d \in Denoms : d # s => token'[d] = token[d]
<1>1. /\ token' = [token EXCEPT ![s].owner = a]
      /\ userTokens' = (userTokens \ {<<token[s].owner, s>>}) \cup {<<a, s>>}
    BY Zenon DEF ChangeOwner
<1>2. token' \in [Denoms -> [exists : BOOLEAN, owner : Owners, mintable : BOOLEAN]]
    BY Zenon, <1>1 DEF OwnInv, OwnTypes
<1>3. /\ token'[s].owner = a /\ token'[s].exists
      /\ \A d \in Denoms : d # s => token'[d] = token[d]
    BY Zenon, <1>1 DEF OwnInv, OwnTypes
<1>4. OwnerIndexExact'
  <2> SUFFICES userTokens' = {<<token'[d].owner, d>> : d \in {e \in Denoms : token'[e].exists}}
      BY Zenon DEF OwnerIndexExact, GetTokensInfo
  <2>1. userTokens = {<<token[d].owner, d>> : d \in {e \in Denoms : token[e].exists}}
      BY Zenon DEF OwnInv, OwnerIndexExact, GetTokensInfo
  <2>2. \A d \in Denoms : token'[d].exists <=> token[d].exists
      BY Zenon, <1>3, token[s].exists
  <2>3. ASSUME NEW p \in userTokens'
        PROVE  p \in {<<token'[d].owner, d>> : d \in {e \in Denoms : token'[e].exists}}
    <3>1. CASE p = <<a, s>>
        BY Zenon, <3>1, <1>3
    <3>2. CASE p \in userTokens /\ p # <<token[s].owner, s>>
      <4>1. PICK d \in Denoms : token[d].exists /\ p = <<token[d].owner, d>>
          BY Zenon, <3>2, <2>1
      <4>2. d # s
          BY Zenon, <3>2, <4>1
      <4> QED
          BY Zenon, <4>1, <4>2, <1>3, <2>2
    <3> QED
        BY Zenon, <1>1, <2>3, <3>1, <3>2
  <2>4. ASSUME NEW d \in Denoms, token'[d].exists
        PROVE  <<token'[d].owner, d>> \in userTokens'
    <3>1. CASE d = s
        BY <3>1, <1>1, <1>3
    <3>2. CASE d # s
      <4>1. <<token[d].owner, d>> \in userTokens
          BY Zenon, <2>1, <2>2, <2>4
      <4>2. <<token[d].owner, d>> # <<token[s].owner, s>>
          BY Zenon, <3>2
      <4> QED
          BY <4>1, <4>2, <3>2, <1>1, <1>3
    <3> QED
        BY Zenon, <3>1, <3>2
  <2> QED
      BY Zenon, <2>3, <2>4
<1> QED
    BY Zenon, <1>2, <1>3, <1>4

\* An offer, or a token given up: no pending offer is left behind by another owner.
LEMMA TransferKeepsInv ==
  ASSUME OwnInv, NEW a \in Accounts, NEW to \in Owners, NEW s \in Denoms,
         handleMsgTransferOwnership(a, to, s)
  PROVE  OwnInv'
<1> USE TokenAssumption
<1>1. token[s].exists /\ token[s].owner = a /\ ~Pending(s) /\ UNCHANGED <<window, now>>
    BY Zenon DEF handleMsgTransferOwnership, MayOffer, Owns, envVars
<1>2. CASE ChangeOwner(s, to) /\ UNCHANGED <<confirm, offeredBy>>
  <2>1. /\ OwnerIndexExact'
        /\ token' \in [Denoms -> [exists : BOOLEAN, owner : Owners, mintable : BOOLEAN]]
        /\ \A d \in Denoms : d # s => token'[d] = token[d]
      BY Zenon, <1>1, <1>2, ChangeOwnerKeepsIndex
  <2>2. OwnTypes'
      BY Zenon, <1>1, <1>2, <2>1 DEF OwnInv, OwnTypes
  <2>3. OfferStands'
    <3> SUFFICES ASSUME NEW d \in Denoms, Pending(d)'
                 PROVE  token'[d].exists /\ token'[d].owner \in Accounts /\ offeredBy'[d] = token'[d].owner
        BY Zenon DEF OfferStands
    <3>1. Pending(d)
        BY Zenon, <1>1, <1>2 DEF Pending
    <3>2. d # s
        BY Zenon, <1>1, <3>1
    <3> QED
        BY Zenon, <1>2, <2>1, <3>1, <3>2 DEF OwnInv, OfferStands
  <2> QED
      BY Zenon, <2>1, <2>2, <2>3 DEF OwnInv
<1>3. CASE /\ confirm' = [confirm EXCEPT ![s] = [found |-> TRUE, address |-> to, expire |-> now + window]]
           /\ offeredBy' = [offeredBy EXCEPT ![s] = a]
           /\ UNCHANGED <<token, userTokens>>
  <2>1. OwnTypes'
    <3>1. [found |-> TRUE, address |-> to, expire |-> now + window] \in [found : BOOLEAN, address : Owners, expire : Nat]
        BY DEF OwnInv, OwnTypes
    <3>2. a \in Owners
        BY Zenon DEF Owners, Users
    <3> QED
        BY Zenon, <1>1, <1>3, <3>1, <3>2 DEF OwnInv, OwnTypes
  <2>2. OwnerIndexExact'
      BY Zenon, <1>3 DEF OwnInv, OwnerIndexExact, GetTokensInfo
  <2>3. OfferStands'
    <3> SUFFICES ASSUME NEW d \in Denoms, Pending(d)'
                 PROVE  token[d].exists /\ token[d].owner \in Accounts /\ offeredBy'[d] = token[d].owner
        BY Zenon, <1>3 DEF OfferStands
    <3>1. CASE d = s
        BY Zenon, <1>1, <1>3, <3>1 DEF OwnInv, OwnTypes
    <3>2. CASE d # s
      <4>1. confirm'[d] = confirm[d] /\ offeredBy'[d] = offeredBy[d]
          BY Zenon, <1>3, <3>2 DEF OwnInv, OwnTypes
      <4>2. Pending(d)
          BY Zenon, <1>1, <4>1 DEF Pending
      <4> QED
          BY Zenon, <4>1, <4>2 DEF OwnInv, OfferStands
    <3> QED
        BY Zenon, <3>1, <3>2
  <2> QED
      BY Zenon, <2>1, <2>2, <2>3 DEF OwnInv
<1> QED
    BY Zenon, <1>2, <1>3 DEF handleMsgTransferOwnership

\* A confirmation uses the offer up.
LEMMA ConfirmKeepsInv ==
  ASSUME OwnInv, NEW a \in Accounts, NEW s \in Denoms, handleMsgConfirmOwnership(a, s)
  PROVE  OwnInv'
<1>1. /\ Pending(s) /\ ChangeOwner(s, a) /\ confirm' = [confirm EXCEPT ![s] = NoOffer]
      /\ UNCHANGED <<offeredBy, window, now>>
    BY Zenon DEF handleMsgConfirmOwnership, MayConfirm, envVars
<1>2. token[s].exists /\ a \in Owners
    BY Zenon, <1>1 DEF OwnInv, OfferStands, Owners, Users
<1>3. /\ OwnerIndexExact'
      /\ token' \in [Denoms -> [exists : BOOLEAN, owner : Owners, mintable : BOOLEAN]]
      /\ \A d \in Denoms : d # s => token'[d] = token[d]
    BY Zenon, <1>1, <1>2, ChangeOwnerKeepsIndex
<1>4. OwnTypes'
  <2>1. NoOffer \in [found : BOOLEAN, address : Owners, expire : Nat]
      BY Zenon DEF NoOffer, Owners
  <2> QED
      BY Zenon, <1>1, <1>3, <2>1 DEF OwnInv, OwnTypes
<1>5. OfferStands'
  <2> SUFFICES ASSUME NEW d \in Denoms, Pending(d)'
               PROVE  token'[d].exists /\ token'[d].owner \in Accounts /\ offeredBy'[d] = token'[d].owner
      BY Zenon DEF OfferStands
  <2>1. d # s
      BY Zenon, <1>1 DEF Pending, NoOffer, OwnInv, OwnTypes
  <2>2. confirm'[d] = confirm[d]
      BY Zenon, <1>1, <2>1 DEF OwnInv, OwnTypes
  <2>3. Pending(d)
      BY Zenon, <1>1, <2>2 DEF Pending
  <2> QED
      BY Zenon, <1>1, <1>3, <2>1, <2>3 DEF OwnInv, OfferStands
<1> QED
    BY Zenon, <1>3, <1>4, <1>5 DEF OwnInv

\* A new genesis builds the keys anew and forgets the offers.
LEMMA ExportKeepsInv ==
  ASSUME OwnInv, ExportAndInit
  PROVE  OwnInv'
<1>1. NoOffer \in [found : BOOLEAN, address : Owners, expire : Nat]
    BY Zenon DEF NoOffer, Owners
<1>2. OwnTypes'
    BY Zenon, <1>1 DEF ExportAndInit, OwnInv, OwnTypes, envVars
<1>3. OwnerIndexExact'
    BY Zenon DEF ExportAndInit, OwnerIndexExact, GetTokensInfo
<1>4. OfferStands'
    BY Zenon DEF ExportAndInit, OfferStands, Pending, NoOffer
<1> QED
    BY Zenon, <1>2, <1>3, <1>4 DEF OwnInv

\* Every message, call and step of the chain keeps the invariant.
LEMMA NextOwnInv == OwnInv /\ [Next]_vars => OwnInv'
<1> SUFFICES ASSUME OwnInv, [Next]_vars PROVE OwnInv'
    BY Zenon
<1> USE TokenAssumption
<1>0. now \in Nat /\ window \in Nat
    BY Zenon DEF OwnInv, OwnTypes
<1>1. CASE SupplyMessages
  <2>1. CASE \E a \in Accounts, s \in Symbols, n \in Amounts, m \in BOOLEAN : handleMsgTokenIssue(a, s, n, m)
      BY Zenon, <2>1, IssueKeepsInv
  <2>2. CASE UNCHANGED <<tokenVars, envVars>>
      BY <2>2, <1>0, TokensUntouched DEF envVars
  <2> QED
      BY Zenon, <1>1, <2>1, <2>2 DEF SupplyMessages, handleMsgTokenBurn, handleMsgTokenMint, handleMsgTokenModify
<1>2. CASE SendMessages
  <2>1. UNCHANGED <<tokenVars, envVars>>
      BY Zenon, <1>2 DEF SendMessages, handleMsgMultiSend
  <2> QED
      BY <2>1, <1>0, TokensUntouched DEF envVars
<1>3. CASE OwnerMessages
    BY Zenon, <1>3, TransferKeepsInv, ConfirmKeepsInv DEF OwnerMessages, Owners
<1>4. CASE LockCalls
  <2>1. UNCHANGED <<tokenVars, envVars>>
      BY <1>4 DEF LockCalls, LockCoins, UnlockCoins, BalanceAccount
  <2> QED
      BY <2>1, <1>0, TokensUntouched DEF envVars
<1>5. CASE ChainSteps
  <2>1. CASE ExportAndInit
      BY Zenon, <2>1, ExportKeepsInv
  <2>2. CASE Tick
      BY <2>2, <1>0, TokensUntouched DEF Tick
  <2>3. CASE \E w \in Windows, enabled \in BOOLEAN : ChangeParams(w, enabled)
      BY <2>3, <1>0, TokensUntouched DEF ChangeParams
  <2> QED
      BY Zenon, <1>5, <2>1, <2>2, <2>3 DEF ChainSteps
<1>6. CASE UNCHANGED vars
    BY <1>6, <1>0, TokensUntouched DEF vars, envVars
<1> QED
    BY Zenon, <1>1, <1>2, <1>3, <1>4, <1>5, <1>6 DEF Next

\* The invariant holds in every state.
LEMMA OwnInvariant == Spec => []OwnInv
    BY InitOwnInv, NextOwnInv, PTL DEF Spec

\* The keys under the owners, which GetUserTokensInfo reads, are always exactly the owners
\* in the token records (NewToken, DeleteUserToken, initGenesis).
THEOREM OwnerIndexCorrect == Spec => []OwnerIndexExact
<1>1. OwnInv => OwnerIndexExact
    BY Zenon DEF OwnInv
<1> QED
    BY <1>1, OwnInvariant, PTL

\* Which steps change an owner, and to whom.
LEMMA OwnerChanges ==
  ASSUME OwnInv, [Next]_vars, NEW s \in Denoms, token[s].exists, token'[s].owner # token[s].owner
  PROVE  \/ token'[s].owner = BlackHole /\ token[s].owner \in Accounts
         \/ /\ Pending(s) /\ token'[s].owner = confirm[s].address
            /\ offeredBy[s] = token[s].owner /\ token[s].owner \in Accounts
<1>1. token \in [Denoms -> [exists : BOOLEAN, owner : Owners, mintable : BOOLEAN]]
    BY Zenon DEF OwnInv, OwnTypes
<1>2. token' # token
    BY Zenon
<1>3. ASSUME NEW a \in Accounts, NEW d \in Symbols, NEW n \in Amounts, NEW m \in BOOLEAN,
             handleMsgTokenIssue(a, d, n, m)
      PROVE  FALSE
  <2>1. d # s /\ d \in Denoms
      BY Zenon, <1>3 DEF handleMsgTokenIssue, addTokenSuffix, Denoms
  <2> QED
      BY Zenon, <1>1, <1>3, <2>1 DEF handleMsgTokenIssue, NewToken
<1>4. ASSUME NEW a \in Accounts, NEW to \in Owners, NEW d \in Denoms, handleMsgTransferOwnership(a, to, d)
      PROVE  token'[s].owner = BlackHole /\ token[s].owner \in Accounts
  <2>1. to = BlackHole /\ ChangeOwner(d, to) /\ token[d].owner = a
      BY Zenon, <1>2, <1>4 DEF handleMsgTransferOwnership, MayOffer, Owns
  <2>2. d = s
      BY Zenon, <1>1, <2>1 DEF ChangeOwner
  <2> QED
      BY Zenon, <1>1, <2>1, <2>2 DEF ChangeOwner
<1>5. ASSUME NEW a \in Accounts, NEW d \in Denoms, handleMsgConfirmOwnership(a, d)
      PROVE  /\ Pending(s) /\ token'[s].owner = confirm[s].address
             /\ offeredBy[s] = token[s].owner /\ token[s].owner \in Accounts
  <2>1. Pending(d) /\ confirm[d].address = a /\ ChangeOwner(d, a)
      BY Zenon, <1>5 DEF handleMsgConfirmOwnership, MayConfirm
  <2>2. d = s
      BY Zenon, <1>1, <2>1 DEF ChangeOwner
  <2> QED
      BY Zenon, <1>1, <2>1, <2>2 DEF ChangeOwner, OwnInv, OfferStands
<1>6. \/ \E a \in Accounts, d \in Symbols, n \in Amounts, m \in BOOLEAN : handleMsgTokenIssue(a, d, n, m)
      \/ \E a \in Accounts, to \in Owners, d \in Denoms : handleMsgTransferOwnership(a, to, d)
      \/ \E a \in Accounts, d \in Denoms : handleMsgConfirmOwnership(a, d)
  <2>1. CASE SupplyMessages
      BY Zenon, <1>2, <2>1 DEF SupplyMessages, handleMsgTokenBurn, handleMsgTokenMint, handleMsgTokenModify, tokenVars
  <2>2. CASE SendMessages
      BY Zenon, <1>2, <2>2 DEF SendMessages, handleMsgMultiSend, tokenVars
  <2>3. CASE OwnerMessages
      BY Zenon, <2>3 DEF OwnerMessages, Owners
  <2>4. CASE LockCalls
      BY <1>2, <2>4 DEF LockCalls, LockCoins, UnlockCoins, BalanceAccount, tokenVars
  <2>5. CASE ChainSteps
      BY Zenon, <1>2, <2>5 DEF ChainSteps, ExportAndInit, Tick, ChangeParams, tokenVars
  <2>6. CASE UNCHANGED vars
      BY Zenon, <1>2, <2>6 DEF vars, tokenVars
  <2> QED
      BY Zenon, <2>1, <2>2, <2>3, <2>4, <2>5, <2>6 DEF Next
<1> QED
    BY Zenon, <1>3, <1>4, <1>5, <1>6

\* A token changes hands only by an offer of its owner that stands, or by being given up
\* (handleMsgTransferOwnership, handleMsgConfirmOwnership).
THEOREM OwnershipIsByConsent == Spec => OwnershipByConsent
<1>1. OwnInv /\ [Next]_vars =>
        [\A s \in Denoms : token[s].exists /\ token'[s].owner # token[s].owner =>
           \/ token'[s].owner = BlackHole
           \/ /\ Pending(s) /\ token'[s].owner = confirm[s].address
              /\ offeredBy[s] = token[s].owner]_vars
    BY Zenon, OwnerChanges
<1> QED
    BY <1>1, OwnInvariant, PTL DEF Spec, OwnershipByConsent

\* A token of the black hole stays there, whatever offers are still in the store.
THEOREM RenouncedForever == Spec => Renounced
<1>1. OwnInv /\ [Next]_vars =>
        [\A s \in Denoms : token[s].exists /\ token[s].owner = BlackHole => token'[s].owner = BlackHole]_vars
  <2>1. BlackHole \notin Accounts
      BY Zenon, TokenAssumption DEF Users
  <2> QED
      BY Zenon, <2>1, OwnerChanges
<1> QED
    BY <1>1, OwnInvariant, PTL DEF Spec, Renounced
=============================================================================
