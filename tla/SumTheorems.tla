---------------------------- MODULE SumTheorems ----------------------------
(***************************************************************************)
(* What sums over finite sets are, whatever order the fold takes.  The     *)
(* definition of SumOf is a recursive function over the subsets of the     *)
(* set; induction is by a minimal subset, from the well-foundedness of the *)
(* strict subset ordering, with the set of the subsets for which a claim   *)
(* holds in the place of a predicate.                                      *)
(***************************************************************************)
EXTENDS Integers, FiniteSets, Sums, FiniteSetTheorems, WellFoundedInduction, TLAPS

\* The element a fold takes first.
Pick(s) == CHOOSE x \in s : TRUE

\* The recursive function over the subsets of S that adds f up.
IsIter(g, f, S) == g = [s \in SUBSET S |-> IF s = {} THEN 0 ELSE f[Pick(s)] + g[s \ {Pick(s)}]]

\* SumOf is the choice of such a function, applied to the whole set.
LEMMA SumChoice == ASSUME NEW f, NEW S PROVE SumOf(f, S) = (CHOOSE g : IsIter(g, f, S))[S]
  BY DEF SumOf, MapThenSumSet, MapThenFoldSet, IsIter, Pick

\* A set of subsets of a finite set has a minimal one.
LEMMA Minimal ==
  ASSUME NEW S, IsFiniteSet(S), NEW T, T \subseteq SUBSET S, T # {}
  PROVE \E x \in T : \A y \in T : y \subseteq x => y = x
  <1>1. IsWellFoundedOn(StrictSubsetOrdering(S), FiniteSubsetsOf(S))
    BY FS_StrictSubsetOrderingWellFounded
  <1>2. FiniteSubsetsOf(S) = SUBSET S
    BY FS_FiniteSubsetsOfFinite
  <1>3. PICK x \in T : \A y \in T : ~ (<<y, x>> \in StrictSubsetOrdering(S))
    BY <1>1, <1>2, WFMin
  <1>4. QED
    BY <1>3 DEF StrictSubsetOrdering

\* Two iterations agree where both are defined.
LEMMA IterUnique ==
  ASSUME NEW f, NEW S, IsFiniteSet(S), NEW T \in SUBSET S, NEW g, NEW h, IsIter(g, f, S), IsIter(h, f, T)
  PROVE  \A t \in SUBSET T : g[t] = h[t]
  <1> DEFINE bad == {t \in SUBSET T : g[t] # h[t]}
  <1> SUFFICES ASSUME bad # {} PROVE FALSE
    OBVIOUS
  <1>1. IsFiniteSet(T)
    BY FS_Subset
  <1>2. PICK t \in bad : \A y \in bad : y \subseteq t => y = t
    <2> HIDE DEF bad
    <2>1. bad \subseteq SUBSET T
      BY DEF bad
    <2> QED
      BY <1>1, <2>1, Minimal
  <1>3. t # {}
    BY DEF IsIter
  <1>4. Pick(t) \in t
    BY <1>3 DEF Pick
  <1>5. g[t \ {Pick(t)}] = h[t \ {Pick(t)}]
    BY <1>2, <1>4
  <1>6. g[t] = f[Pick(t)] + g[t \ {Pick(t)}] /\ h[t] = f[Pick(t)] + h[t \ {Pick(t)}]
    <2>1. t \in SUBSET S /\ t \in SUBSET T
      OBVIOUS
    <2> HIDE DEF bad
    <2> QED BY <1>3, <2>1 DEF IsIter
  <1> QED
    BY <1>5, <1>6

\* There is one, by a minimal subset that has none.
LEMMA IterExists ==
  ASSUME NEW f, NEW S, IsFiniteSet(S)
  PROVE  \E g : IsIter(g, f, S)
  <1> DEFINE G(t) == CHOOSE g : IsIter(g, f, t)
             bad == {t \in SUBSET S : ~ \E g : IsIter(g, f, t)}
  <1> SUFFICES ASSUME bad # {} PROVE FALSE
    OBVIOUS
  <1>1. PICK s \in bad : \A y \in bad : y \subseteq s => y = s
    <2> HIDE DEF bad
    <2>1. bad \subseteq SUBSET S
      BY DEF bad
    <2> QED
      BY <2>1, Minimal
  <1>2. ASSUME NEW t \in SUBSET s, t # s PROVE IsIter(G(t), f, t)
    BY <1>1, <1>2
  <1>3. IsFiniteSet(s)
    BY FS_Subset
  <1> DEFINE h == [t \in SUBSET s |-> IF t = {} THEN 0
                                     ELSE f[Pick(t)] + G(t \ {Pick(t)})[t \ {Pick(t)}]]
  <1>4. ASSUME NEW t \in SUBSET s, t # s PROVE h[t] = G(t)[t]
    <2>1. IsIter(G(t), f, t)
      BY <1>2, <1>4
    <2>2. CASE t = {}
      BY <2>1, <2>2 DEF IsIter
    <2>3. CASE t # {}
      <3> DEFINE u == t \ {Pick(t)}
      <3>1. Pick(t) \in t /\ u \in SUBSET t /\ u \in SUBSET s /\ u # s
        BY <2>3 DEF Pick
      <3>2. IsIter(G(u), f, u)
        BY <3>1, <1>2
      <3>3. IsFiniteSet(t)
        BY <1>3, FS_Subset
      <3> HIDE DEF G
      <3>4. G(t)[u] = G(u)[u]
        BY <3>1, <3>2, <3>3, <2>1, IterUnique
      <3>5. G(t)[t] = f[Pick(t)] + G(t)[u]
        BY <2>1, <2>3 DEF IsIter
      <3> QED BY <3>4, <3>5, <2>3
    <2> QED BY <2>2, <2>3
  <1>5. IsIter(h, f, s)
    <2>1. ASSUME NEW t \in SUBSET s, t # {} PROVE h[t] = f[Pick(t)] + h[t \ {Pick(t)}]
      <3>1. Pick(t) \in t
        BY <2>1 DEF Pick
      <3>2. t \ {Pick(t)} \in SUBSET s /\ t \ {Pick(t)} # s
        BY <3>1
      <3>3. h[t \ {Pick(t)}] = G(t \ {Pick(t)})[t \ {Pick(t)}]
        BY <3>2, <1>4
      <3> HIDE DEF G
      <3> QED BY <2>1, <3>3
    <2>2. h[{}] = 0
      OBVIOUS
    <2>3. h = [t \in SUBSET s |-> h[t]]
      OBVIOUS
    <2> HIDE DEF h
    <2> QED BY <2>1, <2>2, <2>3 DEF IsIter
  <1> QED BY <1>5

\* The sum over a finite set, by its chosen element.
LEMMA SumByPick ==
  ASSUME NEW f, NEW S, IsFiniteSet(S)
  PROVE  /\ S = {} => SumOf(f, S) = 0
         /\ S # {} => Pick(S) \in S /\ SumOf(f, S) = f[Pick(S)] + SumOf(f, S \ {Pick(S)})
  <1> DEFINE G(t) == CHOOSE g : IsIter(g, f, t)
  <1>1. IsIter(G(S), f, S)
    BY IterExists
  <1>2. SumOf(f, S) = G(S)[S]
    BY SumChoice
  <1>3. CASE S = {}
    BY <1>1, <1>2, <1>3 DEF IsIter
  <1>4. CASE S # {}
    <2> DEFINE T == S \ {Pick(S)}
    <2>1. Pick(S) \in S /\ T \in SUBSET S
      BY <1>4 DEF Pick
    <2>2. IsFiniteSet(T)
      BY <2>1, FS_Subset
    <2>3. IsIter(G(T), f, T)
      BY <2>2, IterExists
    <2>4. SumOf(f, T) = G(T)[T]
      BY SumChoice
    <2> HIDE DEF G, T
    <2>5. G(S)[T] = G(T)[T]
      BY <1>1, <2>1, <2>3, IterUnique
    <2>6. G(S)[S] = f[Pick(S)] + G(S)[T]
      BY <1>1, <1>4 DEF IsIter, T
    <2> QED BY <1>2, <1>4, <2>1, <2>4, <2>5, <2>6 DEF T
  <1> QED BY <1>3, <1>4

\* The empty sum.
LEMMA SumEmpty == \A f : SumOf(f, {}) = 0
  BY SumByPick, FS_EmptySet

\* Induction over the subsets of a finite set, for a set "good" of them.
LEMMA SubsetInduction ==
  ASSUME NEW S, IsFiniteSet(S), NEW good, {} \in good,
         ASSUME NEW t \in SUBSET S, IsFiniteSet(t), t # {}, \A x \in t : t \ {x} \in good
         PROVE  t \in good
  PROVE  S \in good
  <1> DEFINE bad == (SUBSET S) \ good
  <1> SUFFICES ASSUME S \notin good PROVE FALSE
    OBVIOUS
  <1>1. PICK t \in bad : \A y \in bad : y \subseteq t => y = t
    <2>1. bad \subseteq SUBSET S /\ bad # {}
      OBVIOUS
    <2> HIDE DEF bad
    <2> QED BY <2>1, Minimal
  <1>2. t \in SUBSET S /\ t \notin good /\ t # {}
    OBVIOUS
  <1>3. IsFiniteSet(t)
    BY <1>2, FS_Subset
  <1>4. \A x \in t : t \ {x} \in good
    BY <1>1, <1>2
  <1> QED BY <1>2, <1>3, <1>4

\* A sum of integers is an integer.
LEMMA SumInt ==
  ASSUME NEW S, IsFiniteSet(S), NEW f, \A x \in S : f[x] \in Int
  PROVE  SumOf(f, S) \in Int
  <1> DEFINE good == {t \in SUBSET S : SumOf(f, t) \in Int}
  <1>1. {} \in good
    BY SumEmpty
  <1>2. ASSUME NEW t \in SUBSET S, IsFiniteSet(t), t # {}, \A x \in t : t \ {x} \in good
        PROVE  t \in good
    <2>1. Pick(t) \in t /\ SumOf(f, t) = f[Pick(t)] + SumOf(f, t \ {Pick(t)})
      BY <1>2, SumByPick
    <2>2. f[Pick(t)] \in Int /\ SumOf(f, t \ {Pick(t)}) \in Int
      BY <1>2, <2>1
    <2> QED BY <2>1, <2>2
  <1> HIDE DEF good
  <1>3. S \in good
    BY <1>1, <1>2, SubsetInduction
  <1> QED BY <1>3 DEF good

\* Any element may be taken first.
LEMMA SumRemove ==
  ASSUME NEW S, IsFiniteSet(S), NEW f, \A x \in S : f[x] \in Int, NEW a \in S
  PROVE  SumOf(f, S) = f[a] + SumOf(f, S \ {a})
  <1> DEFINE good == {t \in SUBSET S : \A x \in t : SumOf(f, t) = f[x] + SumOf(f, t \ {x})}
  <1>1. {} \in good
    OBVIOUS
  <1>2. ASSUME NEW t \in SUBSET S, IsFiniteSet(t), t # {}, \A x \in t : t \ {x} \in good
        PROVE  t \in good
    <2> SUFFICES ASSUME NEW x \in t PROVE SumOf(f, t) = f[x] + SumOf(f, t \ {x})
      OBVIOUS
    <2> DEFINE p == Pick(t)
               r == (t \ {p}) \ {x}
    <2>1. p \in t /\ SumOf(f, t) = f[p] + SumOf(f, t \ {p})
      BY <1>2, SumByPick
    <2>2. CASE p = x
      BY <2>1, <2>2
    <2>3. CASE p # x
      <3>1. /\ SumOf(f, t \ {p}) = f[x] + SumOf(f, r)
            /\ SumOf(f, t \ {x}) = f[p] + SumOf(f, (t \ {x}) \ {p})
        <4>1. t \ {p} \in good /\ t \ {x} \in good
          BY <1>2, <2>1
        <4> HIDE DEF p
        <4> QED BY <4>1, <2>1, <2>3
      <3>2. r = (t \ {x}) \ {p}
        OBVIOUS
      <3>3. r \in SUBSET t /\ IsFiniteSet(r)
        BY <1>2, FS_Subset
      <3>4. SumOf(f, r) \in Int
        BY <3>3, SumInt
      <3>5. f[x] \in Int /\ f[p] \in Int
        BY <2>1
      <3> HIDE DEF p, r
      <3> QED BY <2>1, <3>1, <3>2, <3>4, <3>5
    <2> QED BY <2>2, <2>3
  <1> HIDE DEF good
  <1>3. S \in good
    BY <1>1, <1>2, SubsetInduction
  <1> QED BY <1>3 DEF good

\* One more element.
LEMMA SumAdd ==
  ASSUME NEW S, IsFiniteSet(S), NEW a, a \notin S, NEW f, \A x \in S \cup {a} : f[x] \in Int
  PROVE  SumOf(f, S \cup {a}) = f[a] + SumOf(f, S)
  <1>1. IsFiniteSet(S \cup {a})
    BY FS_AddElement
  <1>2. (S \cup {a}) \ {a} = S
    OBVIOUS
  <1> QED BY <1>1, <1>2, SumRemove

\* One element.
LEMMA SumSingle == ASSUME NEW f, NEW a, f[a] \in Int PROVE SumOf(f, {a}) = f[a]
  <1>1. IsFiniteSet({a}) /\ {a} \ {a} = {}
    BY FS_Singleton
  <1> QED BY <1>1, SumRemove, SumEmpty

\* Equal terms give equal sums.
LEMMA SumEqual ==
  ASSUME NEW S, IsFiniteSet(S), NEW f, NEW g, \A x \in S : f[x] = g[x]
  PROVE  SumOf(f, S) = SumOf(g, S)
  <1> DEFINE good == {t \in SUBSET S : SumOf(f, t) = SumOf(g, t)}
  <1>1. {} \in good
    BY SumEmpty
  <1>2. ASSUME NEW t \in SUBSET S, IsFiniteSet(t), t # {}, \A x \in t : t \ {x} \in good
        PROVE  t \in good
    <2>1. /\ Pick(t) \in t
          /\ SumOf(f, t) = f[Pick(t)] + SumOf(f, t \ {Pick(t)})
          /\ SumOf(g, t) = g[Pick(t)] + SumOf(g, t \ {Pick(t)})
      BY <1>2, SumByPick
    <2>2. f[Pick(t)] = g[Pick(t)] /\ SumOf(f, t \ {Pick(t)}) = SumOf(g, t \ {Pick(t)})
      BY <1>2, <2>1
    <2> QED BY <2>1, <2>2
  <1> HIDE DEF good
  <1>3. S \in good
    BY <1>1, <1>2, SubsetInduction
  <1> QED BY <1>3 DEF good

\* A sum of terms that are sums.
LEMMA SumPlus ==
  ASSUME NEW S, IsFiniteSet(S), NEW f, NEW g, NEW h,
         \A x \in S : f[x] \in Int /\ g[x] \in Int /\ h[x] = f[x] + g[x]
  PROVE  SumOf(h, S) = SumOf(f, S) + SumOf(g, S)
  <1> DEFINE good == {t \in SUBSET S : SumOf(h, t) = SumOf(f, t) + SumOf(g, t)}
  <1>1. {} \in good
    BY SumEmpty
  <1>2. ASSUME NEW t \in SUBSET S, IsFiniteSet(t), t # {}, \A x \in t : t \ {x} \in good
        PROVE  t \in good
    <2>1. PICK a \in t : TRUE
      BY <1>2
    <2> DEFINE r == t \ {a}
    <2>2. f[a] \in Int /\ g[a] \in Int /\ h[a] = f[a] + g[a]
      BY <2>1
    <2>3. \A x \in t : f[x] \in Int /\ g[x] \in Int /\ h[x] \in Int
      OBVIOUS
    <2>4. /\ SumOf(f, t) = f[a] + SumOf(f, r)
          /\ SumOf(g, t) = g[a] + SumOf(g, r)
          /\ SumOf(h, t) = h[a] + SumOf(h, r)
      BY <1>2, <2>3, SumRemove
    <2>5. IsFiniteSet(r)
      BY <1>2, FS_Subset
    <2>6. SumOf(f, r) \in Int /\ SumOf(g, r) \in Int
      BY <2>3, <2>5, SumInt
    <2>7. SumOf(h, r) = SumOf(f, r) + SumOf(g, r)
      BY <1>2, <2>1
    <2> HIDE DEF r
    <2> QED BY <2>2, <2>4, <2>6, <2>7
  <1> HIDE DEF good
  <1>3. S \in good
    BY <1>1, <1>2, SubsetInduction
  <1> QED BY <1>3 DEF good

\* Larger terms give a larger sum.
LEMMA SumLeq ==
  ASSUME NEW S, IsFiniteSet(S), NEW f, NEW g,
         \A x \in S : f[x] \in Int /\ g[x] \in Int /\ f[x] <= g[x]
  PROVE  SumOf(f, S) <= SumOf(g, S)
  <1> DEFINE good == {t \in SUBSET S : SumOf(f, t) <= SumOf(g, t)}
  <1>1. {} \in good
    BY SumEmpty
  <1>2. ASSUME NEW t \in SUBSET S, IsFiniteSet(t), t # {}, \A x \in t : t \ {x} \in good
        PROVE  t \in good
    <2>1. PICK a \in t : TRUE
      BY <1>2
    <2> DEFINE r == t \ {a}
    <2>2. f[a] \in Int /\ g[a] \in Int /\ f[a] <= g[a]
      BY <2>1
    <2>4. /\ SumOf(f, t) = f[a] + SumOf(f, r)
          /\ SumOf(g, t) = g[a] + SumOf(g, r)
      BY <1>2, SumRemove
    <2>5. IsFiniteSet(r)
      BY <1>2, FS_Subset
    <2>6. SumOf(f, r) \in Int /\ SumOf(g, r) \in Int
      BY <2>5, SumInt
    <2>7. SumOf(f, r) <= SumOf(g, r)
      BY <1>2, <2>1
    <2> HIDE DEF r
    <2> QED BY <2>2, <2>4, <2>6, <2>7
  <1> HIDE DEF good
  <1>3. S \in good
    BY <1>1, <1>2, SubsetInduction
  <1> QED BY <1>3 DEF good

\* A sum of zeros.
LEMMA SumZero ==
  ASSUME NEW S, IsFiniteSet(S), NEW f, \A x \in S : f[x] = 0
  PROVE  SumOf(f, S) = 0
  <1>1. SumOf(f, S) + SumOf(f, S) = SumOf(f, S)
    BY SumPlus
  <1>2. SumOf(f, S) \in Int
    BY SumInt
  <1>3. \A n \in Int : n + n = n => n = 0
    OBVIOUS
  <1> QED BY <1>1, <1>2, <1>3

\* A sum of naturals is one, and none of them exceeds it.
LEMMA SumNat ==
  ASSUME NEW S, IsFiniteSet(S), NEW f, \A x \in S : f[x] \in Nat
  PROVE  /\ SumOf(f, S) \in Nat
         /\ \A x \in S : f[x] <= SumOf(f, S)
  <1> DEFINE zero == [x \in S |-> 0]
  <1>1. ASSUME NEW T \in SUBSET S PROVE SumOf(f, T) \in Nat
    <2>1. IsFiniteSet(T)
      BY FS_Subset
    <2>2. SumOf(zero, T) = 0
      BY <2>1, SumZero
    <2>3. SumOf(zero, T) <= SumOf(f, T)
      BY <2>1, SumLeq
    <2>4. SumOf(f, T) \in Int
      BY <2>1, SumInt
    <2> QED BY <2>2, <2>3, <2>4
  <1>2. ASSUME NEW x \in S PROVE f[x] <= SumOf(f, S)
    <2>1. SumOf(f, S) = f[x] + SumOf(f, S \ {x})
      BY SumRemove
    <2>2. SumOf(f, S \ {x}) \in Nat
      BY <1>1
    <2> QED BY <2>1, <2>2
  <1> QED BY <1>1, <1>2

\* What one changed term does to a sum.
LEMMA SumChange ==
  ASSUME NEW S, IsFiniteSet(S), NEW f, NEW g, NEW a \in S,
         \A x \in S : f[x] \in Int /\ g[x] \in Int,
         \A x \in S \ {a} : f[x] = g[x]
  PROVE  SumOf(g, S) = SumOf(f, S) + (g[a] - f[a])
  <1>1. /\ SumOf(f, S) = f[a] + SumOf(f, S \ {a})
        /\ SumOf(g, S) = g[a] + SumOf(g, S \ {a})
    BY SumRemove
  <1>2. IsFiniteSet(S \ {a})
    BY FS_Subset
  <1>3. SumOf(f, S \ {a}) = SumOf(g, S \ {a}) /\ SumOf(f, S \ {a}) \in Int
    BY <1>2, SumEqual, SumInt
  <1> QED BY <1>1, <1>3

\* Terms that are zero may be left out.
LEMMA SumSubset ==
  ASSUME NEW S, IsFiniteSet(S), NEW T \in SUBSET S, NEW f,
         \A x \in S : f[x] \in Int, \A x \in S \ T : f[x] = 0
  PROVE  SumOf(f, S) = SumOf(f, T)
  <1> DEFINE good == {t \in SUBSET S : SumOf(f, t) = SumOf(f, t \cap T)}
  <1>1. {} \in good
    OBVIOUS
  <1>2. ASSUME NEW t \in SUBSET S, IsFiniteSet(t), t # {}, \A x \in t : t \ {x} \in good
        PROVE  t \in good
    <2>1. PICK a \in t : TRUE
      BY <1>2
    <2> DEFINE r == t \ {a}
    <2>2. SumOf(f, t) = f[a] + SumOf(f, r)
      BY <1>2, SumRemove
    <2>3. SumOf(f, r) = SumOf(f, r \cap T)
      BY <1>2
    <2>4. IsFiniteSet(t \cap T) /\ t \cap T \in SUBSET S
      BY <1>2, FS_Subset, t \cap T \in SUBSET t
    <2>5. IsFiniteSet(r \cap T)
      BY <1>2, FS_Subset, r \cap T \in SUBSET t
    <2>6. SumOf(f, r \cap T) \in Int
      BY <2>5, SumInt
    <2>7. CASE a \in T
      <3>1. SumOf(f, t \cap T) = f[a] + SumOf(f, (t \cap T) \ {a})
        BY <2>4, <2>7, SumRemove
      <3>2. (t \cap T) \ {a} = r \cap T
        OBVIOUS
      <3> HIDE DEF r
      <3> QED BY <2>2, <2>3, <3>1, <3>2
    <2>8. CASE a \notin T
      <3>1. r \cap T = t \cap T
        BY <2>8
      <3>2. SumOf(f, r \cap T) = SumOf(f, t \cap T)
        BY <3>1, Zenon
      <3>3. f[a] = 0
        BY <2>8
      <3> HIDE DEF r, good
      <3>4. SumOf(f, t) = SumOf(f, t \cap T)
        BY <2>2, <2>3, <2>6, <3>2, <3>3
      <3> QED BY <3>4 DEF good
    <2> QED BY <2>7, <2>8
  <1> HIDE DEF good
  <1>3. S \in good
    BY <1>1, <1>2, SubsetInduction
  <1>4. S \cap T = T
    OBVIOUS
  <1> QED BY <1>3, <1>4 DEF good

\* The sum over two sets without a common element.
LEMMA SumUnion ==
  ASSUME NEW S, IsFiniteSet(S), NEW T, IsFiniteSet(T), S \cap T = {},
         NEW f, \A x \in S \cup T : f[x] \in Int
  PROVE  SumOf(f, S \cup T) = SumOf(f, S) + SumOf(f, T)
  <1> DEFINE U == S \cup T
             fS == [x \in U |-> IF x \in S THEN f[x] ELSE 0]
             fT == [x \in U |-> IF x \in T THEN f[x] ELSE 0]
  <1>1. IsFiniteSet(U)
    BY FS_Union
  <1>2. SumOf(f, U) = SumOf(fS, U) + SumOf(fT, U)
    <2>1. \A x \in U : fS[x] \in Int /\ fT[x] \in Int /\ f[x] = fS[x] + fT[x]
      OBVIOUS
    <2> HIDE DEF fS, fT, U
    <2> QED BY <1>1, <2>1, SumPlus
  <1>3. SumOf(fS, U) = SumOf(fS, S)
    <2>1. (\A x \in U : fS[x] \in Int) /\ (\A x \in U \ S : fS[x] = 0) /\ S \in SUBSET U
      OBVIOUS
    <2> HIDE DEF fS, U
    <2> QED BY <1>1, <2>1, SumSubset
  <1>4. SumOf(fT, U) = SumOf(fT, T)
    <2>1. (\A x \in U : fT[x] \in Int) /\ (\A x \in U \ T : fT[x] = 0) /\ T \in SUBSET U
      OBVIOUS
    <2> HIDE DEF fT, U
    <2> QED BY <1>1, <2>1, SumSubset
  <1>5. SumOf(fS, S) = SumOf(f, S) /\ SumOf(fT, T) = SumOf(f, T)
    <2>1. (\A x \in S : fS[x] = f[x]) /\ (\A x \in T : fT[x] = f[x])
      OBVIOUS
    <2> HIDE DEF fS, fT
    <2> QED BY <2>1, SumEqual
  <1> HIDE DEF fS, fT
  <1> QED BY <1>2, <1>3, <1>4, <1>5

\* A common factor.
LEMMA SumTimes ==
  ASSUME NEW S, IsFiniteSet(S), NEW f, NEW g, NEW c \in Int,
         \A x \in S : f[x] \in Int /\ g[x] = c * f[x]
  PROVE  SumOf(g, S) = c * SumOf(f, S)
  <1> DEFINE good == {t \in SUBSET S : SumOf(g, t) = c * SumOf(f, t)}
  <1>1. {} \in good
    BY SumEmpty
  <1>2. ASSUME NEW t \in SUBSET S, IsFiniteSet(t), t # {}, \A x \in t : t \ {x} \in good
        PROVE  t \in good
    <2>1. PICK a \in t : TRUE
      BY <1>2
    <2> DEFINE r == t \ {a}
    <2>2. f[a] \in Int /\ g[a] = c * f[a]
      BY <2>1
    <2>3. \A x \in t : f[x] \in Int /\ g[x] \in Int
      OBVIOUS
    <2>4. /\ SumOf(f, t) = f[a] + SumOf(f, r)
          /\ SumOf(g, t) = g[a] + SumOf(g, r)
      BY <1>2, <2>3, SumRemove
    <2>5. IsFiniteSet(r)
      BY <1>2, FS_Subset
    <2>6. SumOf(f, r) \in Int
      BY <2>3, <2>5, SumInt
    <2>7. SumOf(g, r) = c * SumOf(f, r)
      BY <1>2, <2>1
    <2> HIDE DEF r, good
    <2>8. SumOf(g, t) = c * SumOf(f, t)
      BY <2>2, <2>4, <2>6, <2>7
    <2> QED BY <2>8 DEF good
  <1> HIDE DEF good
  <1>3. S \in good
    BY <1>1, <1>2, SubsetInduction
  <1> QED BY <1>3 DEF good

\* Equal terms are counted.
LEMMA SumConstant ==
  ASSUME NEW S, IsFiniteSet(S), NEW f, NEW c \in Int, \A x \in S : f[x] = c
  PROVE  SumOf(f, S) = c * Cardinality(S)
  <1> DEFINE good == {t \in SUBSET S : SumOf(f, t) = c * Cardinality(t)}
  <1>1. {} \in good
    BY SumEmpty, FS_EmptySet
  <1>2. ASSUME NEW t \in SUBSET S, IsFiniteSet(t), t # {}, \A x \in t : t \ {x} \in good
        PROVE  t \in good
    <2>1. PICK a \in t : TRUE
      BY <1>2
    <2> DEFINE r == t \ {a}
    <2>2. SumOf(f, t) = c + SumOf(f, r)
      BY <1>2, SumRemove
    <2>3. Cardinality(t) \in Nat /\ Cardinality(r) = Cardinality(t) - 1
      BY <1>2, FS_RemoveElement, FS_CardinalityType
    <2>4. SumOf(f, r) = c * Cardinality(r)
      BY <1>2, <2>1
    <2> HIDE DEF r, good
    <2>5. SumOf(f, t) = c * Cardinality(t)
      BY <2>2, <2>3, <2>4
    <2> QED BY <2>5 DEF good
  <1> HIDE DEF good
  <1>3. S \in good
    BY <1>1, <1>2, SubsetInduction
  <1> QED BY <1>3 DEF good
=============================================================================
