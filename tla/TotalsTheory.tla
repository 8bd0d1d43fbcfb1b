---------------------------- MODULE TotalsTheory ----------------------------
(***************************************************************************)
(* What the totals of the books add up to. A sum over accounts is the      *)
(* number of coins in as many heaps: the library counts finite sets, and   *)
(* no theorem of it speaks of folds.                                       *)
(***************************************************************************)
EXTENDS Totals, FiniteSetTheorems, WellFoundedInduction, TLAPS

\* The element the fold over s takes first.
Pick(s) == CHOOSE x \in s : TRUE

\* The unit coins of f on s.
Coins(f, s) == UNION {{x} \X (1..f[x]) : x \in s}

\* n coins of one element are n.
LEMMA CoinsOfOne ==
  ASSUME NEW x, NEW n \in Nat
  PROVE  IsFiniteSet({x} \X (1..n)) /\ Cardinality({x} \X (1..n)) = n
<1>1. IsFiniteSet({x}) /\ Cardinality({x}) = 1
  BY FS_Singleton
<1>2. IsFiniteSet(1..n) /\ Cardinality(1..n) = n
  BY FS_Interval
<1>3. /\ IsFiniteSet({x} \X (1..n))
      /\ Cardinality({x} \X (1..n)) = Cardinality({x}) * Cardinality(1..n)
  BY <1>1, <1>2, FS_Product, Zenon
<1> QED
  BY <1>1, <1>2, <1>3

\* Finitely many heaps of coins are finitely many coins.
LEMMA CoinsFinite ==
  ASSUME NEW s, IsFiniteSet(s), NEW f, \A x \in s : f[x] \in Nat
  PROVE  IsFiniteSet(Coins(f, s))
<1> DEFINE piles == {{x} \X (1..f[x]) : x \in s}
           pile  == [x \in s |-> {x} \X (1..f[x])]
<1>1. pile \in Surjection(s, piles)
  BY DEF Surjection
<1>2. IsFiniteSet(piles)
  BY <1>1, FS_Surjection
<1>3. \A t \in piles : IsFiniteSet(t)
  <2> SUFFICES ASSUME NEW x \in s PROVE IsFiniteSet({x} \X (1..f[x]))
    OBVIOUS
  <2> QED BY CoinsOfOne
<1>4. Coins(f, s) = UNION piles
  BY DEF Coins
<1> HIDE DEF piles
<1> QED
  BY <1>2, <1>3, <1>4, FS_UNION, Zenon

\* Taking one element away takes its coins away, and no others.
LEMMA CoinsStep ==
  ASSUME NEW s, IsFiniteSet(s), NEW f, \A y \in s : f[y] \in Nat, NEW x \in s
  PROVE  Cardinality(Coins(f, s)) = f[x] + Cardinality(Coins(f, s \ {x}))
<1>1. IsFiniteSet(s \ {x})
  BY FS_RemoveElement
<1>2. IsFiniteSet(Coins(f, s \ {x}))
  BY <1>1, CoinsFinite
<1>3. Coins(f, s) = ({x} \X (1..f[x])) \cup Coins(f, s \ {x})
  BY DEF Coins
<1>4. ({x} \X (1..f[x])) \cap Coins(f, s \ {x}) = {}
  BY DEF Coins
<1>5. IsFiniteSet({x} \X (1..f[x])) /\ Cardinality({x} \X (1..f[x])) = f[x]
  BY CoinsOfOne
<1>6. Cardinality(Coins(f, s \ {x})) \in Nat
  BY <1>2, FS_CardinalityType
<1>7. Cardinality(({x} \X (1..f[x])) \cup Coins(f, s \ {x})) =
        Cardinality({x} \X (1..f[x])) + Cardinality(Coins(f, s \ {x}))
          - Cardinality(({x} \X (1..f[x])) \cap Coins(f, s \ {x}))
  BY <1>2, <1>5, FS_Union, Zenon
<1>8. Cardinality(({x} \X (1..f[x])) \cap Coins(f, s \ {x})) = 0
  BY <1>4, FS_EmptySet
<1> HIDE DEF Coins
<1> QED
  BY <1>3, <1>5, <1>6, <1>7, <1>8

\* The total of f is the number of its coins. A smallest subset on which the
\* fold and the count differ cannot exist.
LEMMA TotalIsCoins ==
  ASSUME NEW f, IsFiniteSet(DOMAIN f), \A x \in DOMAIN f : f[x] \in Nat
  PROVE  Total(f) = Cardinality(Coins(f, DOMAIN f))
<1> DEFINE subs == SUBSET (DOMAIN f)
           u    == [s \in subs |-> Cardinality(Coins(f, s))]
           iter == CHOOSE it : it = [s \in subs |->
                     IF s = {} THEN 0 ELSE f[Pick(s)] + it[s \ {Pick(s)}]]
           wrong == {s \in subs : iter[s] # u[s]}
<1>1. Total(f) = iter[DOMAIN f]
  BY Zenon DEF Total, MapThenSumSet, MapThenFoldSet, Pick
<1>2. \A s \in subs : s # {} => Pick(s) \in s
  BY DEF Pick
<1>3. \A s \in subs : IsFiniteSet(s) /\ \A x \in s : f[x] \in Nat
  BY FS_Subset
<1>4. \A s \in subs : u[s] = IF s = {} THEN 0 ELSE f[Pick(s)] + u[s \ {Pick(s)}]
  <2>1. ASSUME NEW s \in subs, s = {} PROVE u[s] = 0
    BY <2>1, FS_EmptySet DEF Coins
  <2>2. ASSUME NEW s \in subs, s # {} PROVE u[s] = f[Pick(s)] + u[s \ {Pick(s)}]
    <3>1. Pick(s) \in s /\ s \ {Pick(s)} \in subs
      BY <2>2, <1>2
    <3> QED
      BY <2>2, <3>1, <1>3, CoinsStep
  <2> QED
    BY <2>1, <2>2
<1>5. u = [s \in subs |-> IF s = {} THEN 0 ELSE f[Pick(s)] + u[s \ {Pick(s)}]]
  <2> HIDE DEF subs
  <2> QED BY <1>4
<1>6. iter = [s \in subs |-> IF s = {} THEN 0 ELSE f[Pick(s)] + iter[s \ {Pick(s)}]]
  <2> HIDE DEF u
  <2> QED BY <1>5
<1>7. wrong = {}
  <2> SUFFICES ASSUME wrong # {} PROVE FALSE
    OBVIOUS
  <2>1. IsWellFoundedOn(StrictSubsetOrdering(DOMAIN f), subs)
    BY FS_StrictSubsetOrderingWellFounded, FS_FiniteSubsetsOfFinite
  <2>2. PICK s \in wrong : \A t \in wrong : ~(<<t, s>> \in StrictSubsetOrdering(DOMAIN f))
    <3> HIDE DEF wrong
    <3>1. wrong \subseteq subs
      BY DEF wrong
    <3> QED BY <2>1, <3>1, WFMin
  <2>3. s \in subs /\ iter[s] # u[s]
    BY <2>2
  <2> HIDE DEF wrong, u, iter
  <2>4. s # {}
    BY <2>3, <1>4, <1>6
  <2> DEFINE t == s \ {Pick(s)}
  <2>5. t \in subs /\ t # s /\ t \subseteq s
    BY <2>3, <2>4, <1>2
  <2>6. <<t, s>> \in StrictSubsetOrdering(DOMAIN f)
    BY <2>3, <2>5 DEF StrictSubsetOrdering
  <2>7. iter[t] = u[t]
    BY <2>2, <2>5, <2>6 DEF wrong
  <2> QED
    BY <2>3, <2>4, <2>7, <1>4, <1>6
<1> QED
  <2>1. DOMAIN f \in subs
    OBVIOUS
  <2>2. iter[DOMAIN f] = u[DOMAIN f]
    <3> HIDE DEF iter, u
    <3> QED BY <1>7, <2>1
  <2> QED
    BY <1>1, <2>1, <2>2

\* A total of naturals is a natural, and no member exceeds it.
LEMMA TotalNat ==
  ASSUME NEW f, IsFiniteSet(DOMAIN f), \A x \in DOMAIN f : f[x] \in Nat
  PROVE  /\ Total(f) \in Nat
         /\ \A x \in DOMAIN f : f[x] <= Total(f)
<1>1. IsFiniteSet(Coins(f, DOMAIN f)) /\ Total(f) = Cardinality(Coins(f, DOMAIN f))
  BY CoinsFinite, TotalIsCoins
<1>2. Total(f) \in Nat
  BY <1>1, FS_CardinalityType
<1>3. ASSUME NEW x \in DOMAIN f PROVE f[x] <= Total(f)
  <2>1. IsFiniteSet(DOMAIN f \ {x})
    BY FS_RemoveElement
  <2>2. Cardinality(Coins(f, DOMAIN f \ {x})) \in Nat
    BY <2>1, CoinsFinite, FS_CardinalityType
  <2> QED
    BY <1>1, <2>2, CoinsStep
<1> QED
  BY <1>2, <1>3

\* Nothing anywhere totals zero.
LEMMA TotalZero ==
  ASSUME NEW f, IsFiniteSet(DOMAIN f), \A x \in DOMAIN f : f[x] = 0
  PROVE  Total(f) = 0
<1>1. Coins(f, DOMAIN f) = {}
  BY DEF Coins
<1> QED
  BY <1>1, TotalIsCoins, FS_EmptySet

\* A step that changes one account changes the total by as much.
LEMMA TotalUpdate ==
  ASSUME NEW f, NEW g, DOMAIN g = DOMAIN f, IsFiniteSet(DOMAIN f),
         \A y \in DOMAIN f : f[y] \in Nat /\ g[y] \in Nat,
         NEW x \in DOMAIN f, \A y \in DOMAIN f \ {x} : g[y] = f[y]
  PROVE  Total(g) = Total(f) + g[x] - f[x]
<1> DEFINE rest == DOMAIN f \ {x}
<1>1. Coins(g, rest) = Coins(f, rest)
  BY DEF Coins
<1>2. Cardinality(Coins(f, rest)) \in Nat
  <2>1. IsFiniteSet(rest)
    BY FS_RemoveElement
  <2> QED
    BY <2>1, CoinsFinite, FS_CardinalityType
<1>3. /\ Total(f) = f[x] + Cardinality(Coins(f, rest))
      /\ Total(g) = g[x] + Cardinality(Coins(g, rest))
  BY TotalIsCoins, CoinsStep
<1> HIDE DEF rest
<1> QED
  BY <1>1, <1>2, <1>3

\* Nowhere more is not more in total.
LEMMA TotalMonotone ==
  ASSUME NEW f, NEW g, DOMAIN g = DOMAIN f, IsFiniteSet(DOMAIN f),
         \A y \in DOMAIN f : f[y] \in Nat /\ g[y] \in Nat /\ g[y] <= f[y]
  PROVE  Total(g) <= Total(f)
<1>1. Coins(g, DOMAIN f) \subseteq Coins(f, DOMAIN f)
  BY DEF Coins
<1> QED
  BY <1>1, CoinsFinite, TotalIsCoins, FS_Subset

\* Raising some members from 0 to 1 adds their number to the total.
LEMMA TotalOnes ==
  ASSUME NEW f, NEW g, DOMAIN g = DOMAIN f, IsFiniteSet(DOMAIN f),
         \A y \in DOMAIN f : f[y] \in Nat,
         NEW s \in SUBSET DOMAIN f, \A y \in s : f[y] = 0 /\ g[y] = 1,
         \A y \in DOMAIN f \ s : g[y] = f[y]
  PROVE  Total(g) = Total(f) + Cardinality(s)
<1> DEFINE old == Coins(f, DOMAIN f)
           new == s \X {1}
<1>1. Coins(g, DOMAIN f) = old \cup new
  BY DEF Coins
<1>2. old \cap new = {}
  BY DEF Coins
<1>3. IsFiniteSet(old) /\ Cardinality(old) \in Nat
  BY CoinsFinite, FS_CardinalityType
<1>4. IsFiniteSet(s) /\ Cardinality(s) \in Nat /\ IsFiniteSet({1}) /\ Cardinality({1}) = 1
  BY FS_Subset, FS_CardinalityType, FS_Singleton
<1>5. IsFiniteSet(new) /\ Cardinality(new) = Cardinality(s)
  BY <1>4, FS_Product
<1>6. \A y \in DOMAIN g : g[y] \in Nat
  OBVIOUS
<1>7. Total(f) = Cardinality(old) /\ Total(g) = Cardinality(old \cup new)
  BY <1>1, <1>6, TotalIsCoins
<1> HIDE DEF old, new
<1>8. Cardinality(old \cup new) = Cardinality(old) + Cardinality(new) - Cardinality(old \cap new)
  BY <1>3, <1>5, FS_Union
<1>9. Cardinality(old \cap new) = 0
  BY <1>2, FS_EmptySet
<1> QED
  BY <1>3, <1>4, <1>5, <1>7, <1>8, <1>9

\* Whatever starts at zero and grows, element by element, by what h holds is
\* the total of h.
LEMMA TotalBySteps ==
  ASSUME NEW h, IsFiniteSet(DOMAIN h), \A x \in DOMAIN h : h[x] \in Nat,
         NEW u, u[{}] = 0,
         \A s \in SUBSET DOMAIN h : \A x \in s : u[s] = h[x] + u[s \ {x}]
  PROVE  u[DOMAIN h] = Total(h)
<1> DEFINE subs == SUBSET (DOMAIN h)
           n(s) == Cardinality(Coins(h, s))
           wrong == {s \in subs : u[s] # n(s)}
<1>1. ASSUME NEW s \in subs PROVE IsFiniteSet(s) /\ \A x \in s : h[x] \in Nat
  BY FS_Subset
<1>2. wrong = {}
  <2> SUFFICES ASSUME wrong # {} PROVE FALSE
    OBVIOUS
  <2>1. IsWellFoundedOn(StrictSubsetOrdering(DOMAIN h), subs)
    BY FS_StrictSubsetOrderingWellFounded, FS_FiniteSubsetsOfFinite
  <2>2. PICK s \in wrong : \A t \in wrong : ~(<<t, s>> \in StrictSubsetOrdering(DOMAIN h))
    <3> HIDE DEF wrong
    <3>1. wrong \subseteq subs
      BY DEF wrong
    <3> QED BY <2>1, <3>1, WFMin
  <2>3. s \in subs /\ u[s] # n(s)
    BY <2>2
  <2>4. n({}) = 0
    BY FS_EmptySet DEF Coins
  <2>5. PICK x \in s : TRUE
    BY <2>3, <2>4
  <2> HIDE DEF wrong
  <2>6. s \ {x} \in subs /\ <<s \ {x}, s>> \in StrictSubsetOrdering(DOMAIN h)
    BY <2>3, <2>5 DEF StrictSubsetOrdering
  <2>7. u[s \ {x}] = n(s \ {x})
    BY <2>2, <2>6 DEF wrong
  <2>8. n(s) = h[x] + n(s \ {x})
    BY <1>1, <2>3, <2>5, CoinsStep
  <2> QED
    BY <2>3, <2>5, <2>7, <2>8
<1> QED
  <2>1. DOMAIN h \in subs
    OBVIOUS
  <2>2. u[DOMAIN h] = n(DOMAIN h)
    BY <1>2, <2>1
  <2> QED
    BY <2>2, TotalIsCoins

\* Adding accounts one by one adds their totals.
LEMMA TotalPlus ==
  ASSUME NEW f, NEW g, NEW h, IsFiniteSet(DOMAIN h), DOMAIN f = DOMAIN h, DOMAIN g = DOMAIN h,
         \A x \in DOMAIN h : f[x] \in Nat /\ g[x] \in Nat /\ h[x] = f[x] + g[x]
  PROVE  Total(h) = Total(f) + Total(g)
<1> DEFINE u == [s \in SUBSET DOMAIN h |-> Cardinality(Coins(f, s)) + Cardinality(Coins(g, s))]
<1>1. ASSUME NEW s \in SUBSET DOMAIN h, NEW x \in s PROVE u[s] = h[x] + u[s \ {x}]
  <2>1. IsFiniteSet(s) /\ IsFiniteSet(s \ {x}) /\ s \ {x} \in SUBSET DOMAIN h
    BY FS_Subset
  <2>2. /\ Cardinality(Coins(f, s)) = f[x] + Cardinality(Coins(f, s \ {x}))
        /\ Cardinality(Coins(g, s)) = g[x] + Cardinality(Coins(g, s \ {x}))
    BY <2>1, CoinsStep
  <2>3. Cardinality(Coins(f, s \ {x})) \in Nat /\ Cardinality(Coins(g, s \ {x})) \in Nat
    <3>1. IsFiniteSet(Coins(f, s \ {x})) /\ IsFiniteSet(Coins(g, s \ {x}))
      BY <2>1, CoinsFinite
    <3> QED BY <3>1, FS_CardinalityType
  <2>4. f[x] \in Nat /\ g[x] \in Nat /\ h[x] = f[x] + g[x]
    OBVIOUS
  <2> QED BY <2>1, <2>2, <2>3, <2>4
<1>2. u[{}] = 0
  <2>1. Coins(f, {}) = {} /\ Coins(g, {}) = {}
    BY DEF Coins
  <2>2. u[{}] = Cardinality(Coins(f, {})) + Cardinality(Coins(g, {}))
    OBVIOUS
  <2>3. Cardinality(Coins(f, {})) = 0 /\ Cardinality(Coins(g, {})) = 0
    BY <2>1, FS_EmptySet, Zenon
  <2> HIDE DEF u
  <2> QED BY <2>2, <2>3
<1>3. u[DOMAIN h] = Total(f) + Total(g)
  BY TotalIsCoins
<1> HIDE DEF u
<1>4. \A x \in DOMAIN h : h[x] \in Nat
  OBVIOUS
<1> QED
  BY <1>1, <1>2, <1>3, <1>4, TotalBySteps

\* Multiplying every account multiplies the total.
LEMMA TotalTimes ==
  ASSUME NEW k \in Nat, NEW f, NEW h, IsFiniteSet(DOMAIN h), DOMAIN f = DOMAIN h,
         \A x \in DOMAIN h : f[x] \in Nat /\ h[x] = k * f[x]
  PROVE  Total(h) = k * Total(f)
<1> DEFINE u == [s \in SUBSET DOMAIN h |-> k * Cardinality(Coins(f, s))]
<1>0. \A a, b \in Nat : k * (a + b) = k * a + k * b /\ k * a \in Nat /\ k * 0 = 0
  OBVIOUS
<1>1. ASSUME NEW s \in SUBSET DOMAIN h, NEW x \in s PROVE u[s] = h[x] + u[s \ {x}]
  <2>1. IsFiniteSet(s) /\ IsFiniteSet(s \ {x}) /\ s \ {x} \in SUBSET DOMAIN h
    BY FS_Subset
  <2>2. Cardinality(Coins(f, s)) = f[x] + Cardinality(Coins(f, s \ {x}))
    BY <2>1, CoinsStep
  <2>3. Cardinality(Coins(f, s \ {x})) \in Nat
    BY <2>1, CoinsFinite, FS_CardinalityType
  <2>4. k * Cardinality(Coins(f, s)) = k * f[x] + k * Cardinality(Coins(f, s \ {x}))
    BY <1>0, <2>2, <2>3
  <2> QED BY <2>1, <2>4
<1>2. u[{}] = 0
  <2>1. Coins(f, {}) = {}
    BY DEF Coins
  <2> QED BY <1>0, <2>1, FS_EmptySet
<1>3. u[DOMAIN h] = k * Total(f)
  BY TotalIsCoins
<1>4. \A x \in DOMAIN h : h[x] \in Nat
  BY <1>0
<1> HIDE DEF u
<1> QED
  BY <1>1, <1>2, <1>3, <1>4, TotalBySteps

\* Accounts that hold nothing do not count.
LEMMA TotalPadded ==
  ASSUME NEW f, NEW g, IsFiniteSet(DOMAIN g), DOMAIN f \subseteq DOMAIN g,
         \A x \in DOMAIN f : f[x] \in Nat /\ g[x] = f[x],
         \A x \in DOMAIN g \ DOMAIN f : g[x] = 0
  PROVE  Total(g) = Total(f)
<1>1. Coins(g, DOMAIN g) = Coins(f, DOMAIN f)
  BY DEF Coins
<1>2. IsFiniteSet(DOMAIN f) /\ \A x \in DOMAIN g : g[x] \in Nat
  BY FS_Subset
<1> QED
  BY <1>1, <1>2, TotalIsCoins

\* A finite set has subsets of every smaller size.
LEMMA SubsetOfSize ==
  ASSUME NEW S, IsFiniteSet(S), NEW n \in Nat, n <= Cardinality(S)
  PROVE  \E T \in SUBSET S : Cardinality(T) = n
<1>1. Cardinality(S) \in Nat
  BY FS_CardinalityType
<1>2. PICK b \in Bijection(1..Cardinality(S), S) : TRUE
  BY FS_CardinalityType DEF ExistsBijection
<1> DEFINE c == [i \in 1..n |-> b[i]]
           T == {b[i] : i \in 1..n}
<1>3. c \in Bijection(1..n, T)
  <2>1. \A i \in 1..n : i \in 1..Cardinality(S)
    BY <1>1
  <2>2. \A i, j \in 1..Cardinality(S) : b[i] = b[j] => i = j
    BY <1>2 DEF Bijection, Injection, IsInjective
  <2>3. c \in [1..n -> T] /\ \A y \in T : \E i \in 1..n : c[i] = y
    OBVIOUS
  <2>4. \A i, j \in 1..n : c[i] = c[j] => i = j
    BY <2>1, <2>2
  <2> QED
    BY <2>3, <2>4 DEF Bijection, Injection, Surjection, IsInjective
<1>4. IsFiniteSet(1..n) /\ Cardinality(1..n) = n
  BY FS_Interval
<1>5. Cardinality(T) = n
  BY <1>3, <1>4, FS_Bijection DEF ExistsBijection
<1>6. T \in SUBSET S
  BY <1>1, <1>2 DEF Bijection, Injection
<1> QED
  BY <1>5, <1>6

\* Division of naturals.
LEMMA DivideNat ==
  ASSUME NEW n \in Nat, NEW d \in Nat, d > 0
  PROVE  n \div d \in Nat /\ d * (n \div d) \in Nat /\ d * (n \div d) <= n
<1>1. n \div d \in Int /\ n % d \in 0..(d - 1)
  OBVIOUS
<1>2. n = d * (n \div d) + (n % d)
  OBVIOUS
<1>3. n \div d >= 0
  OBVIOUS
<1>4. n \div d \in Nat
  BY <1>1, <1>3
<1> QED BY <1>1, <1>2, <1>4

\* Floored shares in proportion to weights hand out no more than there is.
LEMMA SharesFit ==
  ASSUME NEW weights, IsFiniteSet(DOMAIN weights), \A w \in DOMAIN weights : weights[w] \in Nat,
         Total(weights) > 0, NEW amount \in Nat,
         NEW shares, DOMAIN shares = DOMAIN weights,
         \A w \in DOMAIN weights : shares[w] = (amount * weights[w]) \div Total(weights)
  PROVE  /\ \A w \in DOMAIN weights : shares[w] \in Nat
         /\ Total(shares) \in Nat /\ Total(shares) <= amount
<1> DEFINE D == DOMAIN weights
           all == Total(weights)
           raw == [w \in D |-> amount * weights[w]]
           taken == [w \in D |-> all * shares[w]]
<1>1. all \in Nat /\ all > 0
  BY TotalNat
<1>2. ASSUME NEW w \in D
      PROVE  /\ shares[w] \in Nat /\ raw[w] \in Nat /\ taken[w] \in Nat /\ taken[w] <= raw[w]
  <2>1. amount * weights[w] \in Nat
    OBVIOUS
  <2>2. shares[w] = (amount * weights[w]) \div all
    OBVIOUS
  <2> HIDE DEF all
  <2> QED BY <1>1, <2>1, <2>2, DivideNat
<1> HIDE DEF all
<1>3. Total(raw) = amount * all
  BY TotalTimes DEF all
<1>4. Total(taken) = all * Total(shares)
  BY <1>1, <1>2, TotalTimes
<1>5. Total(taken) <= Total(raw)
  BY <1>2, TotalMonotone
<1>6. Total(shares) \in Nat
  BY <1>2, TotalNat
<1>7. all * Total(shares) <= all * amount
  BY <1>1, <1>3, <1>4, <1>5
<1>8. Total(shares) <= amount
  <2> SUFFICES ASSUME amount + 1 <= Total(shares) PROVE FALSE
    BY <1>6
  <2>1. all * (Total(shares) - amount) >= all * 1
    BY <1>1, <1>6
  <2> QED BY <1>1, <1>6, <1>7, <2>1
<1> QED BY <1>2, <1>6, <1>8
=============================================================================
