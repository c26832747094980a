-------------------------- MODULE RunMetricsProofs --------------------------
(***************************************************************************)
(* Facts about the collator's ranking and its means, for every run: what   *)
(* the proofs about Collator and SitePublisher have in common.             *)
(***************************************************************************)
EXTENDS RunMetrics, FiniteSetTheorems, TLAPS

(* Of some natural numbers one is the least. *)
LEMMA FirstExists ==
    ASSUME NEW S \in SUBSET Nat, S # {}
    PROVE  \E i \in S : \A j \in S : i <= j
<1>1. \E i \in S : \A j \in S : ~(<<j, i>> \in OpToRel(<, Nat))
  BY NatLessThanWellFounded, WFMin
<1>2. \A i, j \in S : ~(<<j, i>> \in OpToRel(<, Nat)) => i <= j
  BY DEF OpToRel
<1> QED
  BY <1>1, <1>2

(* What holds of no numbers but those of a set that has 0, and with each   *)
(* number the next, holds of all: induction without a predicate.           *)
LEMMA NumberInduction ==
    ASSUME NEW Good, 0 \in Good, \A n \in Nat : n \in Good => n + 1 \in Good
    PROVE  \A n \in Nat : n \in Good
<1> DEFINE Bad == {n \in Nat : n \notin Good}
<1> SUFFICES ASSUME Bad # {} PROVE FALSE
  OBVIOUS
<1>1. Bad \in SUBSET Nat
  OBVIOUS
<1>2. PICK n \in Bad : \A m \in Bad : n <= m
  BY <1>1, FirstExists
<1>3. n \in Nat /\ n # 0
  OBVIOUS
<1>4. n - 1 \in Nat /\ n - 1 \notin Bad /\ (n - 1) + 1 = n
  BY <1>2, <1>3
<1> QED
  BY <1>4

(* The element a fold takes next. *)
Taken(s) == CHOOSE x \in s : TRUE

(* A family that has {}, and with a set less its next element the set, has *)
(* every finite set.                                                       *)
LEMMA FoldInduction ==
    ASSUME NEW T, IsFiniteSet(T), NEW Good, {} \in Good,
           \A s \in SUBSET T : s # {} /\ s \ {Taken(s)} \in Good => s \in Good
    PROVE  T \in Good
<1> DEFINE Sizes == {n \in Nat : \A s \in SUBSET T : Cardinality(s) = n => s \in Good}
<1>1. \A s \in SUBSET T : IsFiniteSet(s) /\ Cardinality(s) \in Nat
  BY FS_Subset, FS_CardinalityType
<1>2. 0 \in Sizes
  BY <1>1, FS_EmptySet
<1>3. ASSUME NEW n \in Nat, n \in Sizes PROVE n + 1 \in Sizes
  <2> SUFFICES ASSUME NEW s \in SUBSET T, Cardinality(s) = n + 1 PROVE s \in Good
    OBVIOUS
  <2> DEFINE r == s \ {Taken(s)}
  <2>1. s # {}
    BY FS_EmptySet
  <2>2. Taken(s) \in s
    BY <2>1 DEF Taken
  <2>3. r \in SUBSET T /\ Cardinality(r) = n
    BY <1>1, <2>2, FS_RemoveElement
  <2>4. r \in Good
    BY <1>3, <2>3
  <2> QED
    BY <2>1, <2>4
<1> HIDE DEF Sizes
<1>4. \A n \in Nat : n \in Sizes
  BY <1>2, <1>3, NumberInduction
<1> QED
  BY <1>1, <1>4 DEF Sizes

-----------------------------------------------------------------------------
(***************************************************************************)
(* Sums.  SumFunctionOnSet is a recursive function on the subsets of its   *)
(* indices; such a function exists, for it exists on the subsets up to any *)
(* size.                                                                   *)
(***************************************************************************)
Summand(f, g, s) == IF s = {} THEN 0 ELSE f[Taken(s)] + g[s \ {Taken(s)}]

HasSum(f, T) == \E g : g = [s \in SUBSET T |-> Summand(f, g, s)]

SumFn(f, T) == CHOOSE g : g = [s \in SUBSET T |-> Summand(f, g, s)]

(* There is such a function, *)
LEMMA SumIsDefined ==
    ASSUME NEW T, IsFiniteSet(T), NEW f
    PROVE  HasSum(f, T)
<1> DEFINE Upto(g, n) == \A s \in SUBSET T : Cardinality(s) <= n => g[s] = Summand(f, g, s)
           Good == {n \in Nat : \E g : g = [s \in SUBSET T |-> g[s]] /\ Upto(g, n)}
<1>1. \A s \in SUBSET T : IsFiniteSet(s) /\ Cardinality(s) \in Nat
  BY FS_Subset, FS_CardinalityType
<1>2. ASSUME NEW s \in SUBSET T, s # {}
      PROVE  LET r == s \ {Taken(s)}
             IN  r \in SUBSET T /\ Cardinality(r) = Cardinality(s) - 1
  BY <1>1, <1>2, FS_RemoveElement DEF Taken
<1>3. 0 \in Good
  <2> DEFINE g == [s \in SUBSET T |-> 0]
  <2>1. \A s \in SUBSET T : Cardinality(s) <= 0 => s = {}
    BY <1>1, FS_EmptySet
  <2>2. Upto(g, 0)
    BY <2>1 DEF Summand
  <2>3. g = [s \in SUBSET T |-> g[s]]
    OBVIOUS
  <2> QED
    BY <2>2, <2>3
<1>4. ASSUME NEW n \in Nat, n \in Good
      PROVE  n + 1 \in Good
  <2>1. PICK g : g = [s \in SUBSET T |-> g[s]] /\ Upto(g, n)
    BY <1>4
  <2> DEFINE h == [s \in SUBSET T |-> IF Cardinality(s) <= n THEN g[s] ELSE Summand(f, g, s)]
  <2>2. \A s \in SUBSET T : Cardinality(s) <= n => h[s] = g[s]
    OBVIOUS
  <2>3. ASSUME NEW s \in SUBSET T, Cardinality(s) <= n + 1
        PROVE  h[s] = Summand(f, h, s)
    <3>1. h[s] = Summand(f, g, s)
      BY <2>1
    <3>2. s # {} => LET r == s \ {Taken(s)} IN h[r] = g[r]
      <4> SUFFICES ASSUME s # {} PROVE LET r == s \ {Taken(s)} IN h[r] = g[r]
        OBVIOUS
      <4> DEFINE r == s \ {Taken(s)}
      <4>1. r \in SUBSET T /\ Cardinality(r) = Cardinality(s) - 1
        BY <1>2
      <4>2. Cardinality(s) \in Nat
        BY <1>1
      <4> HIDE DEF r, h
      <4>3. Cardinality(r) <= n
        BY ONLY <4>1, <4>2, <2>3, n \in Nat
      <4> QED
        BY <2>2, <4>1, <4>3 DEF r
    <3> HIDE DEF h
    <3> QED
      BY <3>1, <3>2 DEF Summand
  <2>4. h = [s \in SUBSET T |-> h[s]]
    OBVIOUS
  <2> HIDE DEF h
  <2>5. \E k : k = [s \in SUBSET T |-> k[s]] /\ Upto(k, n + 1)
    BY <2>3, <2>4
  <2> HIDE DEF Upto
  <2> QED
    BY <2>5
<1> HIDE DEF Good
<1>5. Cardinality(T) \in Good
  BY <1>1, <1>3, <1>4, NumberInduction
<1>6. PICK g : g = [s \in SUBSET T |-> g[s]] /\ Upto(g, Cardinality(T))
  BY <1>5 DEF Good
<1>7. \A s \in SUBSET T : Cardinality(s) <= Cardinality(T)
  BY FS_Subset
<1>8. g = [s \in SUBSET T |-> Summand(f, g, s)]
  BY <1>6, <1>7
<1> QED
  BY <1>8 DEF HasSum

(* and the sum is its value. *)
LEMMA SumUnfolds ==
    ASSUME NEW T, IsFiniteSet(T), NEW f
    PROVE  /\ SumFunctionOnSet(f, T) = SumFn(f, T)[T]
           /\ SumFn(f, T)[{}] = 0
           /\ \A s \in SUBSET T :
                  s # {} => SumFn(f, T)[s] = f[Taken(s)] + SumFn(f, T)[s \ {Taken(s)}]
<1>1. HasSum(f, T)
  BY SumIsDefined
<1>2. SumFn(f, T) = [s \in SUBSET T |-> Summand(f, SumFn(f, T), s)]
  BY ONLY <1>1 DEF HasSum, SumFn
<1>3. SumFunctionOnSet(f, T) = SumFn(f, T)[T]
  BY DEF SumFunctionOnSet, FoldFunctionOnSet, MapThenFoldSet, SumFn, Summand, Taken
<1> QED
  BY <1>2, <1>3 DEF Summand

(* The sum of natural numbers that are none less than lo, and none greater *)
(* than hi.                                                                *)
LEMMA SumIsBounded ==
    ASSUME NEW T, IsFiniteSet(T), NEW f, NEW lo \in Nat, NEW hi \in Nat,
           \A x \in T : f[x] \in Nat /\ lo <= f[x] /\ f[x] <= hi
    PROVE  /\ SumFunctionOnSet(f, T) \in Nat
           /\ Cardinality(T) * lo <= SumFunctionOnSet(f, T)
           /\ SumFunctionOnSet(f, T) <= Cardinality(T) * hi
<1> DEFINE g == SumFn(f, T)
           Good == {s \in SUBSET T : /\ g[s] \in Nat
                                     /\ Cardinality(s) * lo <= g[s]
                                     /\ g[s] <= Cardinality(s) * hi}
<1>1. /\ SumFunctionOnSet(f, T) = g[T] /\ g[{}] = 0
      /\ \A s \in SUBSET T : s # {} => g[s] = f[Taken(s)] + g[s \ {Taken(s)}]
  BY SumUnfolds
<1> HIDE DEF g
<1>2. {} \in Good
  BY <1>1, FS_EmptySet
<1>3. ASSUME NEW s \in SUBSET T, s # {}, s \ {Taken(s)} \in Good
      PROVE  s \in Good
  <2> DEFINE x == Taken(s)
             r == s \ {x}
             n == Cardinality(r)
  <2>1. x \in s /\ g[s] = f[x] + g[r]
    BY <1>1, <1>3 DEF Taken
  <2> HIDE DEF x
  <2>2. IsFiniteSet(s) /\ IsFiniteSet(r)
    BY FS_Subset
  <2>3. Cardinality(s) = n + 1 /\ n \in Nat
    BY <2>1, <2>2, FS_RemoveElement, FS_CardinalityType
  <2>4. g[r] \in Nat /\ n * lo <= g[r] /\ g[r] <= n * hi
    BY <1>3 DEF x
  <2>5. f[x] \in Nat /\ lo <= f[x] /\ f[x] <= hi
    BY <2>1
  <2> HIDE DEF n
  <2>6. (n + 1) * lo = n * lo + lo /\ (n + 1) * hi = n * hi + hi
    BY <2>3
  <2>7. n * lo \in Nat /\ n * hi \in Nat
    BY <2>3
  <2>8. /\ g[s] \in Nat
        /\ (n + 1) * lo <= g[s] /\ g[s] <= (n + 1) * hi
    BY <2>1, <2>4, <2>5, <2>6, <2>7
  <2> QED
    BY <2>3, <2>8
<1> HIDE DEF Good
<1>4. T \in Good
  BY <1>2, <1>3, FoldInduction
<1> QED
  BY <1>1, <1>4 DEF Good

(* The sum of natural numbers is one. *)
LEMMA SumIsNumber ==
    ASSUME NEW T, IsFiniteSet(T), NEW f, \A x \in T : f[x] \in Nat
    PROVE  SumFunctionOnSet(f, T) \in Nat
<1> DEFINE g == SumFn(f, T)
           Good == {s \in SUBSET T : g[s] \in Nat}
<1>1. /\ SumFunctionOnSet(f, T) = g[T] /\ g[{}] = 0
      /\ \A s \in SUBSET T : s # {} => g[s] = f[Taken(s)] + g[s \ {Taken(s)}]
  BY SumUnfolds
<1> HIDE DEF g
<1>2. {} \in Good
  BY <1>1
<1>3. ASSUME NEW s \in SUBSET T, s # {}, s \ {Taken(s)} \in Good
      PROVE  s \in Good
  <2>1. Taken(s) \in T
    BY <1>3 DEF Taken
  <2> QED
    BY <1>1, <1>3, <2>1
<1> HIDE DEF Good
<1>4. T \in Good
  BY <1>2, <1>3, FoldInduction
<1> QED
  BY <1>1, <1>4 DEF Good

(* A sum of one. *)
LEMMA SumOfOne ==
    ASSUME NEW x, NEW f, f[x] \in Int
    PROVE  SumFunctionOnSet(f, {x}) = f[x]
<1> DEFINE g == SumFn(f, {x})
<1>1. IsFiniteSet({x})
  BY FS_Singleton
<1>2. /\ SumFunctionOnSet(f, {x}) = g[{x}] /\ g[{}] = 0
      /\ \A s \in SUBSET {x} : s # {} => g[s] = f[Taken(s)] + g[s \ {Taken(s)}]
  BY <1>1, SumUnfolds
<1> HIDE DEF g
<1>3. g[{x}] = f[Taken({x})] + g[{x} \ {Taken({x})}]
  BY <1>2
<1>4. Taken({x}) = x /\ {x} \ {x} = {}
  BY DEF Taken
<1>5. g[{x}] = f[x] + g[{}] /\ g[{}] = 0
  BY <1>2, <1>3, <1>4
<1>6. g[{x}] = f[x]
  BY <1>5
<1> QED
  BY <1>2, <1>6

-----------------------------------------------------------------------------
(* Whole numbers and their quotients. *)
LEMMA DivisionBounds ==
    ASSUME NEW a \in Nat, NEW n \in Nat, n > 0
    PROVE  a \div n \in Nat /\ n * (a \div n) <= a /\ a < n * (a \div n) + n
OBVIOUS

(* A quotient that comes out even. *)
LEMMA EvenDivision ==
    ASSUME NEW a \in Nat, NEW n \in Nat, n > 0, a % n = 0
    PROVE  a = n * (a \div n)
OBVIOUS

(* Products with the same positive number are ordered as the other factor. *)
LEMMA FactorsAreOrdered ==
    ASSUME NEW n \in Nat, n > 0, NEW x \in Int, NEW y \in Int, n * x < n * y
    PROVE  x < y
OBVIOUS

(* A quotient lies where its dividend lies among the multiples. *)
LEMMA QuotientIsBetween ==
    ASSUME NEW a \in Nat, NEW n \in Nat, n > 0, NEW lo \in Int, NEW hi \in Int,
           n * lo <= a, a <= n * hi
    PROVE  lo <= a \div n /\ a \div n <= hi
<1> DEFINE q == a \div n
<1>1. q \in Nat /\ n * q <= a /\ a < n * q + n
  BY DivisionBounds
<1> HIDE DEF q
<1>2. n * lo < n * (q + 1) /\ n * q <= n * hi
  BY <1>1
<1> QED
  BY <1>1, <1>2, FactorsAreOrdered DEF q

(* Of two quotients that come out even, a fraction that is greater.        *)
LEMMA GreaterFraction ==
    ASSUME NEW u \in Nat, NEW v \in Nat, u > 0, v > 0, NEW a \in Nat, NEW b \in Nat,
           (100 * a) % u = 0, (100 * b) % v = 0, a * v > b * u
    PROVE  (100 * a) \div u > (100 * b) \div v
<1> DEFINE p == (100 * a) \div u
           q == (100 * b) \div v
<1>1. p \in Nat /\ q \in Nat /\ 100 * a = u * p /\ 100 * b = v * q
  BY DivisionBounds, EvenDivision
<1> HIDE DEF p, q
<1>2. (100 * a) * v > (100 * b) * u
  <2>1. 100 * (a * v) > 100 * (b * u)
    OBVIOUS
  <2> QED
    BY <2>1
<1>3. (u * v) * p > (u * v) * q
  BY <1>1, <1>2
<1>4. u * v \in Nat /\ u * v > 0
  OBVIOUS
<1> QED
  BY <1>1, <1>3, <1>4, FactorsAreOrdered DEF p, q

-----------------------------------------------------------------------------
(***************************************************************************)
(* Means.                                                                  *)
(***************************************************************************)
Quantity(v) == v \in Nat \/ v = Missing

(* The mean of natural numbers is one, if there are any, *)
LEMMA MeanIsQuantity ==
    ASSUME NEW T, IsFiniteSet(T), NEW f, \A x \in T : f[x] \in Nat
    PROVE  /\ T = {} => Mean(f, T) = Missing
           /\ T # {} => Mean(f, T) \in Nat
<1> DEFINE a == SumFunctionOnSet(f, T)
           n == Cardinality(T)
<1>1. a \in Nat
  BY SumIsNumber
<1>2. T # {} => n \in Nat /\ n > 0
  BY FS_CardinalityType, FS_EmptySet
<1>3. T # {} => Mean(f, T) = a \div n
  BY DEF Mean
<1>4. T = {} => Mean(f, T) = Missing
  BY DEF Mean
<1> HIDE DEF a, n
<1> QED
  BY <1>1, <1>2, <1>3, <1>4, DivisionBounds

(* and lies between the least and the greatest of them. *)
LEMMA MeanIsBetween ==
    ASSUME NEW T, IsFiniteSet(T), T # {}, NEW f, NEW lo \in Nat, NEW hi \in Nat,
           \A x \in T : f[x] \in Nat /\ lo <= f[x] /\ f[x] <= hi
    PROVE  lo <= Mean(f, T) /\ Mean(f, T) <= hi
<1> DEFINE a == SumFunctionOnSet(f, T)
           n == Cardinality(T)
<1>1. a \in Nat /\ n * lo <= a /\ a <= n * hi
  BY SumIsBounded
<1>2. n \in Nat /\ n > 0
  BY FS_CardinalityType, FS_EmptySet
<1>3. Mean(f, T) = a \div n
  BY DEF Mean
<1> HIDE DEF a, n
<1> QED
  BY <1>1, <1>2, <1>3, QuotientIsBetween

(* The mean of one value is that value. *)
LEMMA MeanOfOne ==
    ASSUME NEW x, NEW f, f[x] \in Int
    PROVE  Mean(f, {x}) = f[x]
<1>1. SumFunctionOnSet(f, {x}) = f[x] /\ Cardinality({x}) = 1 /\ {x} # {}
  BY SumOfOne, FS_Singleton
<1>2. Mean(f, {x}) = f[x] \div 1
  BY <1>1 DEF Mean
<1> QED
  BY <1>2

(* Of a single run there is nothing to average. *)
LEMMA MeanOfPresentOfOne ==
    ASSUME NEW v \in Int
    PROVE  MeanOfPresent(<<v>>) = v
<1> DEFINE f == <<v>>
           there == {i \in DOMAIN f : f[i] # Missing}
<1>1. DOMAIN f = {1} /\ f[1] = v
  OBVIOUS
<1>2. MeanOfPresent(f) = Mean(f, there)
  BY DEF MeanOfPresent
<1>3. CASE v = Missing
  <2>1. there = {}
    BY <1>1, <1>3
  <2> QED
    BY <1>2, <1>3, <2>1 DEF Mean
<1>4. CASE v # Missing
  <2>1. there = {1}
    BY <1>1, <1>4
  <2> QED
    BY <1>1, <1>2, <2>1, MeanOfOne
<1> QED
  BY <1>3, <1>4

(* What is there of a finite list of quantities has a mean, which is       *)
(* missing only if none is there.                                          *)
LEMMA MeanOfPresentIsQuantity ==
    ASSUME NEW f, IsFiniteSet(DOMAIN f), \A i \in DOMAIN f : Quantity(f[i])
    PROVE  /\ Quantity(MeanOfPresent(f))
           /\ MeanOfPresent(f) = Missing <=> \A i \in DOMAIN f : f[i] = Missing
<1> DEFINE there == {i \in DOMAIN f : f[i] # Missing}
<1>1. there \in SUBSET DOMAIN f /\ \A i \in there : f[i] \in Nat
  BY DEF Quantity
<1>2. MeanOfPresent(f) = Mean(f, there)
  BY DEF MeanOfPresent
<1>3. there = {} <=> \A i \in DOMAIN f : f[i] = Missing
  OBVIOUS
<1> HIDE DEF there
<1>4. IsFiniteSet(there)
  BY <1>1, FS_Subset
<1> QED
  BY <1>1, <1>2, <1>3, <1>4, MeanIsQuantity DEF Quantity, Missing

-----------------------------------------------------------------------------
(* Finite orders. *)
(* Where one is beaten by a part of those that beat another, it has the    *)
(* smaller number before it.                                               *)
LEMMA FewerBefore ==
    ASSUME NEW S, IsFiniteSet(S), NEW A \in SUBSET S, NEW B \in SUBSET S,
           A \subseteq B, NEW x \in B, x \notin A
    PROVE  Cardinality(A) \in Nat /\ Cardinality(B) \in Nat /\ Cardinality(A) < Cardinality(B)
<1>1. IsFiniteSet(A) /\ IsFiniteSet(B)
  BY FS_Subset
<1>2. Cardinality(A) \in Nat /\ Cardinality(B) \in Nat
  BY <1>1, FS_CardinalityType
<1>3. Cardinality(A) <= Cardinality(B) /\ (Cardinality(B) = Cardinality(A) => B = A)
  BY <1>1, FS_Subset
<1>4. B # A
  OBVIOUS
<1> QED
  BY ONLY <1>2, <1>3, <1>4

(* Among finitely many, a strict order R of "beats" leaves one unbeaten:   *)
(* the one that the fewest beat.                                           *)
LEMMA UnbeatenExists ==
    ASSUME NEW S, IsFiniteSet(S), S # {}, NEW R,
           \A x \in S : <<x, x>> \notin R,
           \A x, y, z \in S : <<x, y>> \in R /\ <<y, z>> \in R => <<x, z>> \in R
    PROVE  \E s \in S : \A t \in S : <<t, s>> \notin R
<1> DEFINE Above(s) == {t \in S : <<t, s>> \in R}
           Counts == {Cardinality(Above(s)) : s \in S}
<1>1. \A s \in S : Cardinality(Above(s)) \in Nat
  <2> SUFFICES ASSUME NEW s \in S PROVE Cardinality(Above(s)) \in Nat
    OBVIOUS
  <2>1. Above(s) \in SUBSET S
    OBVIOUS
  <2> HIDE DEF Above
  <2> QED
    BY <2>1, FS_Subset, FS_CardinalityType
<1> HIDE DEF Above
<1>2. Counts \in SUBSET Nat /\ Counts # {}
  BY <1>1
<1> HIDE DEF Counts
<1>3. PICK n \in Counts : \A m \in Counts : n <= m
  BY <1>2, FirstExists
<1>4. PICK s \in S : \A t \in S : Cardinality(Above(s)) <= Cardinality(Above(t))
  BY <1>3 DEF Counts
<1>5. ASSUME NEW t \in S, <<t, s>> \in R PROVE FALSE
  <2>1. Above(t) \in SUBSET S /\ Above(s) \in SUBSET S /\ Above(t) \subseteq Above(s)
    BY <1>5 DEF Above
  <2>2. t \in Above(s) /\ t \notin Above(t)
    BY <1>5 DEF Above
  <2>3. Cardinality(Above(s)) <= Cardinality(Above(t))
    BY <1>4
  <2>4. /\ Cardinality(Above(t)) < Cardinality(Above(s))
        /\ Cardinality(Above(t)) \in Nat /\ Cardinality(Above(s)) \in Nat
    BY <2>1, <2>2, FewerBefore
  <2> QED
    BY ONLY <2>3, <2>4
<1> QED
  BY <1>5

-----------------------------------------------------------------------------
(* What a key of a row holds: a number, or it is missing. *)
IsRanked(row) == row.per_stack_core \in Int /\ row.rate \in Int

(* The sort key orders rows, *)
LEMMA OutranksIsOrder ==
    ASSUME NEW a, NEW b, NEW c, IsRanked(a), IsRanked(b), IsRanked(c)
    PROVE  /\ ~Outranks(a, a)
           /\ Outranks(a, b) /\ Outranks(b, c) => Outranks(a, c)
           /\ ~Outranks(a, b) /\ ~Outranks(b, c) => ~Outranks(a, c)
<1>1. \A r \in {a, b, c} : OrZero(r.per_stack_core) \in Int /\ OrZero(r.rate) \in Int
  BY DEF IsRanked, OrZero
<1> QED
  BY <1>1 DEF Outranks

(* t comes before s in the sorted list: it outranks it, or is equal to it  *)
(* and came before it already.                                             *)
Ahead(summary, order, t, s) ==
    \/ Outranks(summary[t], summary[s])
    \/ /\ ~Outranks(summary[s], summary[t])
       /\ \E i, j \in DOMAIN order : i < j /\ order[i] = t /\ order[j] = s

(* A list of services names none twice. *)
Listing(order, S) ==
    /\ DOMAIN order \subseteq Nat
    /\ \A s \in S : \E i \in DOMAIN order : order[i] = s
    /\ \A i, j \in DOMAIN order : order[i] = order[j] => i = j

(* A stable sort is a strict total order. *)
LEMMA AheadIsTotalOrder ==
    ASSUME NEW summary, NEW order, Listing(order, DOMAIN summary),
           \A s \in DOMAIN summary : IsRanked(summary[s])
    PROVE  /\ \A s \in DOMAIN summary : ~Ahead(summary, order, s, s)
           /\ \A s, t \in DOMAIN summary :
                  s # t => Ahead(summary, order, s, t) \/ Ahead(summary, order, t, s)
           /\ \A s, t, u \in DOMAIN summary :
                  Ahead(summary, order, s, t) /\ Ahead(summary, order, t, u)
                      => Ahead(summary, order, s, u)
<1> DEFINE S == DOMAIN summary
           D == DOMAIN order
           Over(s, t) == Outranks(summary[s], summary[t])
           Earlier(s, t) == \E i, j \in D : i < j /\ order[i] = s /\ order[j] = t
<1>1. \A s, t, u \in S :
          /\ ~Over(s, s)
          /\ Over(s, t) /\ Over(t, u) => Over(s, u)
          /\ ~Over(s, t) /\ ~Over(t, u) => ~Over(s, u)
  BY OutranksIsOrder
<1>2. \A s \in S : ~Earlier(s, s)
  <2> SUFFICES ASSUME NEW i \in D, NEW j \in D, i < j, order[i] = order[j] PROVE FALSE
    OBVIOUS
  <2>1. i = j /\ i \in Nat
    BY DEF Listing
  <2> QED
    BY <2>1
<1>3. \A s, t \in S : s # t => Earlier(s, t) \/ Earlier(t, s)
  <2> SUFFICES ASSUME NEW s \in S, NEW t \in S, s # t PROVE Earlier(s, t) \/ Earlier(t, s)
    OBVIOUS
  <2>1. PICK i \in D : order[i] = s
    BY DEF Listing
  <2>2. PICK j \in D : order[j] = t
    BY DEF Listing
  <2>3. i \in Nat /\ j \in Nat /\ i # j
    BY <2>1, <2>2 DEF Listing
  <2>4. i < j \/ j < i
    BY ONLY <2>3
  <2> QED
    BY <2>1, <2>2, <2>4
<1>4. \A s, t, u \in S : Earlier(s, t) /\ Earlier(t, u) => Earlier(s, u)
  <2> SUFFICES ASSUME NEW s \in S, NEW t \in S, NEW u \in S, Earlier(s, t), Earlier(t, u)
               PROVE  Earlier(s, u)
    OBVIOUS
  <2>1. PICK i \in D, j \in D : i < j /\ order[i] = s /\ order[j] = t
    OBVIOUS
  <2>2. PICK k \in D, l \in D : k < l /\ order[k] = t /\ order[l] = u
    OBVIOUS
  <2>3. j = k
    BY <2>1, <2>2 DEF Listing
  <2>4. i \in Nat /\ j \in Nat /\ l \in Nat
    BY DEF Listing
  <2>5. i < l
    BY ONLY <2>1, <2>2, <2>3, <2>4
  <2> QED
    BY <2>1, <2>2, <2>5
<1>5. \A s, t : Ahead(summary, order, s, t) <=> Over(s, t) \/ (~Over(t, s) /\ Earlier(s, t))
  BY DEF Ahead
<1> HIDE DEF S, D, Over, Earlier
<1>6. \A s \in S : ~Ahead(summary, order, s, s)
  BY <1>1, <1>2, <1>5
<1>7. \A s, t \in S : s # t => Ahead(summary, order, s, t) \/ Ahead(summary, order, t, s)
  BY <1>3, <1>5
<1>8. \A s, t, u \in S : Ahead(summary, order, s, t) /\ Ahead(summary, order, t, u)
                             => Ahead(summary, order, s, u)
  BY <1>1, <1>4, <1>5
<1> QED
  BY <1>6, <1>7, <1>8 DEF S

(* The ranks of a summary are places: a service that comes before another  *)
(* has the smaller rank, so no two share one, and one that outranks        *)
(* another is before it whatever the names are.                            *)
THEOREM RanksArePlaces ==
    ASSUME NEW summary, IsFiniteSet(DOMAIN summary),
           NEW order, Listing(order, DOMAIN summary),
           \A s \in DOMAIN summary : IsRanked(summary[s])
    PROVE  \A s, t \in DOMAIN summary :
               LET rank(x) == Rank(summary, order, x)
               IN  /\ rank(s) \in 1..Cardinality(DOMAIN summary)
                   /\ Ahead(summary, order, s, t) => rank(s) < rank(t)
                   /\ Outranks(summary[s], summary[t]) => rank(s) < rank(t)
                   /\ s # t => rank(s) # rank(t)
<1> DEFINE S == DOMAIN summary
           A(t, s) == Ahead(summary, order, t, s)
           InFront(s) == {t \in S \ {s} : A(t, s)}
<1>1. \A s \in S : Rank(summary, order, s) = 1 + Cardinality(InFront(s))
  BY DEF Rank, Ahead
<1>2. /\ \A s \in S : ~A(s, s)
      /\ \A s, t \in S : s # t => A(s, t) \/ A(t, s)
      /\ \A s, t, u \in S : A(s, t) /\ A(t, u) => A(s, u)
  BY AheadIsTotalOrder
<1>3. \A s, t : Outranks(summary[s], summary[t]) => A(s, t)
  BY DEF Ahead
<1> HIDE DEF A
<1>4. ASSUME NEW s \in S
      PROVE  Cardinality(InFront(s)) \in Nat /\ Cardinality(InFront(s)) < Cardinality(S)
  <2>1. InFront(s) \in SUBSET S /\ S \in SUBSET S /\ s \notin InFront(s)
    OBVIOUS
  <2> HIDE DEF InFront, S
  <2> QED
    BY <2>1, FewerBefore DEF S
<1>5. ASSUME NEW s \in S, NEW t \in S, A(s, t)
      PROVE  Cardinality(InFront(s)) < Cardinality(InFront(t))
  <2>1. InFront(s) \in SUBSET S /\ InFront(t) \in SUBSET S
    OBVIOUS
  <2>2. InFront(s) \subseteq InFront(t) /\ s \in InFront(t) /\ s \notin InFront(s)
    BY <1>2, <1>5
  <2> HIDE DEF InFront
  <2> QED
    BY <2>1, <2>2, FewerBefore
<1>6. Cardinality(S) \in Nat
  BY FS_CardinalityType
<1> SUFFICES ASSUME NEW s \in S, NEW t \in S
             PROVE  /\ Rank(summary, order, s) \in 1..Cardinality(S)
                    /\ A(s, t) => Rank(summary, order, s) < Rank(summary, order, t)
                    /\ s # t => Rank(summary, order, s) # Rank(summary, order, t)
  BY <1>3 DEF A
<1> DEFINE m == Cardinality(InFront(s))
           n == Cardinality(InFront(t))
           size == Cardinality(S)
<1>7. /\ m \in Nat /\ n \in Nat /\ size \in Nat /\ m < size
      /\ Rank(summary, order, s) = 1 + m /\ Rank(summary, order, t) = 1 + n
      /\ A(s, t) => m < n
      /\ A(t, s) => n < m
      /\ s # t => A(s, t) \/ A(t, s)
  BY <1>1, <1>2, <1>4, <1>5, <1>6
<1> HIDE DEF m, n, size
<1>8. /\ Rank(summary, order, s) \in 1..size
      /\ A(s, t) => Rank(summary, order, s) < Rank(summary, order, t)
      /\ s # t => Rank(summary, order, s) # Rank(summary, order, t)
  BY ONLY <1>7
<1> QED
  BY <1>8 DEF size

-----------------------------------------------------------------------------
(***************************************************************************)
(* The rows of measured runs, and their aggregates.                        *)
(***************************************************************************)
(* The places of a sequence are finitely many. *)
LEMMA PlacesAreFinite ==
    ASSUME NEW S, NEW q \in Seq(S)
    PROVE  IsFiniteSet(DOMAIN q) /\ \A i \in DOMAIN q : q[i] \in S
<1>1. DOMAIN q = 1..Len(q) /\ Len(q) \in Nat /\ \A i \in DOMAIN q : q[i] \in S
  OBVIOUS
<1>2. IsFiniteSet(1..Len(q))
  BY <1>1, FS_Interval
<1> QED
  BY <1>1, <1>2

(* The figures of a stats file, however much of it is cut short. *)
LEMMA StatsAreQuantities ==
    ASSUME NEW lines \in Seq(Samples)
    PROVE  Quantity(SummarizeStats(lines).cpu) /\ Quantity(SummarizeStats(lines).mem)
<1> DEFINE whole == {i \in DOMAIN lines : lines[i].whole}
           cpu == [i \in DOMAIN lines |-> lines[i].cpu]
           mem == [i \in DOMAIN lines |-> lines[i].mem]
<1>1. IsFiniteSet(DOMAIN lines) /\ \A i \in DOMAIN lines : lines[i] \in Samples
  BY PlacesAreFinite
<1>2. IsFiniteSet(whole)
  BY <1>1, FS_Subset
<1>3. \A i \in whole : cpu[i] \in Nat /\ mem[i] \in Nat
  BY <1>1 DEF Samples
<1>4. SummarizeStats(lines).cpu = Mean(cpu, whole) /\ SummarizeStats(lines).mem = Mean(mem, whole)
  BY DEF SummarizeStats
<1> HIDE DEF whole, cpu, mem
<1> QED
  BY <1>2, <1>3, <1>4, MeanIsQuantity DEF Quantity

(* A ratio is a quantity: with nothing to divide by it is missing. *)
LEMMA RatioIsQuantity ==
    ASSUME NEW a \in Nat, NEW b \in Nat
    PROVE  Quantity(SafeRatio(a, b))
<1>1. b > 0 => a \div b \in Nat
  BY DivisionBounds
<1> QED
  BY <1>1 DEF SafeRatio, Quantity

(* Every key of a run's row holds a quantity. *)
LEMMA RowHasQuantities ==
    ASSUME NEW m \in Measurements, NEW limit,
           NEW key \in RowKeys, key = "per_cpu_limit" => Quantity(limit)
    PROVE  Quantity(RunRow(m, limit)[key])
<1> DEFINE receiver == SummarizeStats(m.receiver)
           kafka == SummarizeStats(m.kafka)
           cpu == OrZero(receiver.cpu) + OrZero(kafka.cpu)
           mem == OrZero(receiver.mem) + OrZero(kafka.mem)
<1>1. /\ m.rate \in Nat /\ m.latency \in Nat
      /\ m.receiver \in Seq(Samples) /\ m.kafka \in Seq(Samples)
  BY DEF Measurements
<1>2. /\ Quantity(receiver.cpu) /\ Quantity(receiver.mem)
      /\ Quantity(kafka.cpu) /\ Quantity(kafka.mem)
  BY <1>1, StatsAreQuantities
<1>3. RunRow(m, limit) =
          [rate |-> m.rate, latency |-> m.latency,
           receiver_cpu |-> receiver.cpu, receiver_mem |-> receiver.mem, kafka_cpu |-> kafka.cpu,
           per_cpu_limit |-> SafeRatio(m.rate, OrZero(limit)),
           per_receiver_core |-> SafeRatio(100 * m.rate, OrZero(receiver.cpu)),
           per_stack_core |-> SafeRatio(100 * m.rate, cpu),
           per_stack_gib |-> SafeRatio(m.rate, mem)]
  BY DEF RunRow
<1> HIDE DEF receiver, kafka
<1>4. \A v : Quantity(v) => OrZero(v) \in Nat
  BY DEF Quantity, OrZero, Missing
<1>5. cpu \in Nat /\ mem \in Nat
  <2>1. /\ OrZero(receiver.cpu) \in Nat /\ OrZero(receiver.mem) \in Nat
        /\ OrZero(kafka.cpu) \in Nat /\ OrZero(kafka.mem) \in Nat
    BY <1>2, <1>4
  <2> QED
    BY <2>1
<1> HIDE DEF cpu, mem
<1>6. 100 * m.rate \in Nat
  BY <1>1
<1>7. /\ key = "per_cpu_limit" => Quantity(SafeRatio(m.rate, OrZero(limit)))
      /\ Quantity(SafeRatio(100 * m.rate, OrZero(receiver.cpu)))
      /\ Quantity(SafeRatio(100 * m.rate, cpu)) /\ Quantity(SafeRatio(m.rate, mem))
  BY <1>1, <1>2, <1>4, <1>5, <1>6, RatioIsQuantity
<1>8. Quantity(m.rate) /\ Quantity(m.latency)
  BY <1>1 DEF Quantity
<1> QED
  BY <1>2, <1>3, <1>7, <1>8 DEF RowKeys

(* An aggregate has a figure exactly if a run of the service has it, and   *)
(* the figure lies between the least and the greatest of the runs': what   *)
(* the collator publishes as _avg is within its _min and its _max.         *)
THEOREM AggregateIsBetween ==
    ASSUME NEW measured \in Seq(Measurements), NEW limit,
           NEW key \in RowKeys, key = "per_cpu_limit" => Quantity(limit)
    PROVE  LET of(i) == RunRow(measured[i], limit)[key]
               all == Aggregate([i \in DOMAIN measured |-> RunRow(measured[i], limit)])[key]
           IN  /\ Quantity(all)
               /\ all = Missing <=> \A i \in DOMAIN measured : of(i) = Missing
               /\ \A lo, hi \in Nat :
                      (\A i \in DOMAIN measured : of(i) # Missing => lo <= of(i) /\ of(i) <= hi)
                      => all = Missing \/ (lo <= all /\ all <= hi)
<1> DEFINE of == [i \in DOMAIN measured |-> RunRow(measured[i], limit)[key]]
           all == Aggregate([i \in DOMAIN measured |-> RunRow(measured[i], limit)])[key]
           there == {i \in DOMAIN of : of[i] # Missing}
<1>1. IsFiniteSet(DOMAIN measured) /\ \A i \in DOMAIN measured : measured[i] \in Measurements
  BY PlacesAreFinite
<1>2. \A i \in DOMAIN of : Quantity(of[i])
  BY <1>1, RowHasQuantities
<1>3. all = MeanOfPresent(of)
  BY DEF Aggregate
<1>4. DOMAIN of = DOMAIN measured
      /\ \A i \in DOMAIN measured : of[i] = RunRow(measured[i], limit)[key]
  OBVIOUS
<1> HIDE DEF of, all
<1>5. Quantity(all) /\ (all = Missing <=> \A i \in DOMAIN of : of[i] = Missing)
  BY <1>1, <1>2, <1>3, <1>4, MeanOfPresentIsQuantity
<1>6. ASSUME NEW lo \in Nat, NEW hi \in Nat,
             \A i \in DOMAIN of : of[i] # Missing => lo <= of[i] /\ of[i] <= hi
      PROVE  all = Missing \/ (lo <= all /\ all <= hi)
  <2>1. all = Mean(of, there)
    BY <1>3 DEF MeanOfPresent
  <2>2. there = {} => all = Missing
    BY <2>1 DEF Mean
  <2>3. /\ there \in SUBSET DOMAIN of
        /\ \A i \in there : of[i] \in Nat /\ lo <= of[i] /\ of[i] <= hi
    BY <1>2, <1>6 DEF Quantity
  <2> HIDE DEF there
  <2>4. IsFiniteSet(there)
    BY <1>1, <1>4, <2>3, FS_Subset
  <2> QED
    BY <2>1, <2>2, <2>3, <2>4, MeanIsBetween
<1>7. /\ Quantity(all) /\ (all = Missing <=> \A i \in DOMAIN measured : of[i] = Missing)
      /\ \A lo, hi \in Nat :
            (\A i \in DOMAIN measured : of[i] # Missing => lo <= of[i] /\ of[i] <= hi)
            => all = Missing \/ (lo <= all /\ all <= hi)
  BY <1>4, <1>5, <1>6
<1> QED
  BY <1>4, <1>7 DEF all

(* The aggregate of one run is its row. *)
LEMMA AggregateOfOne ==
    ASSUME NEW measured \in Seq(Measurements), Len(measured) = 1,
           NEW limit, NEW key \in RowKeys, RunRow(measured[1], limit)[key] \in Int
    PROVE  Aggregate([i \in DOMAIN measured |-> RunRow(measured[i], limit)])[key]
               = RunRow(measured[1], limit)[key]
<1> DEFINE v == RunRow(measured[1], limit)[key]
           rows == [i \in DOMAIN measured |-> RunRow(measured[i], limit)]
<1>1. DOMAIN measured = {1}
  OBVIOUS
<1>2. [i \in DOMAIN rows |-> rows[i][key]] = [i \in {1} |-> v]
  BY <1>1
<1>3. Aggregate(rows)[key] = MeanOfPresent([i \in DOMAIN rows |-> rows[i][key]])
  BY DEF Aggregate
<1> HIDE DEF v, rows
<1>4. [i \in {1} |-> v] = <<v>>
  OBVIOUS
<1> QED
  BY <1>2, <1>3, <1>4, MeanOfPresentOfOne DEF v, rows
=============================================================================
