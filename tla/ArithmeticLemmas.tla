--------------------------- MODULE ArithmeticLemmas ---------------------------
(***************************************************************************)
(* Arithmetic that the proofs about the models share: remainders,          *)
(* functions that recursion over the natural numbers defines, and the sum  *)
(* of a function over a finite set as the models write it.  The library    *)
(* defines it by a recursive function that CHOOSE selects: the lemmas show *)
(* that there is one, and what it does when the set grows or the function  *)
(* changes at one place.  Inductions over finite sets are written as the   *)
(* choice of a minimal counterexample.                                     *)
(***************************************************************************)
EXTENDS Integers, FiniteSets, Functions, FiniteSetTheorems, WellFoundedInduction, TLAPS

\* Quotient and remainder.
LEMMA DivMod ==
    ASSUME NEW a \in Int, NEW M \in Nat \ {0}
    PROVE  /\ a % M \in 0 .. (M - 1)
           /\ a = M * (a \div M) + (a % M)
           /\ a \div M \in Int
  OBVIOUS

\* Remainders do not differ by a multiple of the modulus.
LEMMA CloseMultiple ==
    ASSUME NEW M \in Nat \ {0}, NEW k \in Int, NEW r \in 0 .. (M - 1), NEW s \in 0 .. (M - 1),
           r - s = M * k
    PROVE  k = 0
<1>1. CASE k >= 1
  <2>1. M * k >= M
    BY <1>1, SMTT(20)
  <2> QED
    BY <2>1
<1>2. CASE k <= -1
  <2>1. M * k <= -M
    BY <1>2, SMTT(20)
  <2> QED
    BY <2>1
<1> QED
  BY <1>1, <1>2

\* The modulus may be applied to a term of a sum first.
LEMMA ModAdd ==
    ASSUME NEW a \in Int, NEW b \in Int, NEW M \in Nat \ {0}
    PROVE  ((a % M) + b) % M = (a + b) % M
<1> DEFINE q == a \div M
           r == a % M
           x == (r + b) \div M
           y == (a + b) \div M
           s == (r + b) % M
           t == (a + b) % M
<1>1. a = M * q + r /\ q \in Int /\ r \in Int
  BY DivMod
<1>2. r + b = M * x + s /\ x \in Int /\ s \in 0 .. (M - 1)
  <2>1. r + b \in Int
    BY <1>1
  <2> HIDE DEF r
  <2> QED
    BY <2>1, DivMod
<1>3. a + b = M * y + t /\ y \in Int /\ t \in 0 .. (M - 1)
  BY DivMod
<1> HIDE DEF q, r, x, y, s, t
<1>4. t - s = M * (q + x - y)
  <2>1. M * (q + x - y) = M * q + M * x - M * y
    BY <1>1, <1>2, <1>3
  <2>2. M * q \in Int /\ M * x \in Int /\ M * y \in Int
    BY <1>1, <1>2, <1>3
  <2> QED
    BY <1>1, <1>2, <1>3, <2>1, <2>2
<1>5. q + x - y = 0
  BY <1>1, <1>2, <1>3, <1>4, CloseMultiple
<1>6. t = s
  BY <1>4, <1>5, <1>2, <1>3
<1> QED
  BY <1>6 DEF s, t, r

\* A reduced number is its own remainder.
LEMMA ModSmall ==
    ASSUME NEW M \in Nat \ {0}, NEW a \in 0 .. (M - 1)
    PROVE  a % M = a
  OBVIOUS

\* A multiple of the modulus does not change the remainder.
LEMMA ModPlus ==
    ASSUME NEW a \in Int, NEW M \in Nat \ {0}
    PROVE  (a + M) % M = a % M
<1>1. M % M = 0 /\ M \in Int
  OBVIOUS
<1>2. ((M % M) + a) % M = (M + a) % M
  BY <1>1, ModAdd
<1>3. (M % M) + a = a /\ M + a = a + M
  BY <1>1
<1> QED
  BY <1>2, <1>3
-----------------------------------------------------------------------------
\* Multiples of a sum.
LEMMA OneMore ==
    ASSUME NEW W \in Nat, NEW a \in Nat, NEW b \in Nat
    PROVE  (a + b) * W = a * W + b * W /\ a * W \in Nat /\ (a + 1) * W = a * W + W /\ 1 * W = W
  OBVIOUS

\* Multiples of different numbers differ by one multiplier at least.
LEMMA Multiples ==
    ASSUME NEW k \in Nat, NEW a \in Nat, NEW b \in Nat, a < b
    PROVE  /\ a * k \in Nat /\ b * k \in Nat
           /\ (a + 1) * k = a * k + k
           /\ a * k + k <= b * k
<1>1. PICK d \in Nat : b = a + 1 + d
  <2>1. b - a - 1 \in Nat /\ b = a + 1 + (b - a - 1)
    OBVIOUS
  <2> QED
    BY <2>1
<1>2. b * k = a * k + k + d * k /\ d * k \in Nat /\ a * k \in Nat
  BY <1>1
<1> QED
  BY <1>2

\* A quotient is the number of whole divisors.
LEMMA Quotient ==
    ASSUME NEW k \in Nat \ {0}, NEW a \in Nat
    PROVE  /\ a \div k \in Nat /\ a % k \in 0 .. (k - 1)
           /\ a = (a \div k) * k + (a % k) /\ (a \div k) * k \in Nat
<1>1. a % k \in 0 .. (k - 1) /\ a = k * (a \div k) + (a % k) /\ a \div k \in Int
  BY DivMod
<1> DEFINE q == a \div k
<1> HIDE DEF q
<1>2. q >= 0
  <2> SUFFICES ASSUME q < 0 PROVE FALSE
    BY <1>1 DEF q
  <2>1. - q \in Nat \ {0} /\ k * q = - (k * (- q))
    BY <1>1 DEF q
  <2>2. 0 < - q
    BY <2>1
  <2>3. 0 * k + k <= (- q) * k
    BY <2>1, <2>2, Multiples
  <2>4. k * (- q) >= k
    BY <2>1, <2>3
  <2> QED
    BY <1>1, <2>1, <2>4 DEF q
<1>3. q * k = k * q /\ q * k \in Nat
  BY <1>1, <1>2 DEF q
<1> QED
  BY <1>1, <1>2, <1>3 DEF q

\* Quotients are in the order of the numbers.
LEMMA QuotientOrder ==
    ASSUME NEW k \in Nat \ {0}, NEW a \in Nat, NEW b \in Nat, a <= b
    PROVE  a \div k <= b \div k
<1> DEFINE p == a \div k
           q == b \div k
<1>1. /\ p \in Nat /\ a % k \in 0 .. (k - 1) /\ a = p * k + (a % k) /\ p * k \in Nat
      /\ q \in Nat /\ b % k \in 0 .. (k - 1) /\ b = q * k + (b % k) /\ q * k \in Nat
  BY Quotient
<1> HIDE DEF p, q
<1>2. SUFFICES ASSUME q < p PROVE FALSE
  BY <1>1 DEF p, q
<1>3. q * k + k <= p * k
  BY <1>1, <1>2, Multiples
<1> QED
  BY <1>1, <1>3
-----------------------------------------------------------------------------
\* Induction over the natural numbers, for a set of them.
LEMMA NatSetInduction ==
    ASSUME NEW T \in SUBSET Nat, 0 \in T, \A n \in T : n + 1 \in T
    PROVE  T = Nat
<1> DEFINE less == {ss \in Nat \X Nat : ss[1] < ss[2]}
           R == Nat \ T
<1>1. IsWellFoundedOn(less, Nat)
  BY NatLessThanWellFounded DEF OpToRel
<1>2. SUFFICES ASSUME R /= {} PROVE FALSE
  OBVIOUS
<1>3. PICK m \in R : \A k \in R : ~ (<<k, m>> \in less)
  <2>1. R \in SUBSET Nat
    OBVIOUS
  <2> HIDE DEF R, less
  <2> QED
    BY <1>1, <1>2, <2>1, WFMin
<1>4. m \in Nat /\ m /= 0 /\ m - 1 \in Nat
  BY <1>3
<1>5. m - 1 \in T
  <2>1. <<m - 1, m>> \in less
    BY <1>4
  <2>2. m - 1 \notin R
    BY <1>3, <2>1
  <2> QED
    BY <1>4, <2>2
<1>6. (m - 1) + 1 = m
  BY <1>4
<1> QED
  BY <1>3, <1>5, <1>6

\* h starts at b and takes steps of F, up to m.
Steps(h, b, F, m) ==
    /\ h[0] = b
    /\ \A i \in 0 .. (m - 1) : h[i + 1] = F[<<i, h[i]>>]

\* Every finite number of steps can be taken.
LEMMA StepsExist ==
    ASSUME NEW b, NEW F
    PROVE  \A m \in Nat : \E h : Steps(h, b, F, m)
<1> DEFINE T == {m \in Nat : \E h : Steps(h, b, F, m)}
<1>1. 0 \in T
  <2> DEFINE h == [i \in 0 .. 0 |-> b]
  <2>1. h[0] = b
    OBVIOUS
  <2>2. Steps(h, b, F, 0)
    BY <2>1 DEF Steps
  <2> QED
    BY <2>2
<1>2. ASSUME NEW m \in T PROVE m + 1 \in T
  <2>1. m \in Nat
    OBVIOUS
  <2>2. PICK h : Steps(h, b, F, m)
    OBVIOUS
  <2> DEFINE k == [i \in 0 .. (m + 1) |-> IF i = m + 1 THEN F[<<m, h[m]>>] ELSE h[i]]
  <2>3. h[0] = b /\ \A i \in 0 .. (m - 1) : h[i + 1] = F[<<i, h[i]>>]
    BY <2>2 DEF Steps
  <2>5. /\ \A i \in 0 .. m : k[i] = h[i]
        /\ k[m + 1] = F[<<m, h[m]>>]
    BY <2>1
  <2> HIDE DEF k
  <2>7. k[0] = b
    BY <2>1, <2>3, <2>5
  <2>8. ASSUME NEW i \in 0 .. m PROVE k[i + 1] = F[<<i, k[i]>>]
    <3>1. CASE i = m
      BY <2>1, <2>5, <3>1
    <3>2. CASE i /= m
      <4>1. i \in 0 .. (m - 1) /\ i + 1 \in 0 .. m
        BY <2>1, <3>2
      <4> QED
        BY <2>3, <2>5, <4>1
    <3> QED
      BY <3>1, <3>2
  <2>9. m + 1 \in Nat /\ (m + 1) - 1 = m
    BY <2>1
  <2>10. Steps(k, b, F, m + 1)
    BY <2>7, <2>8, <2>9 DEF Steps
  <2> QED
    BY <2>9, <2>10
<1>3. T \in SUBSET Nat
  OBVIOUS
<1>4. T = Nat
  <2> HIDE DEF T
  <2> QED
    BY <1>1, <1>2, <1>3, NatSetInduction
<1> QED
  BY <1>4

\* However many steps are taken, the first ones lead to the same.
LEMMA StepsAgree ==
    ASSUME NEW b, NEW F,
           NEW m \in Nat, NEW n \in Nat, m <= n,
           NEW h, Steps(h, b, F, m), NEW k, Steps(k, b, F, n)
    PROVE  h[m] = k[m]
<1> DEFINE T == {i \in Nat : i <= m => h[i] = k[i]}
<1>1. 0 \in T
  BY DEF Steps
<1>2. ASSUME NEW i \in T PROVE i + 1 \in T
  <2> SUFFICES ASSUME i + 1 <= m PROVE h[i + 1] = k[i + 1]
    OBVIOUS
  <2>1. i \in 0 .. (m - 1) /\ i \in 0 .. (n - 1) /\ h[i] = k[i]
    OBVIOUS
  <2> QED
    BY <2>1 DEF Steps
<1>3. T \in SUBSET Nat
  OBVIOUS
<1>4. T = Nat
  <2> HIDE DEF T
  <2> QED
    BY <1>1, <1>2, <1>3, NatSetInduction
<1> QED
  BY <1>4

StepsForever(g, b, F) == g[0] = b /\ \A n \in Nat : g[n + 1] = F[<<n, g[n]>>]

\* A start and a step define a function.
LEMMA Recursion ==
    ASSUME NEW b, NEW F
    PROVE  \E g : StepsForever(g, b, F)
<1> DEFINE h(m) == CHOOSE k : Steps(k, b, F, m)
           g == [m \in Nat |-> h(m)[m]]
<1>1. ASSUME NEW m \in Nat PROVE Steps(h(m), b, F, m)
  BY StepsExist
<1>2. \A m \in Nat : g[m] = h(m)[m]
  OBVIOUS
<1> HIDE DEF h, g
<1>4. g[0] = b
  BY <1>1, <1>2 DEF Steps
<1>5. ASSUME NEW n \in Nat PROVE g[n + 1] = F[<<n, g[n]>>]
  <2>1. n + 1 \in Nat /\ n <= n + 1 /\ n \in 0 .. ((n + 1) - 1)
    OBVIOUS
  <2>2. h(n + 1)[n + 1] = F[<<n, h(n + 1)[n]>>]
    BY <1>1, <2>1 DEF Steps
  <2>3. Steps(h(n), b, F, n) /\ Steps(h(n + 1), b, F, n + 1)
    BY <1>1, <2>1
  <2>4. h(n)[n] = h(n + 1)[n]
    <3>1. ASSUME NEW p \in Nat, n <= p, NEW x, NEW y,
                 Steps(x, b, F, n), Steps(y, b, F, p)
          PROVE  x[n] = y[n]
      BY <3>1, StepsAgree
    <3> QED
      BY <2>1, <2>3, <3>1
  <2> QED
    BY <1>2, <2>1, <2>2, <2>4
<1> QED
  BY <1>4, <1>5 DEF StepsForever
-----------------------------------------------------------------------------
SumOn(f, S) == FoldFunctionOnSet(+, 0, f, S)

Pick(s) == CHOOSE x \in s : TRUE

\* g adds up f over every subset of S.
Adds(g, f, S) ==
    g = [s \in SUBSET S |-> IF s = {} THEN 0 ELSE f[Pick(s)] + g[s \ {Pick(s)}]]

\* A sum is the value of the recursion behind FoldFunctionOnSet.
LEMMA SumUnfold ==
    ASSUME NEW f, NEW S
    PROVE  SumOn(f, S) = (CHOOSE g : Adds(g, f, S))[S]
  BY DEF SumOn, FoldFunctionOnSet, MapThenFoldSet, Pick, Adds

\* A non-empty set of subsets of a finite set has a minimal element.
LEMMA MinimalSubset ==
    ASSUME NEW S, IsFiniteSet(S), NEW T \in SUBSET SUBSET S, T /= {}
    PROVE  \E x \in T : \A y \in T : y \subseteq x => y = x
<1>1. FiniteSubsetsOf(S) = SUBSET S
  BY FS_FiniteSubsetsOfFinite
<1>2. IsWellFoundedOn(StrictSubsetOrdering(S), SUBSET S)
  BY <1>1, FS_StrictSubsetOrderingWellFounded
<1>3. \E x \in T : \A y \in T : ~ (<<y, x>> \in StrictSubsetOrdering(S))
  BY <1>2, WFMin
<1> QED
  BY <1>3 DEF StrictSubsetOrdering

\* Pick chooses an element.
LEMMA PickIn == ASSUME NEW S, S /= {} PROVE Pick(S) \in S
  BY DEF Pick

\* The two cases of the recursion.
LEMMA AddsAt ==
    ASSUME NEW f, NEW S, NEW g, Adds(g, f, S), NEW s \in SUBSET S
    PROVE  /\ s = {} => g[s] = 0
           /\ s /= {} => g[s] = f[Pick(s)] + g[s \ {Pick(s)}]
  BY DEF Adds

\* Two such functions agree where both are defined.
LEMMA AddsAgree ==
    ASSUME NEW f, NEW S, IsFiniteSet(S), NEW R \in SUBSET S,
           NEW g, Adds(g, f, S), NEW h, Adds(h, f, R)
    PROVE  g[R] = h[R]
<1> DEFINE T == {s \in SUBSET R : g[s] /= h[s]}
<1>1. SUFFICES ASSUME T /= {} PROVE FALSE
  OBVIOUS
<1>2. IsFiniteSet(R)
  BY FS_Subset
<1>3. PICK x \in T : \A y \in T : y \subseteq x => y = x
  <2>1. T \in SUBSET SUBSET R
    OBVIOUS
  <2> HIDE DEF T
  <2> QED
    BY <1>1, <1>2, <2>1, MinimalSubset
<1>4. x \in SUBSET R /\ x \in SUBSET S /\ g[x] /= h[x]
  BY <1>3
<1>5. x /= {}
  BY <1>4, AddsAt
<1>6. Pick(x) \in x
  BY <1>5, PickIn
<1>7. g[x \ {Pick(x)}] = h[x \ {Pick(x)}]
  BY <1>3, <1>4, <1>6
<1> QED
  BY <1>4, <1>5, <1>7, AddsAt

\* Restricting such a function to the subsets of a subset.
LEMMA AddsRestricted ==
    ASSUME NEW f, NEW S, NEW R \in SUBSET S, NEW g, Adds(g, f, S)
    PROVE  Adds([s \in SUBSET R |-> g[s]], f, R)
<1> DEFINE h == [s \in SUBSET R |-> g[s]]
<1>1. ASSUME NEW s \in SUBSET R
      PROVE  h[s] = IF s = {} THEN 0 ELSE f[Pick(s)] + h[s \ {Pick(s)}]
  <2>1. s \in SUBSET S /\ s \ {Pick(s)} \in SUBSET R
    OBVIOUS
  <2>2. h[s] = g[s] /\ h[s \ {Pick(s)}] = g[s \ {Pick(s)}]
    BY <2>1
  <2> HIDE DEF h
  <2> QED
    BY <2>1, <2>2, AddsAt
<1> QED
  BY <1>1 DEF Adds

\* Where there is such a function, the sum is what it says.
LEMMA SumByAdds ==
    ASSUME NEW f, NEW S, IsFiniteSet(S), NEW g, Adds(g, f, S), NEW R \in SUBSET S
    PROVE  SumOn(f, R) = g[R]
<1> DEFINE c == CHOOSE h : Adds(h, f, R)
<1>1. Adds(c, f, R)
  BY AddsRestricted
<1>2. SumOn(f, R) = c[R]
  BY SumUnfold
<1> HIDE DEF c
<1> QED
  BY <1>1, <1>2, AddsAgree

\* There is one for every finite set.
LEMMA AddsExists ==
    ASSUME NEW f, NEW S, IsFiniteSet(S)
    PROVE  \E g : Adds(g, f, S)
<1> DEFINE T == {s \in SUBSET S : ~ \E g : Adds(g, f, s)}
<1>1. SUFFICES ASSUME T /= {} PROVE FALSE
  OBVIOUS
<1>2. PICK x \in T : \A y \in T : y \subseteq x => y = x
  <2>1. T \in SUBSET SUBSET S
    OBVIOUS
  <2> HIDE DEF T
  <2> QED
    BY <1>1, <2>1, MinimalSubset
<1>3. x \in SUBSET S /\ ~ \E g : Adds(g, f, x)
  BY <1>2
<1>4. ASSUME NEW t \in SUBSET x, t /= x
      PROVE  SumOn(f, t) = IF t = {} THEN 0 ELSE f[Pick(t)] + SumOn(f, t \ {Pick(t)})
  <2>1. PICK g : Adds(g, f, t)
    BY <1>2, <1>3, <1>4
  <2>2. IsFiniteSet(t)
    BY <1>3, FS_Subset
  <2>3. SumOn(f, t) = g[t] /\ SumOn(f, t \ {Pick(t)}) = g[t \ {Pick(t)}]
    BY <2>1, <2>2, SumByAdds
  <2> QED
    BY <2>1, <2>3, AddsAt
<1> DEFINE h == [s \in SUBSET x |-> IF s = {} THEN 0 ELSE f[Pick(s)] + SumOn(f, s \ {Pick(s)})]
<1>5. ASSUME NEW s \in SUBSET x
      PROVE  h[s] = IF s = {} THEN 0 ELSE f[Pick(s)] + h[s \ {Pick(s)}]
  <2>1. CASE s = {}
    BY <2>1
  <2>2. CASE s /= {}
    <3>1. Pick(s) \in s
      BY <2>2, PickIn
    <3> DEFINE t == s \ {Pick(s)}
    <3>2. t \in SUBSET x /\ t /= x
      BY <3>1
    <3>3. h[t] = IF t = {} THEN 0 ELSE f[Pick(t)] + SumOn(f, t \ {Pick(t)})
      BY <3>2
    <3>4. h[t] = SumOn(f, t)
      <4> HIDE DEF t, h
      <4> QED
        BY <1>4, <3>2, <3>3
    <3> QED
      BY <2>2, <3>4
  <2> QED
    BY <2>1, <2>2
<1>6. Adds(h, f, x)
  BY <1>5 DEF Adds
<1> QED
  BY <1>3, <1>6

\* The sum over nothing is zero.
LEMMA SumEmpty == ASSUME NEW f PROVE SumOn(f, {}) = 0
<1>1. IsFiniteSet({})
  BY FS_EmptySet
<1>2. PICK g : Adds(g, f, {})
  BY <1>1, AddsExists
<1>3. SumOn(f, {}) = g[{}]
  BY <1>1, <1>2, SumByAdds
<1> QED
  BY <1>2, <1>3, AddsAt

\* A sum is one term and the sum of the others.
LEMMA SumPick ==
    ASSUME NEW f, NEW S, IsFiniteSet(S), S /= {}
    PROVE  SumOn(f, S) = f[Pick(S)] + SumOn(f, S \ {Pick(S)})
<1>1. PICK g : Adds(g, f, S)
  BY AddsExists
<1>2. SumOn(f, S) = g[S] /\ SumOn(f, S \ {Pick(S)}) = g[S \ {Pick(S)}]
  BY <1>1, SumByAdds
<1>3. S \in SUBSET S /\ g[S] = f[Pick(S)] + g[S \ {Pick(S)}]
  BY <1>1, AddsAt
<1> QED
  BY <1>2, <1>3

\* The sum of integers is an integer.
LEMMA SumType ==
    ASSUME NEW f, NEW S, IsFiniteSet(S), \A x \in S : f[x] \in Int
    PROVE  SumOn(f, S) \in Int
<1> DEFINE T == {s \in SUBSET S : SumOn(f, s) \notin Int}
<1>1. SUFFICES ASSUME T /= {} PROVE FALSE
  OBVIOUS
<1>2. PICK x \in T : \A y \in T : y \subseteq x => y = x
  <2>1. T \in SUBSET SUBSET S
    OBVIOUS
  <2> HIDE DEF T
  <2> QED
    BY <1>1, <2>1, MinimalSubset
<1>3. x \in SUBSET S /\ SumOn(f, x) \notin Int
  BY <1>2
<1>4. x /= {}
  BY <1>3, SumEmpty
<1>5. Pick(x) \in x /\ IsFiniteSet(x)
  BY <1>3, <1>4, PickIn, FS_Subset
<1>6. SumOn(f, x \ {Pick(x)}) \in Int
  BY <1>2, <1>3, <1>5
<1>7. SumOn(f, x) = f[Pick(x)] + SumOn(f, x \ {Pick(x)})
  BY <1>4, <1>5, SumPick
<1>8. f[Pick(x)] \in Int
  BY <1>3, <1>5
<1> QED
  BY <1>3, <1>6, <1>7, <1>8

\* The sum of natural numbers is a natural number.
LEMMA SumNat ==
    ASSUME NEW f, NEW S, IsFiniteSet(S), \A x \in S : f[x] \in Nat
    PROVE  SumOn(f, S) \in Nat
<1> DEFINE T == {s \in SUBSET S : SumOn(f, s) \notin Nat}
<1>1. SUFFICES ASSUME T /= {} PROVE FALSE
  OBVIOUS
<1>2. PICK x \in T : \A y \in T : y \subseteq x => y = x
  <2>1. T \in SUBSET SUBSET S
    OBVIOUS
  <2> HIDE DEF T
  <2> QED
    BY <1>1, <2>1, MinimalSubset
<1>3. x \in SUBSET S /\ SumOn(f, x) \notin Nat
  BY <1>2
<1>4. x /= {}
  BY <1>3, SumEmpty
<1>5. Pick(x) \in x /\ IsFiniteSet(x)
  BY <1>3, <1>4, PickIn, FS_Subset
<1>6. SumOn(f, x \ {Pick(x)}) \in Nat
  BY <1>2, <1>3, <1>5
<1>7. SumOn(f, x) = f[Pick(x)] + SumOn(f, x \ {Pick(x)})
  BY <1>4, <1>5, SumPick
<1>8. f[Pick(x)] \in Nat
  BY <1>3, <1>5
<1> QED
  BY <1>3, <1>6, <1>7, <1>8

\* The sum does not depend on the order: any element can be taken out first.
LEMMA SumAny ==
    ASSUME NEW f, NEW S, IsFiniteSet(S), \A x \in S : f[x] \in Int, NEW a \in S
    PROVE  SumOn(f, S) = f[a] + SumOn(f, S \ {a})
<1> DEFINE T == {s \in SUBSET S : \E b \in s : SumOn(f, s) /= f[b] + SumOn(f, s \ {b})}
<1>1. SUFFICES ASSUME T /= {} PROVE FALSE
  OBVIOUS
<1>2. PICK x \in T : \A y \in T : y \subseteq x => y = x
  <2>1. T \in SUBSET SUBSET S
    OBVIOUS
  <2> HIDE DEF T
  <2> QED
    BY <1>1, <2>1, MinimalSubset
<1>3. PICK b \in x : SumOn(f, x) /= f[b] + SumOn(f, x \ {b})
  BY <1>2
<1> DEFINE p == Pick(x)
<1>4. x \in SUBSET S /\ p \in x /\ IsFiniteSet(x)
  BY <1>2, PickIn, FS_Subset
<1>5. SumOn(f, x) = f[p] + SumOn(f, x \ {p})
  BY <1>4, SumPick
<1>6. p /= b
  BY <1>3, <1>5
<1> HIDE DEF p
<1>7. ASSUME NEW y \in SUBSET x, y /= x, NEW d \in y
      PROVE  SumOn(f, y) = f[d] + SumOn(f, y \ {d})
  BY <1>2, <1>4, <1>7
<1>8. SumOn(f, x \ {p}) = f[b] + SumOn(f, (x \ {p}) \ {b})
  <2>1. x \ {p} \in SUBSET x /\ x \ {p} /= x /\ b \in x \ {p}
    BY <1>3, <1>4, <1>6
  <2> QED
    BY <2>1, <1>7
<1>9. SumOn(f, x \ {b}) = f[p] + SumOn(f, (x \ {b}) \ {p})
  <2>1. x \ {b} \in SUBSET x /\ x \ {b} /= x /\ p \in x \ {b}
    BY <1>3, <1>4, <1>6
  <2> QED
    BY <2>1, <1>7
<1>10. (x \ {p}) \ {b} = (x \ {b}) \ {p}
  OBVIOUS
<1>11. f[p] \in Int /\ f[b] \in Int
  BY <1>3, <1>4
<1>12. SumOn(f, (x \ {b}) \ {p}) \in Int
  <2>1. IsFiniteSet((x \ {b}) \ {p}) /\ \A z \in (x \ {b}) \ {p} : f[z] \in Int
    BY <1>4, FS_Subset
  <2> QED
    BY <2>1, SumType
<1> QED
  <2> DEFINE r == SumOn(f, (x \ {b}) \ {p})
  <2>1. SumOn(f, x) = f[p] + (f[b] + r) /\ SumOn(f, x \ {b}) = f[p] + r /\ r \in Int
    BY <1>5, <1>8, <1>9, <1>10, <1>12
  <2> HIDE DEF r
  <2> QED
    BY <2>1, <1>3, <1>11

\* The set grows by one element.
LEMMA SumAdd ==
    ASSUME NEW f, NEW S, IsFiniteSet(S), \A x \in S : f[x] \in Int,
           NEW a, a \notin S, f[a] \in Int
    PROVE  SumOn(f, S \cup {a}) = f[a] + SumOn(f, S)
<1>1. IsFiniteSet(S \cup {a})
  BY FS_AddElement
<1>2. (S \cup {a}) \ {a} = S
  OBVIOUS
<1> QED
  BY <1>1, <1>2, SumAny

\* The sum depends on the values on the set only.
LEMMA SumExt ==
    ASSUME NEW S, IsFiniteSet(S), NEW f, NEW g, \A x \in S : f[x] = g[x]
    PROVE  SumOn(f, S) = SumOn(g, S)
<1> DEFINE T == {s \in SUBSET S : SumOn(f, s) /= SumOn(g, s)}
<1>1. SUFFICES ASSUME T /= {} PROVE FALSE
  OBVIOUS
<1>2. PICK x \in T : \A y \in T : y \subseteq x => y = x
  <2>1. T \in SUBSET SUBSET S
    OBVIOUS
  <2> HIDE DEF T
  <2> QED
    BY <1>1, <2>1, MinimalSubset
<1>3. x \in SUBSET S /\ SumOn(f, x) /= SumOn(g, x)
  BY <1>2
<1>4. x /= {}
  BY <1>3, SumEmpty
<1>5. Pick(x) \in x /\ IsFiniteSet(x)
  BY <1>3, <1>4, PickIn, FS_Subset
<1>6. SumOn(f, x \ {Pick(x)}) = SumOn(g, x \ {Pick(x)})
  BY <1>2, <1>3, <1>5
<1>7. f[Pick(x)] = g[Pick(x)]
  BY <1>3, <1>5
<1> QED
  BY <1>3, <1>4, <1>5, <1>6, <1>7, SumPick

\* The function changes at one place.
LEMMA SumChange ==
    ASSUME NEW S, IsFiniteSet(S), NEW f, NEW g, NEW a \in S,
           \A x \in S : f[x] \in Int /\ g[x] \in Int,
           \A x \in S : x /= a => f[x] = g[x]
    PROVE  SumOn(g, S) = SumOn(f, S) - f[a] + g[a]
<1> DEFINE R == S \ {a}
<1>1. IsFiniteSet(R) /\ \A x \in R : f[x] = g[x] /\ f[x] \in Int
  BY FS_Subset
<1>2. SumOn(f, R) = SumOn(g, R) /\ SumOn(f, R) \in Int
  <2> HIDE DEF R
  <2> QED
    BY <1>1, SumExt, SumType
<1>3. SumOn(f, S) = f[a] + SumOn(f, R) /\ SumOn(g, S) = g[a] + SumOn(g, R)
  BY SumAny
<1> HIDE DEF R
<1> QED
  BY <1>2, <1>3

\* Terms that are zero add nothing.
LEMMA SumZero ==
    ASSUME NEW f, NEW S, IsFiniteSet(S), \A x \in S : f[x] = 0
    PROVE  SumOn(f, S) = 0
<1> DEFINE T == {s \in SUBSET S : SumOn(f, s) /= 0}
<1>1. SUFFICES ASSUME T /= {} PROVE FALSE
  OBVIOUS
<1>2. PICK x \in T : \A y \in T : y \subseteq x => y = x
  <2>1. T \in SUBSET SUBSET S
    OBVIOUS
  <2> HIDE DEF T
  <2> QED
    BY <1>1, <2>1, MinimalSubset
<1>3. x \in SUBSET S /\ SumOn(f, x) /= 0
  BY <1>2
<1>4. x /= {}
  BY <1>3, SumEmpty
<1>5. Pick(x) \in x /\ IsFiniteSet(x)
  BY <1>3, <1>4, PickIn, FS_Subset
<1>6. SumOn(f, x \ {Pick(x)}) = 0
  BY <1>2, <1>3, <1>5
<1>7. f[Pick(x)] = 0
  BY <1>3, <1>5
<1>8. SumOn(f, x) = f[Pick(x)] + SumOn(f, x \ {Pick(x)})
  BY <1>4, <1>5, SumPick
<1> QED
  BY <1>3, <1>6, <1>7, <1>8

\* There are finitely many functions between finite sets.
LEMMA FiniteFunctions ==
    ASSUME NEW A, IsFiniteSet(A), NEW B, IsFiniteSet(B)
    PROVE  IsFiniteSet([A -> B])
<1> DEFINE graph == [k \in [A -> B] |-> {<<i, k[i]>> : i \in A}]
<1>1. IsFiniteSet(A \X B)
  BY FS_Product
<1>2. IsFiniteSet(SUBSET (A \X B))
  BY <1>1, FS_SUBSET
<1>3. graph \in [[A -> B] -> SUBSET (A \X B)]
  OBVIOUS
<1>4. ASSUME NEW k \in [A -> B], NEW l \in [A -> B], graph[k] = graph[l]
      PROVE  k = l
  <2>1. ASSUME NEW i \in A PROVE k[i] = l[i]
    <3>1. <<i, k[i]>> \in {<<j, l[j]>> : j \in A}
      BY <1>4
    <3> QED
      BY <3>1
  <2> QED
    BY <2>1
<1>5. graph \in Injection([A -> B], SUBSET (A \X B))
  <2> HIDE DEF graph
  <2> QED
    BY <1>3, <1>4 DEF Injection, IsInjective
<1> HIDE DEF graph
<1> QED
  BY <1>2, <1>5, FS_Injection

\* A finite set of numbers that is not empty has a largest and a least element.
LEMMA HasMax ==
    ASSUME NEW S, IsFiniteSet(S), S /= {}, \A x \in S : x \in Nat
    PROVE  \E x \in S : \A y \in S : x >= y
<1> DEFINE T == {s \in SUBSET S : s /= {} /\ ~ \E x \in s : \A y \in s : x >= y}
<1>1. SUFFICES ASSUME T /= {} PROVE FALSE
  OBVIOUS
<1>2. PICK x \in T : \A y \in T : y \subseteq x => y = x
  <2>1. T \in SUBSET SUBSET S
    OBVIOUS
  <2> HIDE DEF T
  <2> QED
    BY <1>1, <2>1, MinimalSubset
<1>3. x \in SUBSET S /\ x /= {} /\ (\A y \in x : y \in Nat) /\ ~ \E m \in x : \A y \in x : m >= y
  BY <1>2
<1> DEFINE p == Pick(x)
<1>4. p \in x /\ p \in Nat
  BY <1>3, PickIn
<1> HIDE DEF p
<1>5. x \ {p} /= {}
  BY <1>3, <1>4
<1>6. PICK m \in x \ {p} : \A y \in x \ {p} : m >= y
  <2>1. x \ {p} \notin T
    BY <1>2, <1>4
  <2>2. x \ {p} \in SUBSET S
    BY <1>3
  <2> QED
    BY <1>5, <2>1, <2>2
<1>7. m \in x /\ m \in Nat
  BY <1>3, <1>6
<1>8. CASE m >= p
  BY <1>3, <1>6, <1>7, <1>8
<1>9. CASE p > m
  <2>1. \A y \in x : p >= y
    BY <1>3, <1>4, <1>6, <1>7, <1>9
  <2> QED
    BY <1>3, <1>4, <2>1
<1> QED
  BY <1>4, <1>7, <1>8, <1>9

\* A set of natural numbers that is not empty has a least one.
LEMMA HasMin ==
    ASSUME NEW S \in SUBSET Nat, S /= {}
    PROVE  \E x \in S : \A y \in S : x <= y
<1> DEFINE less == {ss \in Nat \X Nat : ss[1] < ss[2]}
<1>1. IsWellFoundedOn(less, Nat)
  BY NatLessThanWellFounded DEF OpToRel
<1>2. PICK x \in S : \A y \in S : ~ (<<y, x>> \in less)
  <2> HIDE DEF less
  <2> QED
    BY <1>1, WFMin
<1>3. ASSUME NEW y \in S PROVE x <= y
  <2>1. x \in Nat /\ y \in Nat /\ ~ (y < x)
    BY <1>2
  <2> QED
    BY <2>1
<1> QED
  BY <1>3
=============================================================================
