-------------------------- MODULE FuzzHarnessProofs --------------------------
(***************************************************************************)
(* What the harness promises for every size of a byte, of the integer      *)
(* types and of the input: the buffer is owned, a choice is one of the     *)
(* alternatives, and time never goes back.                                 *)
(***************************************************************************)
EXTENDS FuzzHarness, ArithmeticLemmas, TLAPS

(***************************************************************************)
(* Numbers of bytes.                                                       *)
(***************************************************************************)
LEMMA ByteFacts == BYTE \in Nat /\ BYTE >= 2 /\ Bytes \subseteq 0 .. (BYTE - 1) /\ MaxWidth \in Nat
  BY SourcesAssumption

\* The recursion defines the powers of BYTE.
LEMMA ValuesDefined ==
    /\ Values \in [Nat -> Nat]
    /\ Values[0] = 1
    /\ \A n \in Nat : Values[n + 1] = BYTE * Values[n]
<1> DEFINE F == [p \in Nat \X Nat |-> BYTE * p[2]]
<1>1. PICK f : f[0] = 1 /\ \A n \in Nat : f[n + 1] = F[<<n, f[n]>>]
  <2> HIDE DEF F
  <2>1. \E f : StepsForever(f, 1, F)
    BY Recursion
  <2> QED
    BY <2>1 DEF StepsForever
<1> DEFINE T == {n \in Nat : f[n] \in Nat}
<1>2. T = Nat
  <2>1. T \in SUBSET Nat /\ 0 \in T
    BY <1>1
  <2>2. ASSUME NEW n \in T PROVE n + 1 \in T
    <3>1. f[n + 1] = BYTE * f[n]
      BY <1>1
    <3> QED
      BY <3>1, ByteFacts
  <2> HIDE DEF T
  <2> QED
    BY <2>1, <2>2, NatSetInduction
<1>3. ASSUME NEW n \in Nat PROVE f[n] \in Nat /\ f[n + 1] = BYTE * f[n]
  <2>1. n \in T
    BY <1>2
  <2>2. f[n] \in Nat
    BY <2>1
  <2>3. f[n + 1] = F[<<n, f[n]>>]
    BY <1>1
  <2> QED
    BY <2>2, <2>3
<1> DEFINE g == [n \in Nat |-> f[n]]
<1>4. g = [n \in Nat |-> IF n = 0 THEN 1 ELSE BYTE * g[n - 1]]
  <2>1. ASSUME NEW n \in Nat PROVE f[n] = IF n = 0 THEN 1 ELSE BYTE * g[n - 1]
    <3>1. CASE n = 0
      BY <1>1, <3>1
    <3>2. CASE n /= 0
      <4>1. n - 1 \in Nat /\ (n - 1) + 1 = n
        BY <3>2
      <4> QED
        BY <1>3, <3>2, <4>1
    <3> QED
      BY <3>1, <3>2
  <2> QED
    BY <2>1
<1> HIDE DEF g
<1>5. Values = [n \in Nat |-> IF n = 0 THEN 1 ELSE BYTE * Values[n - 1]]
  BY <1>4 DEF Values
<1>6. Values[0] = 1 /\ \A n \in Nat : Values[n + 1] = BYTE * Values[n]
  BY <1>5
<1> DEFINE U == {n \in Nat : Values[n] \in Nat}
<1>7. U = Nat
  <2>1. U \in SUBSET Nat /\ 0 \in U
    BY <1>6
  <2>2. ASSUME NEW n \in U PROVE n + 1 \in U
    BY <1>6, ByteFacts
  <2> HIDE DEF U
  <2> QED
    BY <2>1, <2>2, NatSetInduction
<1>8. Values \in [Nat -> Nat]
  <2>1. \A n \in Nat : Values[n] \in Nat
    BY <1>7
  <2> QED
    BY <1>5, <2>1
<1> QED
  BY <1>6, <1>8

\* There are as many values as a positive number says.
LEMMA ValuesPositive == \A n \in Nat : Values[n] \in Nat /\ Values[n] >= 1
<1> DEFINE T == {n \in Nat : Values[n] \in Nat /\ Values[n] >= 1}
<1>1. T \in SUBSET Nat /\ 0 \in T
  BY ValuesDefined
<1>2. ASSUME NEW n \in T PROVE n + 1 \in T
  <2>1. n \in Nat /\ Values[n] \in Nat /\ Values[n] >= 1 /\ Values[n + 1] = BYTE * Values[n]
    BY ValuesDefined
  <2>2. ASSUME NEW x \in Nat, x >= 1 PROVE BYTE * x \in Nat /\ BYTE * x >= 1
    BY <2>2, ByteFacts
  <2> QED
    BY <2>1, <2>2
<1>3. T = Nat
  <2> HIDE DEF T
  <2> QED
    BY <1>1, <1>2, NatSetInduction
<1> QED
  BY <1>3

\* One byte more at least doubles the values, and makes their number even.
LEMMA ValuesStep ==
    ASSUME NEW n \in Nat
    PROVE  /\ Values[n + 1] \in Nat
           /\ 2 * Values[n] <= Values[n + 1]
           /\ Values[n + 1] = 2 * (Values[n + 1] \div 2)
<1>1. Values[n] \in Nat /\ Values[n + 1] \in Nat /\ Values[n + 1] = BYTE * Values[n]
  BY ValuesPositive, ValuesDefined
<1>2. PICK b \in Nat : BYTE = 2 * b /\ b >= 1
  <2>1. BYTE = 2 * (BYTE \div 2) /\ BYTE \div 2 \in Nat /\ BYTE \div 2 >= 1
    BY SourcesAssumption
  <2> QED
    BY <2>1
<1>3. ASSUME NEW x \in Nat
      PROVE  (2 * b) * x = 2 * (b * x) /\ b * x \in Nat /\ 2 * x <= (2 * b) * x
  <2>1. b * x >= x
    BY <1>2
  <2> QED
    BY <2>1
<1>4. ASSUME NEW y \in Nat PROVE 2 * y = 2 * ((2 * y) \div 2)
  OBVIOUS
<1> QED
  BY <1>1, <1>2, <1>3, <1>4

\* A wider number has at least twice as many values.
LEMMA ValuesMonotone ==
    ASSUME NEW m \in Nat, NEW n \in Nat
    PROVE  /\ m <= n => Values[m] <= Values[n]
           /\ m < n => 2 * Values[m] <= Values[n]
<1> DEFINE T == {d \in Nat : Values[m] <= Values[m + d]}
<1>1. T \in SUBSET Nat /\ 0 \in T
  BY ValuesPositive
<1>2. ASSUME NEW d \in T PROVE d + 1 \in T
  <2>1. m + d \in Nat /\ (m + d) + 1 = m + (d + 1)
    OBVIOUS
  <2>2. Values[m] \in Nat /\ Values[m + d] \in Nat /\ Values[m] <= Values[m + d]
    BY <2>1, ValuesPositive
  <2>3. Values[m + (d + 1)] \in Nat /\ 2 * Values[m + d] <= Values[m + (d + 1)]
    BY <2>1, ValuesStep
  <2> QED
    BY <2>2, <2>3
<1>3. T = Nat
  <2> HIDE DEF T
  <2> QED
    BY <1>1, <1>2, NatSetInduction
<1>4. ASSUME NEW k \in Nat, m <= k PROVE Values[m] <= Values[k]
  <2>1. k - m \in Nat /\ m + (k - m) = k
    BY <1>4
  <2>2. k - m \in T
    BY <1>3, <2>1
  <2>3. Values[m] <= Values[m + (k - m)]
    BY <2>2
  <2> QED
    BY <2>1, <2>3
<1>5. ASSUME m < n PROVE 2 * Values[m] <= Values[n]
  <2>1. n - 1 \in Nat /\ m <= n - 1 /\ (n - 1) + 1 = n
    BY <1>5
  <2>2. Values[m] <= Values[n - 1] /\ 2 * Values[n - 1] <= Values[n]
    BY <1>4, <2>1, ValuesStep
  <2>3. Values[m] \in Nat /\ Values[n - 1] \in Nat /\ Values[n] \in Nat
    BY <2>1, ValuesPositive
  <2> QED
    BY <2>2, <2>3
<1> QED
  BY <1>4, <1>5

\* The bytes of a number shifted together are less than the values that they have.
LEMMA NumberBound ==
    ASSUME NEW bs \in Seq(Bytes)
    PROVE  Number(bs) \in 0 .. (Values[Len(bs)] - 1)
<1> DEFINE L == Len(bs)
           F == [p \in Nat \X Nat |-> IF p[1] < L THEN p[2] * BYTE + bs[p[1] + 1] ELSE 0]
           S(g) == g = [n \in 0 .. L |-> IF n = 0 THEN 0 ELSE g[n - 1] * BYTE + bs[n]]
<1>1. L \in Nat /\ \A n \in 1 .. L : bs[n] \in 0 .. (BYTE - 1)
  <2>1. L \in Nat /\ \A n \in 1 .. L : bs[n] \in Bytes
    OBVIOUS
  <2> HIDE DEF L
  <2> QED
    BY <2>1, ByteFacts
<1>2. Number(bs) = (CHOOSE g : S(g))[L]
  BY DEF Number
<1> HIDE DEF L
<1>3. PICK f : f[0] = 0 /\ \A n \in Nat : f[n + 1] = F[<<n, f[n]>>]
  <2> HIDE DEF F
  <2>1. \E f : StepsForever(f, 0, F)
    BY Recursion
  <2> QED
    BY <2>1 DEF StepsForever
<1> DEFINE T == {n \in Nat : f[n] \in Nat}
<1>4. T = Nat
  <2>1. T \in SUBSET Nat /\ 0 \in T
    BY <1>3
  <2>2. ASSUME NEW n \in T PROVE n + 1 \in T
    <3>1. f[n + 1] = IF n < L THEN f[n] * BYTE + bs[n + 1] ELSE 0
      BY <1>3
    <3>2. CASE n < L
      <4>1. bs[n + 1] \in Nat /\ f[n] \in Nat /\ BYTE \in Nat
        BY <1>1, <3>2, ByteFacts
      <4>2. f[n] * BYTE + bs[n + 1] \in Nat
        BY <4>1
      <4> QED
        BY <3>1, <3>2, <4>2
    <3> QED
      BY <1>1, <3>1, <3>2
  <2> HIDE DEF T
  <2> QED
    BY <2>1, <2>2, NatSetInduction
<1>5. \E g : S(g)
  <2> DEFINE g == [n \in 0 .. L |-> f[n]]
  <2>1. ASSUME NEW n \in 0 .. L
        PROVE  f[n] = IF n = 0 THEN 0 ELSE g[n - 1] * BYTE + bs[n]
    <3>1. CASE n = 0
      BY <1>3, <3>1
    <3>2. CASE n /= 0
      <4>1. n - 1 \in 0 .. L /\ n - 1 \in Nat /\ n - 1 < L /\ (n - 1) + 1 = n
        BY <1>1, <3>2
      <4>2. f[n - 1] \in Nat
        BY <1>4, <4>1
      <4>3. f[n] = F[<<n - 1, f[n - 1]>>]
        BY <1>3, <4>1
      <4>4. F[<<n - 1, f[n - 1]>>] = f[n - 1] * BYTE + bs[n]
        BY <4>1, <4>2
      <4> QED
        BY <3>2, <4>1, <4>3, <4>4
    <3> QED
      BY <3>1, <3>2
  <2>2. S(g)
    BY <2>1
  <2> QED
    BY <2>2
<1> DEFINE h == CHOOSE g : S(g)
<1>6. S(h)
  BY <1>5
<1> HIDE DEF h
<1>7. h[0] = 0 /\ \A n \in 1 .. L : h[n] = h[n - 1] * BYTE + bs[n]
  BY <1>1, <1>6
<1> HIDE DEF S
<1> DEFINE U == {n \in Nat : n <= L => h[n] \in 0 .. (Values[n] - 1)}
<1>8. U = Nat
  <2>1. U \in SUBSET Nat /\ 0 \in U
    <3>1. h[0] \in 0 .. (Values[0] - 1)
      BY <1>7, ValuesDefined
    <3> QED
      BY <3>1
  <2>2. ASSUME NEW n \in U PROVE n + 1 \in U
    <3> SUFFICES ASSUME n + 1 <= L PROVE h[n + 1] \in 0 .. (Values[n + 1] - 1)
      OBVIOUS
    <3>1. n \in Nat /\ n + 1 \in 1 .. L /\ (n + 1) - 1 = n /\ n <= L
      BY <1>1
    <3>2. h[n] \in 0 .. (Values[n] - 1) /\ Values[n] \in Nat
      BY <3>1, ValuesPositive
    <3>3. h[n + 1] = h[n] * BYTE + bs[n + 1] /\ bs[n + 1] \in 0 .. (BYTE - 1)
      BY <1>1, <1>7, <3>1
    <3>4. Values[n + 1] = BYTE * Values[n]
      BY <3>1, ValuesDefined
    <3>5. ASSUME NEW v \in Nat, NEW x \in 0 .. (v - 1), NEW b \in 0 .. (BYTE - 1)
          PROVE  x * BYTE + b \in 0 .. (BYTE * v - 1)
      <4>1. BYTE \in Nat /\ x \in Nat /\ x + 1 <= v
        BY ByteFacts
      <4>2. (x + 1) * BYTE <= v * BYTE
        BY <4>1, SMTT(30)
      <4>3. (x + 1) * BYTE = x * BYTE + BYTE /\ v * BYTE = BYTE * v /\ x * BYTE \in Nat
        BY <4>1
      <4>4. BYTE * v \in Nat
        BY <4>1
      <4> QED
        BY <4>1, <4>2, <4>3, <4>4
    <3> QED
      BY <3>2, <3>3, <3>4, <3>5
  <2> HIDE DEF U
  <2> QED
    BY <2>1, <2>2, NatSetInduction
<1>9. h[L] \in 0 .. (Values[L] - 1)
  BY <1>1, <1>8
<1> QED
  BY <1>2, <1>9 DEF h, L
-----------------------------------------------------------------------------
(***************************************************************************)
(* Raw types.                                                              *)
(***************************************************************************)
LEMMA WidestFacts == Widest \in Containers /\ \A c \in Containers : c <= Widest
<1>1. Containers \in SUBSET Nat /\ IsFiniteSet(Containers) /\ Containers /= {}
  BY SourcesAssumption
<1>2. \E x \in Containers : \A y \in Containers : x >= y
  BY <1>1, HasMax
<1>3. Widest \in Containers /\ \A y \in Containers : Widest >= y
  BY <1>2 DEF Widest, Max
<1> QED
  BY <1>1, <1>3

\* The containers of <stdint.h> are narrower than the bound of the widths.
LEMMA ContainerFacts == \A c \in Containers : c \in Nat /\ c >= 1 /\ c <= Widest /\ c < MaxWidth
  BY SourcesAssumption, WidestFacts

\* A width is stored in a container that is at least as wide, if there is one.
LEMMA StdintWidthFacts ==
    ASSUME NEW w \in Nat
    PROVE  /\ StdintWidth(w) \in Containers
           /\ w > Widest => StdintWidth(w) = Widest
           /\ w <= Widest => w <= StdintWidth(w)
           /\ w \in Containers => StdintWidth(w) = w
<1> DEFINE C == {c \in Containers : c >= w}
<1>1. Widest \in Nat /\ Widest \in Containers
  BY WidestFacts, ContainerFacts
<1>2. CASE w > Widest
  <2>1. w \notin Containers
    BY <1>2, ContainerFacts, <1>1
  <2> QED
    BY <1>1, <1>2, <2>1 DEF StdintWidth
<1>3. CASE w <= Widest
  <2>1. C \in SUBSET Nat /\ C /= {}
    BY <1>1, <1>3, ContainerFacts
  <2>2. \E x \in C : \A y \in C : x <= y
    <3> HIDE DEF C
    <3> QED
      BY <2>1, HasMin
  <2>3. Min(C) \in C /\ \A y \in C : Min(C) <= y
    BY <2>2 DEF Min
  <2>4. StdintWidth(w) = Min(C)
    BY <1>1, <1>3 DEF StdintWidth
  <2>5. Min(C) \in Containers /\ Min(C) >= w /\ Min(C) \in Nat
    BY <2>1, <2>3
  <2>6. ASSUME w \in Containers PROVE Min(C) = w
    <3>1. w \in C
      BY <2>6
    <3> QED
      BY <2>3, <2>5, <3>1
  <2> QED
    BY <1>1, <1>3, <2>4, <2>5, <2>6
<1> QED
  BY <1>1, <1>2, <1>3

\* The number of values of a container is positive and even.
LEMMA ContainerValues ==
    ASSUME NEW c \in Containers
    PROVE  Values[c] \in Nat /\ Values[c] >= 2 /\ Values[c] = 2 * (Values[c] \div 2)
<1>1. c - 1 \in Nat /\ (c - 1) + 1 = c
  BY ContainerFacts
<1>2. Values[c] \in Nat /\ 2 * Values[c - 1] <= Values[c] /\ Values[c] = 2 * (Values[c] \div 2)
  BY <1>1, ValuesStep
<1>3. Values[c - 1] \in Nat /\ Values[c - 1] >= 1
  BY <1>1, ValuesPositive
<1> QED
  BY <1>2, <1>3

\* A conversion to a raw type gives a number of that type.
LEMMA WrappedIn ==
    ASSUME NEW v \in Int, NEW w \in Nat, NEW signed \in BOOLEAN
    PROVE  Wrapped(v, w, signed) \in Between(StdintBounds(w, signed))
<1> DEFINE n == Values[StdintWidth(w)]
           m == v % n
<1>1. n \in Nat /\ n >= 2 /\ n = 2 * (n \div 2)
  BY StdintWidthFacts, ContainerValues
<1> HIDE DEF n
<1>2. m \in 0 .. (n - 1)
  BY <1>1, DivMod
<1> HIDE DEF m
<1> DEFINE half == n \div 2
<1>3. half \in Int /\ n = 2 * half
  BY <1>1
<1> HIDE DEF half
<1>4. Wrapped(v, w, signed) = IF signed /\ m >= half THEN m - n ELSE m
  BY DEF Wrapped, m, n, half
<1>5. Between(StdintBounds(w, signed)) = IF signed THEN (-half) .. (half - 1) ELSE 0 .. (n - 1)
  BY DEF Between, StdintBounds, n, half
<1>6. CASE signed /\ m >= half
  <2>1. m - n \in (-half) .. (half - 1)
    BY <1>1, <1>2, <1>3, <1>6
  <2> QED
    BY <1>4, <1>5, <1>6, <2>1
<1>7. CASE signed /\ ~ (m >= half)
  <2>1. m \in (-half) .. (half - 1)
    BY <1>1, <1>2, <1>3, <1>7
  <2> QED
    BY <1>4, <1>5, <1>7, <2>1
<1>8. CASE ~ signed
  BY <1>2, <1>4, <1>5, <1>8
<1> QED
  BY <1>6, <1>7, <1>8

\* The bounds of a raw type are integers.
LEMMA BoundsInt ==
    ASSUME NEW kind, NEW w \in Nat, NEW signed \in BOOLEAN
    PROVE  /\ RawBounds(kind, w, signed)[1] \in Int
           /\ RawBounds(kind, w, signed)[2] \in Int
<1>1. Values[w] \in Nat
  BY ValuesPositive
<1>2. Values[StdintWidth(w)] \in Nat
  BY StdintWidthFacts, ContainerValues
<1>3. Values[StdintWidth(w)] \div 2 \in Int
  BY <1>2
<1> DEFINE n == Values[StdintWidth(w)]
           h == n \div 2
<1> HIDE DEF n
<1>4. StdintBounds(w, signed) = IF signed THEN <<-h, h - 1>> ELSE <<0, n - 1>>
  BY DEF StdintBounds, n
<1>5. h \in Int /\ n \in Nat
  BY <1>2, <1>3 DEF n
<1> HIDE DEF h
<1>6. StdintBounds(w, signed)[1] \in Int /\ StdintBounds(w, signed)[2] \in Int
  BY <1>4, <1>5
<1>7. BoostBounds(w, signed)[1] \in Int /\ BoostBounds(w, signed)[2] \in Int
  BY <1>1 DEF BoostBounds
<1> QED
  BY <1>6, <1>7 DEF RawBounds

\* A number of w bytes fits the raw type, its sign bit clear, unless the type is
\* signed and exactly as wide.
LEMMA NumberFits ==
    ASSUME NEW kind \in {"BOOST", "STDINT"}, NEW w \in Nat, NEW signed \in BOOLEAN,
           NEW x \in 0 .. (Values[w] - 1),
           kind = "STDINT" => w <= Widest /\ (signed => w \notin Containers)
    PROVE  x \in Between(RawBounds(kind, w, signed))
<1> DEFINE v == Values[w]
           n == Values[StdintWidth(w)]
<1>1. v \in Nat /\ x \in 0 .. (v - 1)
  BY ValuesPositive
<1>2. CASE kind = "BOOST"
  <2>1. RawBounds(kind, w, signed) = <<IF signed THEN 1 - v ELSE 0, v - 1>>
    BY <1>2 DEF RawBounds, BoostBounds
  <2> HIDE DEF v
  <2> QED
    BY <1>1, <2>1 DEF Between
<1>3. CASE kind = "STDINT"
  <2>1. StdintWidth(w) \in Nat /\ w <= StdintWidth(w)
    BY <1>3, StdintWidthFacts, ContainerFacts
  <2>2. signed => w < StdintWidth(w)
    BY <1>3, <2>1, StdintWidthFacts
  <2>3. v <= n /\ (signed => 2 * v <= n) /\ n \in Nat /\ n = 2 * (n \div 2)
    BY <2>1, <2>2, ValuesMonotone, ContainerValues, StdintWidthFacts
  <2>4. RawBounds(kind, w, signed) =
          IF signed THEN <<-(n \div 2), n \div 2 - 1>> ELSE <<0, n - 1>>
    BY <1>3 DEF RawBounds, StdintBounds
  <2> HIDE DEF v, n
  <2> DEFINE h == n \div 2
  <2>5. h \in Int /\ n = 2 * h
    BY <2>3
  <2>6. RawBounds(kind, w, signed) = IF signed THEN <<-h, h - 1>> ELSE <<0, n - 1>>
    BY <2>4
  <2> HIDE DEF h
  <2>7. CASE signed
    BY <1>1, <2>3, <2>5, <2>6, <2>7 DEF Between
  <2>8. CASE ~ signed
    BY <1>1, <2>3, <2>6, <2>8 DEF Between
  <2> QED
    BY <2>7, <2>8
<1> QED
  BY <1>2, <1>3

\* The bytes of a draw are a sequence of its width.
LEMMA BytesOfFunction ==
    ASSUME NEW w \in Nat, NEW bs \in [1 .. w -> Bytes]
    PROVE  bs \in Seq(Bytes) /\ Len(bs) = w
  OBVIOUS

\* The bytes that a type wider than every container keeps.
LEMMA LastBytes ==
    ASSUME NEW bs \in Seq(Bytes), Len(bs) > Widest
    PROVE  /\ SubSeq(bs, Len(bs) - Widest + 1, Len(bs)) \in Seq(Bytes)
           /\ Len(SubSeq(bs, Len(bs) - Widest + 1, Len(bs))) = Widest
<1>1. Widest \in Nat /\ Widest >= 1
  BY WidestFacts, ContainerFacts
<1> DEFINE a == Len(bs) - Widest + 1
           b == Len(bs)
<1>2. a \in 1 .. b /\ b \in Nat /\ b - a + 1 = Widest
  BY <1>1
<1>3. \A i \in a .. b : bs[i] \in Bytes
  BY <1>2
<1> HIDE DEF a, b
<1>4. SubSeq(bs, a, b) = [i \in 1 .. Widest |-> bs[i + a - 1]]
  BY <1>2
<1>5. \A i \in 1 .. Widest : i + a - 1 \in a .. b
  BY <1>1, <1>2
<1>6. SubSeq(bs, a, b) \in [1 .. Widest -> Bytes]
  BY <1>3, <1>4, <1>5
<1>7. SubSeq(bs, a, b) \in Seq(Bytes) /\ Len(SubSeq(bs, a, b)) = Widest
  BY <1>1, <1>6, BytesOfFunction
<1> QED
  BY <1>7 DEF a, b

\* What the fuzzer draws for an integer type is a number of its raw type.
LEMMA FuzzIntIn ==
    ASSUME NEW kind \in {"BOOST", "STDINT"}, NEW w \in Nat, NEW signed \in BOOLEAN,
           NEW v \in FuzzInt(kind, w, signed)
    PROVE  v \in Between(RawBounds(kind, w, signed))
<1>1. PICK bs \in [1 .. w -> Bytes] :
         v = IF w > Widest THEN FuzzWide(kind, bs, signed) ELSE FuzzNarrow(kind, bs, signed)
  BY DEF FuzzInt
<1>2. bs \in Seq(Bytes) /\ Len(bs) = w
  BY BytesOfFunction
<1>3. Number(bs) \in 0 .. (Values[w] - 1)
  BY <1>2, NumberBound
<1>4. Widest \in Nat /\ Widest \in Containers
  BY WidestFacts, ContainerFacts
<1>5. CASE kind = "BOOST"
  <2>1. v = Number(bs)
    BY <1>1, <1>5 DEF FuzzWide, FuzzNarrow
  <2>2. Number(bs) \in Between(RawBounds(kind, w, signed))
    BY <1>3, <1>5, NumberFits
  <2> QED
    BY <2>1, <2>2
<1>6. CASE kind = "STDINT" /\ w > Widest
  <2> DEFINE x == Number(SubSeq(bs, Len(bs) - Widest + 1, Len(bs)))
  <2>1. x \in 0 .. (Values[Widest] - 1)
    BY <1>2, <1>6, LastBytes, NumberBound
  <2>2. x \in Int
    BY <1>4, <2>1, ValuesPositive
  <2>3. v = Wrapped(x, Widest, signed)
    BY <1>1, <1>6 DEF FuzzWide
  <2> HIDE DEF x
  <2>4. v \in Between(StdintBounds(Widest, signed))
    BY <1>4, <2>2, <2>3, WrappedIn
  <2>5. StdintWidth(w) = Widest /\ StdintWidth(Widest) = Widest
    BY <1>4, <1>6, StdintWidthFacts
  <2>6. RawBounds(kind, w, signed) = StdintBounds(Widest, signed)
    BY <1>6, <2>5 DEF RawBounds, StdintBounds
  <2> QED
    BY <2>4, <2>6
<1>7. CASE kind = "STDINT" /\ w <= Widest
  <2>1. v = FuzzNarrow(kind, bs, signed)
    BY <1>1, <1>4, <1>7
  <2>2. CASE signed /\ w \in Containers
    <3>1. v = Wrapped(Number(bs), w, TRUE)
      BY <1>2, <1>7, <2>1, <2>2 DEF FuzzNarrow
    <3>2. Number(bs) \in Int
      BY <1>3, ValuesPositive
    <3>3. v \in Between(StdintBounds(w, TRUE))
      BY <3>1, <3>2, WrappedIn
    <3> QED
      BY <1>7, <2>2, <3>3 DEF RawBounds
  <2>3. CASE ~ (signed /\ w \in Containers)
    <3>1. v = Number(bs)
      BY <1>2, <2>1, <2>3 DEF FuzzNarrow
    <3>2. Number(bs) \in Between(RawBounds(kind, w, signed))
      BY <1>3, <1>7, <2>3, NumberFits
    <3> QED
      BY <3>1, <3>2
  <2> QED
    BY <2>2, <2>3
<1> QED
  BY <1>4, <1>5, <1>6, <1>7

\* So is what the other backends draw.
LEMMA nd_intIn ==
    ASSUME NEW b \in Builds, NEW w \in Nat, NEW signed \in BOOLEAN,
           NEW v \in nd_int(b[1], b[2], w, signed)
    PROVE  v \in Between(RawBounds(b[2], w, signed))
<1> DEFINE kind == b[2]
<1>1. kind \in {"BOOST", "STDINT"}
  BY DEF Builds
<1>2. CASE b[1] = "libFuzzer"
  <2>1. v \in FuzzInt(kind, w, signed)
    BY <1>2 DEF nd_int
  <2> HIDE DEF kind
  <2>2. v \in Between(RawBounds(kind, w, signed))
    BY <1>1, <2>1, FuzzIntIn
  <2> QED
    BY <2>2 DEF kind
<1>3. CASE b[1] = "klee"
  <2>1. kind = "STDINT"
    BY <1>3 DEF Builds
  <2> QED
    BY <1>3, <2>1 DEF nd_int, KleeInt, RawBounds
<1>4. CASE b[1] = "seahorn"
  <2>1. kind = "STDINT"
    BY <1>4 DEF Builds
  <2>2. CASE signed
    BY <1>4, <2>1, <2>2 DEF nd_int, SeaInt, RawBounds
  <2>3. CASE ~ signed
    <3>1. v \in Between(StdintBounds(w, TRUE)) /\ v >= 0
      BY <1>4, <2>3 DEF nd_int, SeaUint, SeaInt
    <3> DEFINE n == Values[StdintWidth(w)]
               h == n \div 2
    <3>2. n \in Nat /\ h \in Int /\ n = 2 * h
      BY StdintWidthFacts, ContainerValues
    <3> HIDE DEF n, h
    <3>4. /\ Between(StdintBounds(w, TRUE)) = (-h) .. (h - 1)
          /\ Between(StdintBounds(w, FALSE)) = 0 .. (n - 1)
      BY DEF Between, StdintBounds, n, h
    <3>5. v \in (-h) .. (h - 1) /\ v >= 0
      BY <3>1, <3>4
    <3>6. v \in 0 .. (n - 1)
      BY <3>2, <3>5
    <3>7. RawBounds(b[2], w, signed) = StdintBounds(w, FALSE)
      BY <2>1, <2>3 DEF RawBounds
    <3> QED
      BY <3>4, <3>6, <3>7
  <2> QED
    BY <2>2, <2>3
<1>5. CASE b[1] = "interactive"
  <2>1. v \in IF signed THEN TypedInt(kind, w) ELSE TypedUint(kind, w)
    BY <1>5 DEF nd_int
  <2>2. CASE kind = "STDINT" /\ w > Widest
    <3>1. PICK x \in Between(BoostBounds(w, signed)) : v = Wrapped(x, w, signed)
      BY <2>1, <2>2 DEF TypedInt, TypedUint
    <3>2. x \in Int
      BY BoundsInt DEF RawBounds, Between, BoostBounds
    <3>3. v \in Between(StdintBounds(w, signed))
      BY <3>1, <3>2, WrappedIn
    <3> QED
      BY <2>2, <3>3 DEF RawBounds
  <2>3. CASE ~ (kind = "STDINT" /\ w > Widest)
    BY <2>1, <2>3 DEF TypedInt, TypedUint
  <2> QED
    BY <2>2, <2>3
<1> QED
  BY <1>2, <1>3, <1>4, <1>5 DEF Builds

\* A draw is a number.
LEMMA nd_intInt ==
    ASSUME NEW b \in Builds, NEW w \in Nat, NEW signed \in BOOLEAN,
           NEW v \in nd_int(b[1], b[2], w, signed)
    PROVE  v \in Int
<1>1. v \in Between(RawBounds(b[2], w, signed))
  BY nd_intIn
<1> QED
  BY <1>1, BoundsInt DEF Between

\* nd_increase of the other backends draws an integer.
LEMMA LaterInt ==
    ASSUME NEW b \in Builds, NEW curr, NEW strict,
           NEW v \in Later(b[1], b[2], curr, strict)
    PROVE  v \in Int
<1>1. CASE b[1] = "seahorn"
  <2>1. PICK h \in SeaInt(MaxWidth) : v = Wrapped(h, MaxWidth, FALSE)
    BY <1>1 DEF Later
  <2>2. h \in Int
    <3>1. h \in Between(RawBounds("STDINT", MaxWidth, TRUE))
      BY DEF SeaInt, RawBounds
    <3> QED
      BY <3>1, ByteFacts, BoundsInt DEF Between
  <2>3. v \in Between(RawBounds("STDINT", MaxWidth, FALSE))
    BY <2>1, <2>2, ByteFacts, WrappedIn DEF RawBounds
  <2> QED
    BY <2>3, ByteFacts, BoundsInt DEF Between
<1>2. CASE b[1] /= "seahorn"
  <2>1. v \in nd_int(b[1], b[2], MaxWidth, FALSE)
    BY <1>2 DEF Later
  <2> QED
    BY <2>1, ByteFacts, nd_intInt
<1> QED
  BY <1>1, <1>2

\* A byte reduced or filtered to a range is in the range.
LEMMA nd_rangeIn ==
    ASSUME NEW b, NEW r \in Nat \X Nat, r[1] < r[2], NEW v \in nd_range(b, r)
    PROVE  v \in r[1] .. (r[2] - 1)
<1>1. CASE b = "libFuzzer"
  <2>1. PICK x \in Bytes : v = (x % (r[2] - r[1])) + r[1]
    BY <1>1 DEF nd_range, FuzzRange
  <2>2. x \in Int
    BY ByteFacts
  <2> DEFINE d == r[2] - r[1]
  <2>3. d \in Nat \ {0} /\ r[1] \in Nat /\ r[2] = r[1] + d
    OBVIOUS
  <2>4. v = (x % d) + r[1]
    BY <2>1
  <2> HIDE DEF d
  <2>5. x % d \in 0 .. (d - 1)
    BY <2>2, <2>3, DivMod
  <2> QED
    BY <2>3, <2>4, <2>5
<1>2. CASE b /= "libFuzzer"
  <2>1. v \in nd_byte(b) /\ r[1] <= v /\ v < r[2]
    BY <1>2 DEF nd_range
  <2>2. v \in Int
    BY <1>2, <2>1, ByteFacts DEF nd_byte
  <2> QED
    BY <2>1, <2>2
<1> QED
  BY <1>1, <1>2
-----------------------------------------------------------------------------
(***************************************************************************)
(* The harness.                                                            *)
(***************************************************************************)
FuzzType ==
    /\ build \in Builds
    /\ lockstep \in BOOLEAN
    /\ pc \in Drawing \cup {"ready", "ran", "free", "exited", "pruned"}
    /\ RandData \in {"null", "live", "freed"}
    /\ blocks \in Nat
    /\ Size \in Nat
    /\ SizeOfRandData \in Nat
    /\ CounterOfRandData \in Nat
    /\ time \in Int

\* Who owns the buffer, also between malloc and free.
BufferInv ==
    /\ pc \in {"ready", "ran"} => blocks = 0 /\ RandData /= "live"
    /\ pc \in Drawing /\ fuzzing => blocks = 1 /\ RandData = "live"
    /\ pc = "free" => \/ blocks = 0 /\ RandData = "null"
                      \/ blocks = 1 /\ RandData = "live"
    /\ CounterOfRandData <= SizeOfRandData

FuzzInv == FuzzType /\ BufferInv /\ DrawInRange

\* A failed assumption leaves the fuzzer's run for the free, and ends the others.
LEMMA AssumeFailsEnds ==
    ASSUME AssumeFails
    PROVE  (fuzzing /\ pc' = "free") \/ (~ fuzzing /\ pc' \in {"exited", "pruned"})
<1>1. CASE fuzzing
  <2>1. Terminate("REQUIRE_FAILED")
    BY <1>1 DEF AssumeFails, fuzzing
  <2> QED
    BY <1>1, <2>1 DEF Terminate
<1>2. CASE ~ fuzzing /\ backend = "interactive"
  <2>1. sol_assertion_impl(0)
    BY <1>2 DEF AssumeFails
  <2> QED
    BY <1>2, <2>1 DEF sol_assertion_impl
<1>3. CASE ~ fuzzing /\ backend /= "interactive"
  BY <1>3 DEF AssumeFails
<1> QED
  BY <1>1, <1>2, <1>3

\* Choices are asked for while the fuzzer draws.
LEMMA AskedWhere == (\E n \in Asked : TRUE) => pc \in {"declare", "loop", "step", "body"}
  BY DEF Asked

\* Taking bytes does not move the counter beyond the buffer.
LEMMA NextBytesCounts ==
    ASSUME FuzzInv, NEW n \in Nat, NextBytes(n), UNCHANGED SizeOfRandData
    PROVE  CounterOfRandData' \in Nat /\ CounterOfRandData' <= SizeOfRandData'
  BY DEF FuzzInv, FuzzType, BufferInv, NextBytes, HasData

\* The greatest time is a number.
LEMMA UINT256_MAXInt == UINT256_MAX \in Int
  BY WidestFacts, ContainerFacts, ValuesPositive DEF UINT256_MAX

\* The invariant holds when the process starts.
LEMMA FuzzInit == Init => FuzzInv
  BY DEF Init, FuzzInv, FuzzType, BufferInv, DrawInRange, Drawing, Nothing

\* The steps that leave the buffer and the counter alone, and stay where they
\* were or leave for the end.
LEMMA BufferKept ==
    ASSUME FuzzInv, UNCHANGED <<build, lockstep, buffer, Size, CounterOfRandData, draw>>,
           time' \in Int,
           \/ pc \in Drawing /\ pc' \in Drawing
           \/ pc \in Drawing /\ fuzzing /\ pc' = "free"
           \/ pc' \in {"exited", "pruned"}
    PROVE  FuzzInv'
  BY DEF FuzzInv, FuzzType, BufferInv, DrawInRange, Drawing, fuzzing, backend, buffer

\* The steps that draw bytes.
LEMMA BytesDrawn ==
    ASSUME FuzzInv, UNCHANGED <<build, lockstep, buffer, Size>>,
           pc \in Drawing, pc' \in Drawing, time' \in Int, DrawInRange',
           CounterOfRandData' \in Nat, CounterOfRandData' <= SizeOfRandData'
    PROVE  FuzzInv'
  BY DEF FuzzInv, FuzzType, BufferInv, Drawing, fuzzing, backend, buffer

\* nd_range returns a value between its bounds.
LEMMA RangeDrawn == ASSUME FuzzInv, DrawRange PROVE DrawInRange'
<1>1. PICK r \in Ranges : \E v \in nd_range(backend, r) :
         draw' = [val |-> v, l |-> r[1], u |-> r[2]]
  BY DEF DrawRange
<1>2. PICK v \in nd_range(backend, r) : draw' = [val |-> v, l |-> r[1], u |-> r[2]]
  BY <1>1
<1>3. r \in Nat \X Nat /\ r[1] < r[2]
  BY HarnessAssumption DEF Ranges
<1>4. v \in r[1] .. (r[2] - 1)
  BY <1>3, nd_rangeIn
<1> QED
  BY <1>2, <1>4 DEF DrawInRange

\* nd_int returns a value of its raw type.
LEMMA IntDrawn == ASSUME FuzzInv, DrawInt PROVE DrawInRange'
<1>1. PICK w \in Widths, signed \in BOOLEAN :
         \E v \in nd_int(backend, ints, w, signed) :
            draw' = [val |-> v, l |-> RawBounds(ints, w, signed)[1],
                     u |-> RawBounds(ints, w, signed)[2] + 1]
  BY DEF DrawInt
<1>2. PICK v \in nd_int(backend, ints, w, signed) :
            draw' = [val |-> v, l |-> RawBounds(ints, w, signed)[1],
                     u |-> RawBounds(ints, w, signed)[2] + 1]
  BY <1>1
<1>3. w \in Nat /\ build \in Builds
  BY HarnessAssumption, ByteFacts DEF FuzzInv, FuzzType
<1>4. v \in nd_int(build[1], build[2], w, signed)
  BY DEF backend, ints
<1>5. v \in Between(RawBounds(ints, w, signed))
  BY <1>3, <1>4, nd_intIn DEF ints
<1> DEFINE lo == RawBounds(ints, w, signed)[1]
           hi == RawBounds(ints, w, signed)[2]
<1>6. lo \in Int /\ hi \in Int
  BY <1>3, BoundsInt
<1>7. v \in lo .. hi
  BY <1>5 DEF Between
<1>8. draw'.val = v /\ draw'.l = lo /\ draw'.u = hi + 1
  BY <1>2
<1> HIDE DEF lo, hi
<1>9. (hi + 1) - 1 = hi
  BY <1>6
<1> QED
  BY <1>7, <1>8, <1>9 DEF DrawInRange

\* Every step keeps the invariant.
LEMMA FuzzNext == FuzzInv /\ [Next]_vars => FuzzInv'
<1> SUFFICES ASSUME FuzzInv, [Next]_vars PROVE FuzzInv'
  OBVIOUS
<1> USE DEF Drawing
<1>1. CASE Setup
  <2>1. Size' \in Nat
    BY <1>1, HarnessAssumption DEF Setup
  <2> QED
    BY <1>1, <2>1
       DEF Setup, options, buffer, FuzzInv, FuzzType, BufferInv, DrawInRange, fuzzing, backend
<1>2. CASE sol_setup
  BY <1>2 DEF sol_setup, options, buffer, FuzzInv, FuzzType, BufferInv, DrawInRange,
              fuzzing, backend
<1>3. CASE UNCHANGED vars
  BY <1>3 DEF vars, options, buffer, FuzzInv, FuzzType, BufferInv, DrawInRange,
              fuzzing, backend
<1>4. CASE Run
  <2>1. UNCHANGED <<build, lockstep>>
    BY <1>4 DEF Run, options
  <2>2. CASE Ran
    BY <2>1, <2>2 DEF Ran, Terminate, FuzzInv, FuzzType, BufferInv, DrawInRange,
                      fuzzing, backend
  <2>3. CASE OutOfData
    <3>1. pc \in Drawing /\ fuzzing /\ pc' = "free" /\ CounterOfRandData' = SizeOfRandData
      BY <2>3, AskedWhere DEF OutOfData, Terminate
    <3>2. UNCHANGED <<buffer, Size, draw, time>>
      BY <2>3 DEF OutOfData
    <3> QED
      BY <2>1, <3>1, <3>2 DEF FuzzInv, FuzzType, BufferInv, DrawInRange, buffer, fuzzing, backend
  <2>4. CASE Declare
    <3>1. pc \in Drawing /\ pc' \in Drawing /\ UNCHANGED <<buffer, Size, draw>>
      BY <2>4 DEF Declare
    <3>2. time' \in Int
      <4>1. CASE lockstep
        <5>1. time' \in nd_int(build[1], build[2], MaxWidth, FALSE)
          BY <2>4, <4>1 DEF Declare, backend, ints
        <5> QED
          BY <5>1, ByteFacts, nd_intInt DEF FuzzInv, FuzzType
      <4>2. CASE ~ lockstep
        BY <2>4, <4>2 DEF Declare
      <4> QED
        BY <4>1, <4>2
    <3>3. CounterOfRandData' \in Nat /\ CounterOfRandData' <= SizeOfRandData'
      <4>1. CASE lockstep
        <5>1. NextBytes(MaxWidth)
          BY <2>4, <4>1 DEF Declare
        <5> QED
          BY <3>1, <5>1, ByteFacts, NextBytesCounts DEF buffer
      <4>2. CASE ~ lockstep
        BY <2>4, <3>1, <4>2 DEF Declare, buffer, FuzzInv, FuzzType, BufferInv
      <4> QED
        BY <4>1, <4>2
    <3>4. DrawInRange'
      BY <3>1 DEF FuzzInv, DrawInRange
    <3> QED
      BY <2>1, <3>1, <3>2, <3>3, <3>4, BytesDrawn
  <2>5. CASE TakeStep
    <3>1. /\ pc \in Drawing /\ pc' \in Drawing
          /\ UNCHANGED <<buffer, Size, draw, time>>
      BY <2>5 DEF TakeStep
    <3>2. CounterOfRandData' \in Nat /\ CounterOfRandData' <= SizeOfRandData'
      <4>1. CASE lockstep
        <5>1. NextBytes(1)
          BY <2>5, <4>1 DEF TakeStep
        <5> QED
          BY <3>1, <5>1, NextBytesCounts DEF buffer
      <4>2. CASE ~ lockstep
        BY <2>5, <3>1, <4>2 DEF TakeStep, buffer, FuzzInv, FuzzType, BufferInv
      <4> QED
        BY <4>1, <4>2
    <3>3. DrawInRange' /\ time' \in Int
      BY <3>1 DEF FuzzInv, FuzzType, DrawInRange
    <3> QED
      BY <2>1, <3>1, <3>2, <3>3, BytesDrawn
  <2>6. CASE StrictFails
    <3>1. /\ pc \in Drawing /\ fuzzing
          /\ UNCHANGED <<buffer, Size, CounterOfRandData, draw, time>> /\ AssumeFails
      BY <2>6 DEF StrictFails
    <3>2. pc' = "free"
      BY <3>1, AssumeFailsEnds
    <3>3. time' \in Int
      BY <3>1 DEF FuzzInv, FuzzType
    <3> QED
      BY <2>1, <3>1, <3>2, <3>3, BufferKept
  <2>7. CASE Increase
    <3>1. pc \in Drawing /\ pc' \in Drawing /\ UNCHANGED <<buffer, Size, draw>> /\ fuzzing
      BY <2>7 DEF Increase
    <3>2. Base \in Int /\ UINT256_MAX \in Int
      BY UINT256_MAXInt DEF Base, FuzzInv, FuzzType
    <3>3. CASE Base < UINT256_MAX
      <4>1. NextBytes(MaxWidth) /\ \E v \in FuzzInt(ints, MaxWidth, FALSE) : time' = Increased(v)
        BY <2>7, <3>3 DEF Increase
      <4>2. PICK v \in FuzzInt(ints, MaxWidth, FALSE) : time' = Increased(v)
        BY <4>1
      <4>3. ints \in {"BOOST", "STDINT"}
        BY DEF FuzzInv, FuzzType, Builds, ints
      <4>4. v \in Between(RawBounds(ints, MaxWidth, FALSE))
        BY <4>3, ByteFacts, FuzzIntIn
      <4>5. v \in Int
        BY <4>4, ByteFacts, BoundsInt DEF Between
      <4>6. time' \in Int
        <5> DEFINE d == UINT256_MAX - Base
        <5>1. d \in Nat \ {0}
          BY <3>2, <3>3
        <5>2. time' = Base + (v % d)
          BY <4>2 DEF Increased
        <5> HIDE DEF d
        <5> QED
          BY <3>2, <4>5, <5>1, <5>2, DivMod
      <4>7. CounterOfRandData' \in Nat /\ CounterOfRandData' <= SizeOfRandData'
        BY <3>1, <4>1, ByteFacts, NextBytesCounts DEF buffer
      <4>8. DrawInRange'
        BY <3>1 DEF FuzzInv, DrawInRange
      <4> QED
        BY <2>1, <3>1, <4>6, <4>7, <4>8, BytesDrawn
    <3>4. CASE ~ (Base < UINT256_MAX)
      <4>1. time' \in Int /\ UNCHANGED CounterOfRandData
        BY <2>7, <3>2, <3>4 DEF Increase
      <4> QED
        BY <2>1, <3>1, <4>1, BufferKept
    <3> QED
      BY <3>3, <3>4
  <2>8. CASE IncreaseTo
    <3>1. /\ pc \in Drawing /\ pc' \in Drawing
          /\ UNCHANGED <<buffer, Size, CounterOfRandData, draw>>
          /\ time' \in Later(backend, ints, time, lockstep)
      BY <2>8 DEF IncreaseTo
    <3>2. time' \in Int
      BY <3>1, LaterInt DEF FuzzInv, FuzzType, backend, ints
    <3> QED
      BY <2>1, <3>1, <3>2, BufferKept
  <2>9. CASE DrawRange
    <3>1. /\ pc \in Drawing /\ pc' \in Drawing /\ UNCHANGED <<buffer, Size, time>>
          /\ NextBytes(1)
      BY <2>9 DEF DrawRange
    <3>2. CounterOfRandData' \in Nat /\ CounterOfRandData' <= SizeOfRandData'
      BY <3>1, NextBytesCounts DEF buffer
    <3>3. time' \in Int
      BY <3>1 DEF FuzzInv, FuzzType
    <3> QED
      BY <2>1, <2>9, <3>1, <3>2, <3>3, RangeDrawn, BytesDrawn
  <2>10. CASE DrawInt
    <3>1. /\ pc \in Drawing /\ pc' \in Drawing /\ UNCHANGED <<buffer, Size, time>>
          /\ \E w \in Widths : NextBytes(w)
      BY <2>10 DEF DrawInt
    <3>2. PICK w \in Widths : NextBytes(w)
      BY <3>1
    <3>3. w \in Nat
      BY HarnessAssumption, ByteFacts
    <3>4. CounterOfRandData' \in Nat /\ CounterOfRandData' <= SizeOfRandData'
      BY <3>1, <3>2, <3>3, NextBytesCounts DEF buffer
    <3>5. time' \in Int
      BY <3>1 DEF FuzzInv, FuzzType
    <3> QED
      BY <2>1, <2>10, <3>1, <3>4, <3>5, IntDrawn, BytesDrawn
  <2>11. CASE Use
    <3>1. /\ pc \in Drawing /\ pc' \in Drawing
          /\ UNCHANGED <<buffer, Size, CounterOfRandData, time>> /\ draw' = Nothing
      BY <2>11 DEF Use
    <3>2. DrawInRange'
      BY <3>1 DEF DrawInRange, Nothing
    <3>3. time' \in Int /\ CounterOfRandData' \in Nat /\ CounterOfRandData' <= SizeOfRandData'
      BY <3>1 DEF FuzzInv, FuzzType, BufferInv, buffer
    <3> QED
      BY <2>1, <3>1, <3>2, <3>3, BytesDrawn
  <2>12. CASE RequireFails
    <3>1. /\ pc \in Drawing /\ AssumeFails
          /\ UNCHANGED <<buffer, Size, CounterOfRandData, draw, time>>
      BY <2>12 DEF RequireFails
    <3>2. time' \in Int
      BY <3>1 DEF FuzzInv, FuzzType
    <3> QED
      BY <2>1, <3>1, <3>2, AssumeFailsEnds, BufferKept
  <2>13. CASE AssertFails
    <3>1. /\ pc' \in {"exited", "pruned"}
          /\ UNCHANGED <<buffer, Size, CounterOfRandData, draw, time>>
      BY <2>13 DEF AssertFails, sol_assertion_impl
    <3>2. time' \in Int
      BY <3>1 DEF FuzzInv, FuzzType
    <3> QED
      BY <2>1, <3>1, <3>2, BufferKept
  <2>14. CASE NextTransaction
    <3>1. /\ pc \in Drawing /\ pc' \in {"loop", "exited"}
          /\ UNCHANGED <<buffer, Size, CounterOfRandData, draw, time>>
      BY <2>14 DEF NextTransaction
    <3>2. time' \in Int
      BY <3>1 DEF FuzzInv, FuzzType
    <3> QED
      BY <2>1, <3>1, <3>2, BufferKept
  <2>15. CASE Free
    BY <2>1, <2>15 DEF Free, FuzzInv, FuzzType, BufferInv, DrawInRange, fuzzing, backend
  <2> QED
    BY <1>4, <2>2, <2>3, <2>4, <2>5, <2>6, <2>7, <2>8, <2>9, <2>10, <2>11, <2>12, <2>13,
       <2>14, <2>15 DEF Run
<1> QED
  BY <1>1, <1>2, <1>3, <1>4 DEF Next, Ended

\* The invariant always holds.
LEMMA FuzzAlways == Spec => []FuzzInv
  BY FuzzInit, FuzzNext, PTL DEF Spec

\* Between inputs every buffer has been freed once, and while the fuzzer draws,
\* its buffer is live and the counter within it, for inputs of every size.
THEOREM BufferIsOwned == Spec => []BufferOwned
<1>1. FuzzInv => BufferOwned
  BY DEF FuzzInv, BufferInv, BufferOwned
<1> QED
  BY <1>1, FuzzAlways, PTL

\* Whatever the width of the types, the backend and its integers, a choice is one
\* of the alternatives, or a number that the raw type can hold.
THEOREM ChoicesInRange == Spec => []DrawInRange
<1>1. FuzzInv => DrawInRange
  BY DEF FuzzInv
<1> QED
  BY <1>1, FuzzAlways, PTL

\* Time never goes back, and a strict step is one, up to the largest number.
THEOREM TimeNeverGoesBack == Spec => TimeAdvances
<1> DEFINE Advances == (pc \in {"loop", "step", "body"}) =>
                       /\ time' >= time
                       /\ (pc = "step" /\ lockstep /\ pc' = "body") => time' > time
<1>1. FuzzInv /\ Next => Advances
  <2> SUFFICES ASSUME FuzzInv, Next, pc \in {"loop", "step", "body"}
               PROVE  /\ time' >= time
                      /\ (pc = "step" /\ lockstep /\ pc' = "body") => time' > time
    OBVIOUS
  <2>1. time \in Int
    BY DEF FuzzInv, FuzzType
  <2>2. CASE Increase
    <3>1. pc = "step" /\ fuzzing
      BY <2>2 DEF Increase
    <3>2. Base \in Int /\ UINT256_MAX \in Int /\ Base >= time /\ (lockstep => Base > time)
      BY <2>1, UINT256_MAXInt DEF Base
    <3>3. CASE Base < UINT256_MAX
      <4>1. PICK v \in FuzzInt(ints, MaxWidth, FALSE) : time' = Increased(v)
        BY <2>2, <3>3 DEF Increase
      <4>2. ints \in {"BOOST", "STDINT"}
        BY DEF FuzzInv, FuzzType, Builds, ints
      <4>3. v \in Between(RawBounds(ints, MaxWidth, FALSE))
        BY <4>2, ByteFacts, FuzzIntIn
      <4>4. v \in Int
        BY <4>3, ByteFacts, BoundsInt DEF Between
      <4> DEFINE d == UINT256_MAX - Base
      <4>5. d \in Nat \ {0}
        BY <3>2, <3>3
      <4>6. time' = Base + (v % d)
        BY <4>1 DEF Increased
      <4> HIDE DEF d
      <4>7. v % d \in 0 .. (d - 1)
        BY <4>4, <4>5, DivMod
      <4> QED
        BY <2>1, <3>2, <4>5, <4>6, <4>7
    <3>4. CASE ~ (Base < UINT256_MAX)
      <4>1. time' = Base
        BY <2>2, <3>4 DEF Increase
      <4> QED
        BY <2>1, <3>2, <4>1
    <3> QED
      BY <3>3, <3>4
  <2>3. CASE IncreaseTo
    <3>1. time' \in Later(backend, ints, time, lockstep)
      BY <2>3 DEF IncreaseTo
    <3>2. time' \in Int
      BY <3>1, LaterInt DEF FuzzInv, FuzzType, backend, ints
    <3>3. IF lockstep THEN time' > time ELSE time' >= time
      BY <3>1 DEF Later
    <3> QED
      BY <2>1, <3>2, <3>3
  <2>4. CASE time' = time /\ ~ (pc = "step" /\ pc' = "body")
    BY <2>1, <2>4
  <2>5. CASE StrictFails \/ RequireFails
    <3>1. pc' /= "body" /\ time' = time
      BY <2>5, AssumeFailsEnds DEF StrictFails, RequireFails
    <3> QED
      BY <2>4, <3>1
  <2>6. CASE \/ TakeStep \/ DrawRange \/ DrawInt \/ AssertFails \/ NextTransaction
             \/ OutOfData
    <3>1. time' = time /\ ~ (pc = "step" /\ pc' = "body")
      BY <2>6 DEF TakeStep, DrawRange, DrawInt, AssertFails, NextTransaction, OutOfData, Terminate
    <3> QED
      BY <2>4, <3>1
  <2> QED
    BY <2>2, <2>3, <2>5, <2>6
       DEF Next, Setup, sol_setup, Run, Ran, Declare, Use, Free, Ended
<1>2. FuzzInv /\ [Next]_vars => [Advances]_vars
  BY <1>1
<1> QED
  BY <1>2, FuzzAlways, PTL DEF Spec, TimeAdvances
-----------------------------------------------------------------------------
(***************************************************************************)
(* Why the data runs out.  EveryInputEnds is a liveness property and stays *)
(* with TLC; what makes it true is proved here: a number that every step   *)
(* of an exploration decreases.                                            *)
(***************************************************************************)

\* Steps that may follow before the next byte is drawn.  In lockstep mode a byte
\* has been drawn before the time step, elsewhere the time step draws its own.
Rank ==
    IF pc = "drawn" THEN 4
    ELSE IF pc \in {"declare", "body"} THEN 3
    ELSE IF pc = "loop" THEN 2
    ELSE IF lockstep THEN 4 ELSE 1

\* What an exploration has left.
Left == 5 * (SizeOfRandData - CounterOfRandData) + Rank

\* Where every transaction steps, the clock never gets to where nd_increase has
\* nothing to choose from and draws nothing.
ClockRuns ==
    fuzzing /\ ~ lockstep /\ pc \in {"loop", "step", "body", "drawn"} => time < UINT256_MAX

\* While the fuzzer explores, every step of the model brings the end nearer.
DataRunsOut ==
    [][fuzzing /\ pc \in Drawing /\ pc' \in Drawing => Left' < Left /\ Left' \in Nat /\ Left \in Nat]_vars

\* The greatest time is positive.
LEMMA ClockMax == UINT256_MAX \in Int /\ UINT256_MAX >= 1
<1>1. Widest \in Nat /\ Widest >= 1
  BY WidestFacts, ContainerFacts
<1> DEFINE n == Widest - 1
<1>2. n \in Nat /\ Widest = n + 1
  BY <1>1
<1> HIDE DEF n
<1>3. Values[n] \in Nat /\ Values[n] >= 1 /\ Values[Widest] = BYTE * Values[n]
  BY <1>2, ValuesDefined, ValuesPositive
<1>4. ASSUME NEW x \in Nat, x >= 1 PROVE BYTE * x >= 2 /\ BYTE * x \in Nat
  BY <1>4, ByteFacts
<1> QED
  BY <1>3, <1>4 DEF UINT256_MAX

\* nd_increase excludes the largest number.
LEMMA IncreasedBelow ==
    ASSUME FuzzInv, Base < UINT256_MAX, NEW v \in FuzzInt(ints, MaxWidth, FALSE)
    PROVE  Increased(v) < UINT256_MAX
<1>1. Base \in Int /\ UINT256_MAX \in Int
  BY UINT256_MAXInt DEF Base, FuzzInv, FuzzType
<1>2. v \in Int
  <2>1. ints \in {"BOOST", "STDINT"}
    BY DEF FuzzInv, FuzzType, Builds, ints
  <2>2. v \in Between(RawBounds(ints, MaxWidth, FALSE))
    BY <2>1, ByteFacts, FuzzIntIn
  <2> QED
    BY <2>2, ByteFacts, BoundsInt DEF Between
<1> DEFINE d == UINT256_MAX - Base
<1>3. d \in Nat \ {0} /\ UINT256_MAX = Base + d
  BY <1>1
<1>4. Increased(v) = Base + (v % d)
  BY DEF Increased
<1> HIDE DEF d
<1>5. v % d \in 0 .. (d - 1)
  BY <1>2, <1>3, DivMod
<1> QED
  BY <1>1, <1>3, <1>4, <1>5

\* Every step keeps the clock below its maximum while each transaction steps.
LEMMA ClockNext == FuzzInv /\ ClockRuns /\ [Next]_vars => ClockRuns'
<1> SUFFICES ASSUME FuzzInv, ClockRuns, [Next]_vars PROVE ClockRuns'
  OBVIOUS
<1>1. UINT256_MAX' = UINT256_MAX
  OBVIOUS
<1>2. CASE UNCHANGED vars
  BY <1>2 DEF vars, options, ClockRuns, fuzzing, backend
<1>3. CASE Setup \/ sol_setup \/ Ended
  BY <1>3 DEF Setup, sol_setup, Ended, vars, options, ClockRuns, fuzzing, backend
<1>4. CASE Run
  <2>1. UNCHANGED <<build, lockstep>>
    BY <1>4 DEF Run, options
  <2>2. fuzzing' = fuzzing
    BY <2>1 DEF fuzzing, backend
  <2> SUFFICES ASSUME fuzzing, ~ lockstep, pc' \in {"loop", "step", "body", "drawn"}
               PROVE  time' < UINT256_MAX
    BY <2>1, <2>2 DEF ClockRuns
  <2>3. CASE Declare
    BY <2>3, ClockMax DEF Declare
  <2>4. CASE Increase
    <3>1. time < UINT256_MAX /\ Base = time
      BY <2>4 DEF Increase, ClockRuns, Base
    <3>2. PICK v \in FuzzInt(ints, MaxWidth, FALSE) : time' = Increased(v)
      BY <2>4, <3>1 DEF Increase
    <3> QED
      BY <3>1, <3>2, IncreasedBelow
  <2>5. CASE TakeStep \/ DrawRange \/ DrawInt \/ Use \/ NextTransaction
    <3>1. time' = time /\ pc \in {"loop", "step", "body", "drawn"}
      BY <2>5 DEF TakeStep, DrawRange, DrawInt, Use, NextTransaction
    <3> QED
      BY <3>1 DEF ClockRuns
  <2>6. CASE StrictFails \/ RequireFails
    <3>1. pc' = "free"
      BY <2>6, AssumeFailsEnds DEF StrictFails, RequireFails
    <3> QED
      BY <3>1
  <2>7. CASE Ran \/ OutOfData \/ IncreaseTo \/ AssertFails \/ Free
    BY <2>7 DEF Ran, OutOfData, IncreaseTo, AssertFails, sol_assertion_impl, Free, Terminate
  <2> QED
    BY <1>4, <2>3, <2>4, <2>5, <2>6, <2>7 DEF Run
<1> QED
  BY <1>2, <1>3, <1>4 DEF Next

\* A step that draws at least a byte uses up more than the rank can give back.
LEMMA DrawingHelps ==
    ASSUME FuzzInv, FuzzInv', SizeOfRandData' = SizeOfRandData,
           \/ CounterOfRandData' >= CounterOfRandData + 1
           \/ CounterOfRandData' = CounterOfRandData /\ Rank' < Rank
    PROVE  Left' < Left /\ Left' \in Nat /\ Left \in Nat
<1>1. Rank \in 1 .. 4 /\ Rank' \in 1 .. 4
  BY DEF Rank
<1>2. /\ SizeOfRandData \in Nat /\ CounterOfRandData \in Nat /\ CounterOfRandData' \in Nat
      /\ CounterOfRandData <= SizeOfRandData /\ CounterOfRandData' <= SizeOfRandData
  BY DEF FuzzInv, FuzzType, BufferInv
<1>3. ASSUME NEW n \in Nat, NEW c \in 0 .. n, NEW d \in 0 .. n, NEW r \in 1 .. 4, NEW q \in 1 .. 4,
             d >= c + 1 \/ (d = c /\ q < r)
      PROVE  /\ 5 * (n - d) + q < 5 * (n - c) + r
             /\ 5 * (n - d) + q \in Nat /\ 5 * (n - c) + r \in Nat
  BY <1>3
<1>4. CounterOfRandData \in 0 .. SizeOfRandData /\ CounterOfRandData' \in 0 .. SizeOfRandData
  BY <1>2
<1> QED
  BY <1>1, <1>2, <1>3, <1>4 DEF Left

\* For inputs of every size, while the fuzzer explores, a natural number gets
\* smaller with every step: the bytes that are left, and the steps to the next
\* draw.  Hence no exploration goes on for ever.
THEOREM ExplorationRunsOut == Spec => DataRunsOut
<1> DEFINE Shrinks == fuzzing /\ pc \in Drawing /\ pc' \in Drawing
                         => Left' < Left /\ Left' \in Nat /\ Left \in Nat
<1>1. FuzzInv /\ FuzzInv' /\ ClockRuns /\ Next => Shrinks \/ UNCHANGED vars
  <2> SUFFICES ASSUME FuzzInv, FuzzInv', ClockRuns, Next, fuzzing, pc \in Drawing, pc' \in Drawing,
                      ~ UNCHANGED vars
               PROVE  Left' < Left /\ Left' \in Nat /\ Left \in Nat
    OBVIOUS
  <2>1. Run
    BY DEF Next, Setup, sol_setup, Ended, Drawing
  <2>2. lockstep' = lockstep
    BY <2>1 DEF Run, options
  <2>3. CounterOfRandData \in Nat /\ MaxWidth \in Nat /\ MaxWidth >= 1
    BY ByteFacts, WidestFacts, ContainerFacts DEF FuzzInv, FuzzType
  <2>4. ASSUME NEW n \in Nat, n >= 1, NextBytes(n)
        PROVE  CounterOfRandData' >= CounterOfRandData + 1
    BY <2>3, <2>4 DEF NextBytes
  <2>5. CASE Declare
    <3>1. SizeOfRandData' = SizeOfRandData /\ pc = "declare" /\ pc' = "loop"
      BY <2>5 DEF Declare, buffer
    <3>2. CASE lockstep
      <4>1. CounterOfRandData' >= CounterOfRandData + 1
        BY <2>3, <2>4, <2>5, <3>2 DEF Declare
      <4> QED
        BY <3>1, <4>1, DrawingHelps
    <3>3. CASE ~ lockstep
      <4>1. CounterOfRandData' = CounterOfRandData /\ Rank' < Rank
        BY <2>5, <3>1, <3>3 DEF Declare, Rank
      <4> QED
        BY <3>1, <4>1, DrawingHelps
    <3> QED
      BY <3>2, <3>3
  <2>6. CASE TakeStep
    <3>1. SizeOfRandData' = SizeOfRandData /\ pc = "loop"
      BY <2>6 DEF TakeStep, buffer
    <3>2. CASE lockstep
      <4>1. CounterOfRandData' >= CounterOfRandData + 1
        <5>1. NextBytes(1)
          BY <2>6, <3>2 DEF TakeStep
        <5> QED
          BY <2>3, <5>1 DEF NextBytes
      <4> QED
        BY <3>1, <4>1, DrawingHelps
    <3>3. CASE ~ lockstep
      <4>1. CounterOfRandData' = CounterOfRandData /\ Rank' < Rank
        BY <2>2, <2>6, <3>1, <3>3 DEF TakeStep, Rank
      <4> QED
        BY <3>1, <4>1, DrawingHelps
    <3> QED
      BY <3>2, <3>3
  <2>7. CASE Increase
    <3>1. SizeOfRandData' = SizeOfRandData /\ pc = "step" /\ pc' = "body"
      BY <2>7 DEF Increase, buffer
    <3>2. CASE Base < UINT256_MAX
      <4>1. CounterOfRandData' >= CounterOfRandData + 1
        BY <2>3, <2>4, <2>7, <3>2 DEF Increase
      <4> QED
        BY <3>1, <4>1, DrawingHelps
    <3>3. CASE ~ (Base < UINT256_MAX)
      <4>1. lockstep
        BY <3>1, <3>3 DEF ClockRuns, Base
      <4>2. CounterOfRandData' = CounterOfRandData /\ Rank' < Rank
        BY <2>7, <3>1, <3>3, <4>1 DEF Increase, Rank
      <4> QED
        BY <3>1, <4>2, DrawingHelps
    <3> QED
      BY <3>2, <3>3
  <2>8. CASE DrawRange
    <3>1. SizeOfRandData' = SizeOfRandData /\ NextBytes(1)
      BY <2>8 DEF DrawRange, buffer
    <3>2. CounterOfRandData' >= CounterOfRandData + 1
      BY <2>3, <3>1 DEF NextBytes
    <3> QED
      BY <3>1, <3>2, DrawingHelps
  <2>9. CASE DrawInt
    <3>1. PICK w \in Widths : NextBytes(w)
      BY <2>9 DEF DrawInt
    <3>2. w \in Nat /\ w >= 1
      BY HarnessAssumption, ByteFacts
    <3>3. SizeOfRandData' = SizeOfRandData /\ CounterOfRandData' >= CounterOfRandData + 1
      BY <2>4, <2>9, <3>1, <3>2 DEF DrawInt, buffer
    <3> QED
      BY <3>3, DrawingHelps
  <2>10. CASE Use \/ NextTransaction
    <3>1. /\ SizeOfRandData' = SizeOfRandData /\ CounterOfRandData' = CounterOfRandData
          /\ Rank' < Rank
      BY <2>10 DEF Use, NextTransaction, buffer, Rank, Drawing
    <3> QED
      BY <3>1, DrawingHelps
  <2>11. CASE StrictFails \/ RequireFails
    <3>1. pc' = "free"
      BY <2>11, AssumeFailsEnds DEF StrictFails, RequireFails
    <3> QED
      BY <3>1 DEF Drawing
  <2> QED
    BY <2>1, <2>5, <2>6, <2>7, <2>8, <2>9, <2>10, <2>11
       DEF Run, Ran, OutOfData, IncreaseTo, AssertFails, sol_assertion_impl, Free, Terminate, Drawing
<1>2. FuzzInv /\ FuzzInv' /\ ClockRuns /\ [Next]_vars => [Shrinks]_vars
  BY <1>1
<1>3. Init => ClockRuns
  BY DEF Init, ClockRuns
<1> QED
  BY <1>2, <1>3, ClockNext, FuzzAlways, PTL DEF Spec, DataRunsOut
=============================================================================
