-------------------------- MODULE KeyIteratorProofs --------------------------
(***************************************************************************)
(* The enumeration of the keys of a mapping visits each wanted key exactly *)
(* once and in order, for every width, depth and cut-off, and every step   *)
(* of it comes closer to the end.                                          *)
(***************************************************************************)
EXTENDS KeyIterator, ArithmeticLemmas, SequenceTheorems

\* k comes before every string that starts with p.
Before(k, p) ==
    \E i \in 1 .. Len(p) :
        /\ k[i] < p[i]
        /\ \A j \in 1 .. (i - 1) : k[j] = p[j]

\* The string is a prefix of a key, but that its last digit may be one too large
\* while a carry is pending.
IndicesOK ==
    /\ m_indices \in Seq(Nat)
    /\ Len(m_indices) <= M_DEPTH
    /\ \A i \in 1 .. Len(m_indices) :
          \/ m_indices[i] < M_WIDTH
          \/ pc = "carry" /\ i = Len(m_indices) /\ m_indices[i] = M_WIDTH

TypeInv ==
    /\ M_WIDTH \in Nat /\ M_DEPTH \in Nat /\ M_INCLUDE \in Nat
    /\ pc \in {"use", "next", "carry", "done"}
    /\ IndicesOK
    /\ pc = "carry" => m_indices /= <<>>
    /\ used \in Seq(Wanted)

\* The keys that the loop is past.
Passed(k) ==
    \/ pc = "done"
    \/ Before(k, m_indices)
    \/ pc = "next" /\ k = m_indices

\* Exactly the wanted keys that the loop is past have been used.
PassedUsed ==
    \A k \in Wanted : (\E i \in 1 .. Len(used) : used[i] = k) <=> Passed(k)

KeyInv == TypeInv /\ PassedUsed /\ UsedInOrder
-----------------------------------------------------------------------------
\* Bump adds one to the last digit and changes no other.
LEMMA BumpProperties ==
    ASSUME NEW s \in Seq(Nat), s /= <<>>
    PROVE  /\ Bump(s) \in Seq(Nat)
           /\ Len(Bump(s)) = Len(s)
           /\ Len(s) \in Nat \ {0}
           /\ s[Len(s)] \in Nat
           /\ Bump(s)[Len(s)] = s[Len(s)] + 1
           /\ \A i \in 1 .. (Len(s) - 1) : Bump(s)[i] = s[i]
<1>1. Len(s) \in Nat \ {0} /\ s[Len(s)] \in Nat
  OBVIOUS
<1>2. Bump(s) = [i \in 1 .. Len(s) |-> IF i = Len(s) THEN s[i] + 1 ELSE s[i]]
  BY DEF Bump
<1>3. \A i \in 1 .. Len(s) : (IF i = Len(s) THEN s[i] + 1 ELSE s[i]) \in Nat
  OBVIOUS
<1>4. Bump(s) \in Seq(Nat) /\ Len(Bump(s)) = Len(s)
  BY <1>1, <1>2, <1>3, SMT
<1>5. /\ Bump(s)[Len(s)] = s[Len(s)] + 1
      /\ \A i \in 1 .. (Len(s) - 1) : Bump(s)[i] = s[i]
  <2> DEFINE n == Len(s)
  <2>1. n \in 1 .. n /\ \A i \in 1 .. (n - 1) : i \in 1 .. n /\ i /= n
    BY <1>1
  <2> QED
    BY <1>2, <2>1
<1> QED
  BY <1>1, <1>4, <1>5

\* Pop drops the last digit.
LEMMA PopProperties ==
    ASSUME NEW s \in Seq(Nat), s /= <<>>
    PROVE  /\ Pop(s) \in Seq(Nat)
           /\ Len(Pop(s)) = Len(s) - 1
           /\ \A i \in 1 .. (Len(s) - 1) : Pop(s)[i] = s[i]
<1>1. Len(s) \in Nat \ {0}
  OBVIOUS
<1>2. Pop(s) = [i \in 1 .. (Len(s) - 1) |-> s[i]]
  BY <1>1 DEF Pop
<1>3. \A i \in 1 .. (Len(s) - 1) : s[i] \in Nat
  BY <1>1
<1>4. Len(s) - 1 \in Nat
  BY <1>1
<1> QED
  BY <1>2, <1>3, <1>4

\* A digit more, zero, comes after the same keys.
LEMMA BeforeExtended ==
    ASSUME NEW s \in Seq(Nat), NEW k, \A i \in 1 .. (Len(s) + 1) : k[i] \in Nat
    PROVE  Before(k, Append(s, 0)) <=> Before(k, s)
<1>1. /\ Len(Append(s, 0)) = Len(s) + 1
      /\ Append(s, 0)[Len(s) + 1] = 0
      /\ \A i \in 1 .. Len(s) : Append(s, 0)[i] = s[i]
  OBVIOUS
<1>2. ~ (k[Len(s) + 1] < 0)
  OBVIOUS
<1> QED
  BY <1>1, <1>2 DEF Before

\* The successor of the last digit comes after the keys before the string and
\* those that agree with it.
LEMMA BeforeBumped ==
    ASSUME NEW s \in Seq(Nat), s /= <<>>, NEW k, \A i \in 1 .. Len(s) : k[i] \in Nat
    PROVE  Before(k, Bump(s)) <=> Before(k, s) \/ \A i \in 1 .. Len(s) : k[i] = s[i]
<1> DEFINE n == Len(s)
           b == Bump(s)
<1>1. /\ Len(b) = n /\ n \in Nat \ {0} /\ s[n] \in Nat /\ b[n] = s[n] + 1
      /\ \A i \in 1 .. (n - 1) : b[i] = s[i]
  BY BumpProperties
<1>2. k[n] \in Nat /\ (k[n] < b[n] <=> k[n] < s[n] \/ k[n] = s[n])
  BY <1>1
<1> HIDE DEF n, b
<1>3. ASSUME Before(k, b) PROVE Before(k, s) \/ \A i \in 1 .. n : k[i] = s[i]
  <2>1. PICK i \in 1 .. n : k[i] < b[i] /\ \A j \in 1 .. (i - 1) : k[j] = b[j]
    BY <1>1, <1>3 DEF Before
  <2>2. \A j \in 1 .. (i - 1) : k[j] = s[j]
    BY <1>1, <2>1
  <2>3. CASE k[i] < s[i]
    BY <2>2, <2>3 DEF Before, n
  <2>4. CASE i = n /\ k[n] = s[n]
    <3>1. ASSUME NEW j \in 1 .. n, j /= n PROVE j \in 1 .. (n - 1)
      BY <1>1, <3>1
    <3> QED
      BY <2>2, <2>4, <3>1
  <2>5. CASE i /= n
    <3>1. i \in 1 .. (n - 1)
      BY <1>1, <2>5
    <3> QED
      BY <1>1, <2>1, <2>3, <3>1
  <2> QED
    BY <1>2, <2>1, <2>3, <2>4, <2>5
<1>4. ASSUME Before(k, s) PROVE Before(k, b)
  <2>1. PICK i \in 1 .. n : k[i] < s[i] /\ \A j \in 1 .. (i - 1) : k[j] = s[j]
    BY <1>4 DEF Before, n
  <2>2. \A j \in 1 .. (i - 1) : k[j] = b[j]
    BY <1>1, <2>1
  <2>3. k[i] < b[i]
    BY <1>1, <1>2, <2>1
  <2> QED
    BY <1>1, <2>2, <2>3 DEF Before
<1>5. ASSUME \A i \in 1 .. n : k[i] = s[i] PROVE Before(k, b)
  <2>1. n \in 1 .. Len(b) /\ k[n] < b[n] /\ \A j \in 1 .. (n - 1) : k[j] = b[j]
    BY <1>1, <1>2, <1>5
  <2> QED
    BY <2>1 DEF Before
<1> QED
  BY <1>3, <1>4, <1>5 DEF n, b

\* If the last digit is larger than that of every key, the string comes after
\* the keys that come before it or agree with it without that digit.
LEMMA BeforePopped ==
    ASSUME NEW s \in Seq(Nat), s /= <<>>, NEW k, k[Len(s)] < s[Len(s)]
    PROVE  Before(k, s) <=> Before(k, Pop(s)) \/ \A i \in 1 .. Len(Pop(s)) : k[i] = Pop(s)[i]
<1> DEFINE n == Len(s)
           p == Pop(s)
<1>1. n \in Nat \ {0} /\ Len(p) = n - 1 /\ \A i \in 1 .. (n - 1) : p[i] = s[i]
  BY PopProperties
<1> HIDE DEF n, p
<1>2. ASSUME Before(k, s) PROVE Before(k, p) \/ \A i \in 1 .. (n - 1) : k[i] = p[i]
  <2>1. PICK i \in 1 .. n : k[i] < s[i] /\ \A j \in 1 .. (i - 1) : k[j] = s[j]
    BY <1>2 DEF Before, n
  <2>2. \A j \in 1 .. (i - 1) : k[j] = p[j]
    BY <1>1, <2>1
  <2>3. CASE i = n
    BY <2>2, <2>3
  <2>4. CASE i < n
    <3>1. i \in 1 .. Len(p) /\ k[i] < p[i]
      BY <1>1, <2>1, <2>4
    <3> QED
      BY <2>2, <3>1 DEF Before
  <2> QED
    BY <1>1, <2>3, <2>4
<1>3. ASSUME Before(k, p) PROVE Before(k, s)
  <2>1. PICK i \in 1 .. (n - 1) : k[i] < p[i] /\ \A j \in 1 .. (i - 1) : k[j] = p[j]
    BY <1>1, <1>3 DEF Before
  <2>2. i \in 1 .. n /\ k[i] < s[i] /\ \A j \in 1 .. (i - 1) : k[j] = s[j]
    BY <1>1, <2>1
  <2> QED
    BY <2>2 DEF Before, n
<1>4. ASSUME \A i \in 1 .. (n - 1) : k[i] = p[i] PROVE Before(k, s)
  <2>1. n \in 1 .. n /\ k[n] < s[n] /\ \A j \in 1 .. (n - 1) : k[j] = s[j]
    BY <1>1, <1>4 DEF n
  <2> QED
    BY <2>1 DEF Before, n
<1> QED
  BY <1>1, <1>2, <1>3, <1>4 DEF n, p

-----------------------------------------------------------------------------
\* A wanted key has the depth of the mapping and digits below its width.
LEMMA WantedKeys ==
    ASSUME TypeInv, NEW k \in Wanted
    PROVE  /\ k \in [1 .. M_DEPTH -> 0 .. (M_WIDTH - 1)]
           /\ \A i \in 1 .. M_DEPTH : k[i] \in Nat /\ k[i] < M_WIDTH
  BY DEF Wanted, TypeInv

\* An empty search space has no wanted key.
LEMMA NoneWanted ==
    ASSUME TypeInv, M_WIDTH = 0 \/ M_DEPTH = 0
    PROVE  Wanted = {}
<1> SUFFICES ASSUME NEW k \in Wanted PROVE FALSE
  OBVIOUS
<1>1. PICK i \in 1 .. M_DEPTH : k[i] >= M_INCLUDE
  BY DEF Wanted
<1>2. k[i] \in Nat /\ k[i] < M_WIDTH /\ M_DEPTH \in Nat
  BY WantedKeys DEF TypeInv
<1> QED
  BY <1>1, <1>2

\* The invariant holds when the iterator is built.
LEMMA KeyInit == Init => KeyInv
<1> SUFFICES ASSUME Init PROVE KeyInv
  OBVIOUS
<1>1. TypeInv
  BY BoundAssumption DEF Init, TypeInv, IndicesOK
<1>2. PassedUsed
  <2>1. \A k \in Wanted : ~ Passed(k)
    <3> SUFFICES ASSUME NEW k \in Wanted, Passed(k) PROVE FALSE
      OBVIOUS
    <3>1. Before(k, <<>>)
      BY DEF Init, Passed
    <3> QED
      BY <3>1 DEF Before
  <2> QED
    BY <2>1 DEF Init, PassedUsed
<1>3. UsedInOrder
  BY DEF Init, UsedInOrder
<1> QED
  BY <1>1, <1>2, <1>3 DEF KeyInv

\* The keys are those of the dimensions, which do not change.
LEMMA SameWanted == UNCHANGED dims => Wanted' = Wanted
  BY DEF dims, Wanted

\* A step that uses no key keeps the invariant if it passes no wanted key.
LEMMA NothingUsed ==
    ASSUME KeyInv, UNCHANGED <<dims, used>>, TypeInv',
           \A k \in Wanted : Passed(k)' <=> Passed(k)
    PROVE  KeyInv'
<1>1. Wanted' = Wanted
  BY SameWanted DEF dims
<1>2. PassedUsed'
  BY <1>1 DEF KeyInv, PassedUsed
<1>3. UsedInOrder'
  BY DEF KeyInv, UsedInOrder
<1> QED
  BY <1>2, <1>3 DEF KeyInv

\* The body of the loop keeps the invariant.
LEMMA UseKeeps == ASSUME KeyInv, Use PROVE KeyInv'
<1>1. /\ UNCHANGED <<M_WIDTH, M_DEPTH, M_INCLUDE, m_indices>> /\ pc = "use" /\ pc' = "next"
      /\ used' = IF is_full THEN Append(used, m_indices) ELSE used
      /\ UNCHANGED dims
  BY DEF Use, dims
<1>2. TypeInv /\ Wanted' = Wanted /\ used \in Seq(Wanted)
  BY <1>1, SameWanted DEF KeyInv, TypeInv
<1>3. m_indices \in Wanted <=> is_full
  <2>1. m_indices \in Seq(Nat) /\ \A i \in 1 .. Len(m_indices) : m_indices[i] < M_WIDTH
    BY <1>1, <1>2 DEF TypeInv, IndicesOK
  <2>2. ASSUME is_full PROVE m_indices \in Wanted
    <3>1. M_DEPTH = Len(m_indices) /\ \E i \in 1 .. M_DEPTH : m_indices[i] >= M_INCLUDE
      BY <2>1, <2>2 DEF is_full, is_at_max
    <3>2. M_WIDTH \in Nat /\ \A i \in 1 .. M_DEPTH : m_indices[i] \in Nat
      BY <1>2, <2>1, <3>1 DEF TypeInv
    <3>3. \A i \in 1 .. M_DEPTH : m_indices[i] \in 0 .. (M_WIDTH - 1)
      BY <2>1, <3>1, <3>2
    <3>4. m_indices \in [1 .. M_DEPTH -> 0 .. (M_WIDTH - 1)]
      BY <2>1, <3>1, <3>3
    <3> QED
      BY <3>1, <3>4 DEF Wanted
  <2>3. ASSUME m_indices \in Wanted PROVE is_full
    <3>1. DOMAIN m_indices = 1 .. M_DEPTH /\ \E i \in 1 .. M_DEPTH : m_indices[i] >= M_INCLUDE
      BY <2>3 DEF Wanted
    <3>2. M_DEPTH \in Nat /\ Len(m_indices) \in Nat /\ DOMAIN m_indices = 1 .. Len(m_indices)
      BY <1>2, <2>1 DEF TypeInv
    <3>3. Len(m_indices) = M_DEPTH /\ M_DEPTH > 0
      BY <3>1, <3>2
    <3> QED
      BY <3>1, <3>3 DEF is_full, is_at_max
  <2> QED
    BY <2>2, <2>3
<1>4. \A k \in Wanted : Passed(k)' <=> Passed(k) \/ k = m_indices
  BY <1>1 DEF Passed, Before
<1>5. CASE ~ is_full
  <2>1. used' = used /\ m_indices \notin Wanted
    BY <1>1, <1>3, <1>5
  <2>2. TypeInv'
    BY <1>1, <1>2, <2>1 DEF TypeInv, IndicesOK
  <2> QED
    BY <1>1, <1>4, <2>1, <2>2, NothingUsed
<1>6. CASE is_full
  <2>1. used' = Append(used, m_indices) /\ m_indices \in Wanted
    BY <1>1, <1>3, <1>6
  <2>2. used' \in Seq(Wanted)
    BY <1>2, <2>1
  <2>3. /\ Len(used) \in Nat /\ Len(used') = Len(used) + 1
        /\ used'[Len(used) + 1] = m_indices
        /\ \A i \in 1 .. Len(used) : used'[i] = used[i] /\ used[i] \in Wanted
    BY <1>2, <2>1
  <2>4. TypeInv'
    BY <1>1, <1>2, <2>2 DEF TypeInv, IndicesOK
  <2>5. PassedUsed'
    <3> SUFFICES ASSUME NEW k \in Wanted
                 PROVE  (\E i \in 1 .. Len(used') : used'[i] = k) <=> Passed(k)'
      BY <1>2 DEF PassedUsed
    <3>1. (\E i \in 1 .. Len(used') : used'[i] = k)
             <=> (\E i \in 1 .. Len(used) : used[i] = k) \/ k = m_indices
      BY <2>3
    <3> QED
      BY <1>4, <3>1 DEF KeyInv, PassedUsed
  <2>6. ASSUME NEW i \in 1 .. Len(used) PROVE Precedes(used[i], m_indices)
    <3>1. used[i] \in Wanted /\ Passed(used[i])
      BY <2>3 DEF KeyInv, PassedUsed
    <3>2. Before(used[i], m_indices)
      BY <1>1, <3>1 DEF Passed
    <3>3. DOMAIN used[i] = 1 .. Len(m_indices)
      BY <1>2, <1>6, <3>1, WantedKeys DEF is_full, is_at_max
    <3> QED
      BY <3>2, <3>3 DEF Before, Precedes
  <2>7. UsedInOrder'
    <3> SUFFICES ASSUME NEW i \in 1 .. (Len(used) + 1), NEW j \in 1 .. (Len(used) + 1), i < j
                 PROVE  Precedes(used'[i], used'[j])
      BY <2>2, <2>3 DEF UsedInOrder
    <3>1. i \in 1 .. Len(used) /\ used'[i] = used[i]
      BY <2>3
    <3>2. CASE j = Len(used) + 1
      BY <2>3, <2>6, <3>1, <3>2
    <3>3. CASE j /= Len(used) + 1
      <4>1. j \in 1 .. Len(used) /\ used'[j] = used[j]
        BY <2>3, <3>3
      <4> QED
        BY <1>2, <3>1, <4>1 DEF KeyInv, UsedInOrder
    <3> QED
      BY <3>2, <3>3
  <2> QED
    BY <2>4, <2>5, <2>7 DEF KeyInv
<1> QED
  BY <1>5, <1>6

\* A further digit keeps the invariant: no wanted key is passed.
LEMMA ExtendKeeps == ASSUME KeyInv, Extend PROVE KeyInv'
<1>1. /\ UNCHANGED <<M_WIDTH, M_DEPTH, M_INCLUDE, used>> /\ pc = "next" /\ pc' = "use"
      /\ m_indices' = Append(m_indices, 0)
      /\ UNCHANGED <<dims, used>>
      /\ M_WIDTH /= 0 /\ M_DEPTH /= 0 /\ ~ is_at_max
  BY DEF Extend, dims
<1>2. TypeInv /\ m_indices \in Seq(Nat) /\ Len(m_indices) \in Nat
  BY DEF KeyInv, TypeInv, IndicesOK
<1>3. Len(m_indices) + 1 <= M_DEPTH
  BY <1>1, <1>2 DEF TypeInv, IndicesOK, is_at_max
<1>4. TypeInv'
  <2>1. \A i \in 1 .. Len(m_indices) : m_indices[i] < M_WIDTH
    BY <1>1, <1>2 DEF TypeInv, IndicesOK
  <2>2. /\ m_indices' \in Seq(Nat) /\ Len(m_indices') = Len(m_indices) + 1
        /\ m_indices'[Len(m_indices) + 1] = 0
        /\ \A i \in 1 .. Len(m_indices) : m_indices'[i] = m_indices[i]
    BY <1>1, <1>2
  <2>3. \A i \in 1 .. Len(m_indices') : m_indices'[i] < M_WIDTH
    <3> SUFFICES ASSUME NEW i \in 1 .. (Len(m_indices) + 1) PROVE m_indices'[i] < M_WIDTH
      BY <2>2
    <3>1. CASE i = Len(m_indices) + 1
      BY <1>1, <1>2, <2>2, <3>1 DEF TypeInv
    <3>2. CASE i \in 1 .. Len(m_indices)
      BY <2>1, <2>2, <3>2
    <3> QED
      BY <1>2, <3>1, <3>2
  <2>4. IndicesOK'
    BY <1>1, <1>3, <2>2, <2>3 DEF IndicesOK
  <2> QED
    BY <1>1, <1>2, <2>4, SameWanted DEF TypeInv
<1>5. ASSUME NEW k \in Wanted PROVE Passed(k)' <=> Passed(k)
  <2>1. \A i \in 1 .. (Len(m_indices) + 1) : k[i] \in Nat
    BY <1>2, <1>3, WantedKeys DEF TypeInv
  <2>2. Before(k, m_indices') <=> Before(k, m_indices)
    BY <1>1, <1>2, <2>1, BeforeExtended
  <2>3. k /= m_indices
    <3>1. DOMAIN k = 1 .. M_DEPTH /\ DOMAIN m_indices = 1 .. Len(m_indices)
      BY <1>2, WantedKeys
    <3>2. M_DEPTH \in 1 .. M_DEPTH /\ M_DEPTH \notin 1 .. Len(m_indices)
      BY <1>1, <1>2, <1>3 DEF TypeInv
    <3> QED
      BY <3>1, <3>2
  <2>4. Passed(k)' <=> Before(k, m_indices')
    BY <1>1 DEF Passed, Before
  <2> QED
    BY <1>1, <2>2, <2>3, <2>4 DEF Passed
<1> QED
  BY <1>1, <1>4, <1>5, NothingUsed

\* The increment of the last digit keeps the invariant: no further wanted key is passed.
LEMMA IncrementKeeps == ASSUME KeyInv, Increment PROVE KeyInv'
<1>1. /\ UNCHANGED <<M_WIDTH, M_DEPTH, M_INCLUDE, used>> /\ pc = "next" /\ pc' = "carry"
      /\ m_indices' = Bump(m_indices)
      /\ UNCHANGED <<dims, used>>
      /\ M_DEPTH > 0 /\ Len(m_indices) = M_DEPTH
  BY DEF Increment, dims, is_at_max
<1>2. TypeInv /\ m_indices \in Seq(Nat) /\ m_indices /= <<>>
  BY <1>1 DEF KeyInv, TypeInv, IndicesOK
<1> DEFINE n == Len(m_indices)
<1>3. /\ m_indices' \in Seq(Nat) /\ Len(m_indices') = n /\ n \in Nat \ {0}
      /\ m_indices[n] \in Nat /\ m_indices'[n] = m_indices[n] + 1
      /\ \A i \in 1 .. (n - 1) : m_indices'[i] = m_indices[i]
  BY <1>1, <1>2, BumpProperties
<1>4. TypeInv'
  <2>1. \A i \in 1 .. n : m_indices[i] < M_WIDTH
    BY <1>1, <1>2 DEF TypeInv, IndicesOK
  <2>2. M_WIDTH \in Nat /\ n \in 1 .. n
    BY <1>2, <1>3 DEF TypeInv
  <2>3. ASSUME NEW i \in 1 .. n
        PROVE  m_indices'[i] < M_WIDTH \/ (i = n /\ m_indices'[i] = M_WIDTH)
    <3>1. CASE i = n
      BY <1>3, <2>1, <2>2, <3>1
    <3>2. CASE i /= n
      <4>1. i \in 1 .. (n - 1)
        BY <1>3, <3>2
      <4> QED
        BY <1>3, <2>1, <4>1
    <3> QED
      BY <3>1, <3>2
  <2>4. IndicesOK'
    BY <1>1, <1>2, <1>3, <2>3 DEF TypeInv, IndicesOK
  <2>5. m_indices' /= <<>>
    BY <1>3
  <2> QED
    BY <1>1, <1>2, <2>4, <2>5, SameWanted DEF TypeInv
<1>5. ASSUME NEW k \in Wanted PROVE Passed(k)' <=> Passed(k)
  <2>1. /\ \A i \in 1 .. n : k[i] \in Nat
        /\ DOMAIN k = 1 .. n
    BY <1>1, <1>2, WantedKeys
  <2>2. Before(k, m_indices') <=> Before(k, m_indices) \/ \A i \in 1 .. n : k[i] = m_indices[i]
    BY <1>1, <1>2, <2>1, BeforeBumped
  <2>3. (\A i \in 1 .. n : k[i] = m_indices[i]) <=> k = m_indices
    <3>1. k \in [1 .. n -> Nat] /\ m_indices \in [1 .. n -> Nat]
      <4>1. k = [i \in 1 .. n |-> k[i]]
        BY <1>1, <1>2, WantedKeys
      <4> QED
        BY <1>2, <2>1, <4>1
    <3> QED
      BY <3>1
  <2>4. Passed(k)' <=> Before(k, m_indices')
    BY <1>1 DEF Passed, Before
  <2> QED
    BY <1>1, <2>2, <2>3, <2>4 DEF Passed
<1> QED
  BY <1>1, <1>4, <1>5, NothingUsed

\* A carry keeps the invariant: no wanted key has the digit that overflows.
LEMMA CarryKeeps == ASSUME KeyInv, Carry PROVE KeyInv'
<1>1. /\ UNCHANGED <<M_WIDTH, M_DEPTH, M_INCLUDE, used>> /\ pc = "carry"
      /\ UNCHANGED <<dims, used>>
  BY DEF Carry, dims
<1>2. TypeInv /\ m_indices \in Seq(Nat) /\ m_indices /= <<>>
  BY <1>1 DEF KeyInv, TypeInv, IndicesOK
<1> DEFINE n == Len(m_indices)
           p == Pop(m_indices)
<1>3. n \in Nat \ {0} /\ n <= M_DEPTH /\ M_DEPTH \in Nat /\ M_WIDTH \in Nat
  BY <1>2 DEF TypeInv, IndicesOK
<1>4. CASE Back /= M_WIDTH
  <2>1. pc' = "use" /\ m_indices' = m_indices
    BY <1>4 DEF Carry
  <2>2. m_indices[n] /= M_WIDTH
    BY <1>4 DEF Back
  <2>3. IndicesOK'
    BY <1>1, <1>2, <2>1, <2>2 DEF TypeInv, IndicesOK
  <2>4. TypeInv'
    BY <1>1, <1>2, <2>1, <2>3, SameWanted DEF TypeInv
  <2>5. \A k \in Wanted : Passed(k)' <=> Passed(k)
    BY <1>1, <2>1 DEF Passed, Before
  <2> QED
    BY <1>1, <2>4, <2>5, NothingUsed
<1>5. ASSUME Back = M_WIDTH, NEW k \in Wanted
      PROVE  /\ \A i \in 1 .. Len(p) : k[i] \in Nat
             /\ Before(k, m_indices)
                   <=> Before(k, p) \/ \A i \in 1 .. Len(p) : k[i] = p[i]
  <2>1. /\ n \in 1 .. M_DEPTH
        /\ \A i \in 1 .. (n - 1) : i \in 1 .. M_DEPTH
    BY <1>3
  <2>2. k[n] < m_indices[n]
    BY <1>2, <1>5, <2>1, WantedKeys DEF Back
  <2>3. \A i \in 1 .. (n - 1) : k[i] \in Nat
    BY <1>2, <2>1, WantedKeys
  <2>4. Len(p) = n - 1
    BY <1>2, PopProperties
  <2> QED
    BY <1>2, <2>2, <2>3, <2>4, BeforePopped
<1>6. CASE Back = M_WIDTH /\ n = 1
  <2>1. pc' = "done" /\ m_indices' = <<>>
    BY <1>6 DEF Carry
  <2>2. IndicesOK'
    BY <1>1, <1>3, <2>1 DEF IndicesOK
  <2>3. TypeInv'
    BY <1>1, <1>2, <2>1, <2>2, SameWanted DEF TypeInv
  <2>4. ASSUME NEW k \in Wanted PROVE Passed(k)' /\ Passed(k)
    <3>1. Len(p) = 0
      BY <1>2, <1>6, PopProperties
    <3>2. Before(k, m_indices)
      BY <1>5, <1>6, <3>1
    <3> QED
      BY <2>1, <3>2 DEF Passed
  <2> QED
    BY <1>1, <2>3, <2>4, NothingUsed
<1>7. CASE Back = M_WIDTH /\ n /= 1
  <2>1. pc' = "carry" /\ m_indices' = Bump(p)
    BY <1>7 DEF Carry
  <2>2. /\ p \in Seq(Nat) /\ Len(p) = n - 1
        /\ \A i \in 1 .. (n - 1) : p[i] = m_indices[i]
    BY <1>2, PopProperties
  <2>3. p /= <<>>
    BY <1>3, <1>7, <2>2
  <2> HIDE DEF p
  <2>4. /\ m_indices' \in Seq(Nat) /\ Len(m_indices') = n - 1
        /\ p[n - 1] \in Nat /\ m_indices'[n - 1] = p[n - 1] + 1
        /\ \A i \in 1 .. (n - 2) : m_indices'[i] = p[i]
    <3>1. /\ Bump(p) \in Seq(Nat) /\ Len(Bump(p)) = Len(p)
          /\ p[Len(p)] \in Nat /\ Bump(p)[Len(p)] = p[Len(p)] + 1
          /\ \A i \in 1 .. (Len(p) - 1) : Bump(p)[i] = p[i]
      BY <2>2, <2>3, BumpProperties
    <3>2. Len(p) - 1 = n - 2
      BY <1>3, <2>2
    <3> QED
      BY <2>1, <2>2, <3>1, <3>2
  <2>5. ASSUME NEW i \in 1 .. (n - 1) PROVE p[i] < M_WIDTH
    <3>1. i \in 1 .. n /\ i /= n
      BY <1>3
    <3>2. m_indices[i] < M_WIDTH
      BY <1>2, <3>1 DEF TypeInv, IndicesOK
    <3> QED
      BY <2>2, <3>2
  <2>6. ASSUME NEW i \in 1 .. (n - 1)
        PROVE  m_indices'[i] < M_WIDTH \/ (i = n - 1 /\ m_indices'[i] = M_WIDTH)
    <3>1. CASE i = n - 1
      BY <1>3, <2>4, <2>5, <3>1
    <3>2. CASE i /= n - 1
      <4>1. i \in 1 .. (n - 2)
        BY <1>3, <3>2
      <4> QED
        BY <2>4, <2>5, <4>1
    <3> QED
      BY <3>1, <3>2
  <2>7. IndicesOK'
    BY <1>1, <1>3, <2>1, <2>4, <2>6 DEF IndicesOK
  <2>8. TypeInv'
    <3>1. m_indices' /= <<>>
      BY <1>3, <1>7, <2>4
    <3> QED
      BY <1>1, <1>2, <2>1, <2>7, <3>1, SameWanted DEF TypeInv
  <2>9. ASSUME NEW k \in Wanted PROVE Passed(k)' <=> Passed(k)
    <3>1. Before(k, m_indices') <=> Before(k, m_indices)
      BY <1>5, <1>7, <2>1, <2>2, <2>3, BeforeBumped
    <3>2. Passed(k)' <=> Before(k, m_indices')
      BY <2>1 DEF Passed, Before
    <3> QED
      BY <1>1, <3>1, <3>2 DEF Passed
  <2> QED
    BY <1>1, <2>8, <2>9, NothingUsed
<1> QED
  BY <1>4, <1>6, <1>7

\* The end of the loop keeps the invariant.
LEMMA StopKeeps == ASSUME KeyInv, Stop PROVE KeyInv'
<1>1. /\ UNCHANGED <<M_WIDTH, M_DEPTH, M_INCLUDE, m_indices, used>> /\ pc = "next"
      /\ pc' = "done"
      /\ UNCHANGED <<dims, used>>
      /\ M_WIDTH = 0 \/ M_DEPTH = 0
  BY DEF Stop, dims
<1>2. Wanted = {}
  BY <1>1, NoneWanted DEF KeyInv
<1>3. TypeInv'
  BY <1>1, SameWanted DEF KeyInv, TypeInv, IndicesOK
<1> QED
  BY <1>1, <1>2, <1>3, NothingUsed

\* Every step keeps the invariant.
LEMMA KeyNext == KeyInv /\ [Next]_vars => KeyInv'
<1> SUFFICES ASSUME KeyInv, [Next]_vars PROVE KeyInv'
  OBVIOUS
<1>1. CASE UNCHANGED vars
  <2>1. TypeInv'
    BY <1>1, SameWanted DEF vars, dims, KeyInv, TypeInv, IndicesOK
  <2>2. \A k \in Wanted : Passed(k)' <=> Passed(k)
    BY <1>1 DEF vars, Passed, Before
  <2>3. UNCHANGED <<dims, used>>
    BY <1>1 DEF vars, dims
  <2> QED
    BY <2>1, <2>2, <2>3, NothingUsed
<1> QED
  BY <1>1, UseKeeps, ExtendKeeps, IncrementKeeps, CarryKeeps, StopKeeps DEF Next, Done

\* The invariant always holds.
LEMMA KeyAlways == Spec => []KeyInv
  BY KeyInit, KeyNext, PTL DEF Spec

\* No key is used twice, and the keys are used in lexicographic order.
THEOREM InOrder == Spec => []UsedInOrder
<1>1. KeyInv => UsedInOrder
  BY DEF KeyInv
<1> QED
  BY <1>1, KeyAlways, PTL

\* When the loop ends, the keys that were used are exactly the wanted ones.
THEOREM AllWantedUsed == Spec => []UsesAllWanted
<1>1. KeyInv => UsesAllWanted
  <2> SUFFICES ASSUME KeyInv, pc = "done"
               PROVE  {used[i] : i \in DOMAIN used} = Wanted
    BY DEF UsesAllWanted
  <2>1. used \in Seq(Wanted) /\ DOMAIN used = 1 .. Len(used)
    BY DEF KeyInv, TypeInv
  <2>2. \A i \in 1 .. Len(used) : used[i] \in Wanted
    BY <2>1
  <2>3. \A k \in Wanted : \E i \in 1 .. Len(used) : used[i] = k
    BY DEF KeyInv, PassedUsed, Passed
  <2> QED
    BY <2>1, <2>2, <2>3
<1> QED
  BY <1>1, KeyAlways, PTL

-----------------------------------------------------------------------------
(***************************************************************************)
(* The loop does not go on forever: it goes through finitely many strings, *)
(* each of them once.                                                      *)
(***************************************************************************)

\* The strings that the iterator may be at, with or without a pending carry.
Strings == UNION {[1 .. n -> 0 .. M_WIDTH] : n \in 0 .. M_DEPTH}

\* t is enumerated after s: it extends s, or is larger at the first difference.
Follows(t, s) ==
    \/ Len(t) > Len(s) /\ \A j \in 1 .. Len(s) : t[j] = s[j]
    \/ \E i \in 1 .. Len(s) :
          /\ i <= Len(t)
          /\ s[i] < t[i]
          /\ \A j \in 1 .. (i - 1) : t[j] = s[j]

\* The strings to come.
Ahead == {t \in Strings : Follows(t, m_indices)}

\* A number that bounds the steps of the loop that are left: each string to come
\* takes at most three of them.
StepsLeft ==
    IF pc = "done"
    THEN 0
    ELSE 3 * Cardinality(Ahead) + (IF pc = "next" THEN 1 ELSE IF pc = "use" THEN 2 ELSE 3)

Shrinks == StepsLeft \in Nat /\ StepsLeft' \in Nat /\ StepsLeft' < StepsLeft

\* Every step of the do-while loop around KeyIterator::next decreases a natural
\* number.
LoopRunsOut == [][Shrinks]_vars

\* The order of the strings is transitive.
LEMMA FollowsTransitive ==
    ASSUME NEW s \in Seq(Nat), NEW t \in Seq(Nat), NEW u \in Seq(Nat),
           Follows(t, s), Follows(u, t)
    PROVE  Follows(u, s)
<1>1. Len(s) \in Nat /\ Len(t) \in Nat /\ Len(u) \in Nat
  OBVIOUS
<1>2. /\ \A i \in 1 .. Len(s) : s[i] \in Nat
      /\ \A i \in 1 .. Len(t) : t[i] \in Nat
      /\ \A i \in 1 .. Len(u) : u[i] \in Nat
  OBVIOUS
<1>3. CASE Len(t) > Len(s) /\ \A j \in 1 .. Len(s) : t[j] = s[j]
  <2>1. CASE Len(u) > Len(t) /\ \A j \in 1 .. Len(t) : u[j] = t[j]
    <3>1. Len(u) > Len(s) /\ \A j \in 1 .. Len(s) : u[j] = s[j]
      BY <1>1, <1>3, <2>1
    <3> QED
      BY <3>1 DEF Follows
  <2>2. ASSUME NEW i \in 1 .. Len(t), i <= Len(u), t[i] < u[i],
               \A j \in 1 .. (i - 1) : u[j] = t[j]
        PROVE  Follows(u, s)
    <3>1. CASE i <= Len(s)
      <4>1. i \in 1 .. Len(s) /\ s[i] < u[i] /\ \A j \in 1 .. (i - 1) : u[j] = s[j]
        BY <1>1, <1>3, <2>2, <3>1
      <4> QED
        BY <2>2, <4>1 DEF Follows
    <3>2. CASE i > Len(s)
      <4>1. Len(u) > Len(s) /\ \A j \in 1 .. Len(s) : u[j] = s[j]
        BY <1>1, <1>3, <2>2, <3>2
      <4> QED
        BY <4>1 DEF Follows
    <3> QED
      BY <1>1, <3>1, <3>2
  <2> QED
    BY <2>1, <2>2 DEF Follows
<1>4. ASSUME NEW k \in 1 .. Len(s), k <= Len(t), s[k] < t[k],
             \A j \in 1 .. (k - 1) : t[j] = s[j]
      PROVE  Follows(u, s)
  <2>0. k \in 1 .. Len(t)
    BY <1>1, <1>4
  <2>1. CASE Len(u) > Len(t) /\ \A j \in 1 .. Len(t) : u[j] = t[j]
    <3>1. k <= Len(u) /\ s[k] < u[k] /\ \A j \in 1 .. (k - 1) : u[j] = s[j]
      BY <1>1, <1>4, <2>0, <2>1
    <3> QED
      BY <3>1 DEF Follows
  <2>2. ASSUME NEW i \in 1 .. Len(t), i <= Len(u), t[i] < u[i],
               \A j \in 1 .. (i - 1) : u[j] = t[j]
        PROVE  Follows(u, s)
    <3>1. CASE i < k
      <4>0. i \in 1 .. (k - 1) /\ i \in 1 .. Len(s) /\ \A j \in 1 .. (i - 1) : j \in 1 .. (k - 1)
        BY <1>1, <3>1
      <4>1. i \in 1 .. Len(s) /\ s[i] < u[i] /\ \A j \in 1 .. (i - 1) : u[j] = s[j]
        BY <1>4, <2>2, <4>0
      <4> QED
        BY <2>2, <4>1 DEF Follows
    <3>2. CASE i = k
      <4>1. s[k] < u[k]
        <5>1. s[k] \in Nat /\ t[k] \in Nat /\ u[k] \in Nat
          BY <1>1, <1>2, <2>0, <2>2, <3>2
        <5> QED
          BY <1>4, <2>2, <3>2, <5>1
      <4>2. k <= Len(u) /\ \A j \in 1 .. (k - 1) : u[j] = s[j]
        BY <1>4, <2>2, <3>2
      <4> QED
        BY <4>1, <4>2 DEF Follows
    <3>3. CASE i > k
      <4>0. k \in 1 .. (i - 1) /\ k <= Len(u) /\ \A j \in 1 .. (k - 1) : j \in 1 .. (i - 1)
        BY <1>1, <2>2, <3>3
      <4>1. k <= Len(u) /\ s[k] < u[k] /\ \A j \in 1 .. (k - 1) : u[j] = s[j]
        BY <1>4, <2>2, <4>0
      <4> QED
        BY <4>1 DEF Follows
    <3> QED
      BY <3>1, <3>2, <3>3
  <2> QED
    BY <2>1, <2>2 DEF Follows
<1> QED
  BY <1>3, <1>4 DEF Follows

\* No string follows itself.
LEMMA FollowsIrreflexive ==
    ASSUME NEW s \in Seq(Nat)
    PROVE  ~ Follows(s, s)
<1>1. Len(s) \in Nat /\ \A i \in 1 .. Len(s) : s[i] \in Nat
  OBVIOUS
<1> QED
  BY <1>1 DEF Follows

\* The strings that the iterator can hold, as sequences.
LEMMA StringsAre ==
    ASSUME TypeInv, NEW s
    PROVE  s \in Strings <=> s \in Seq(0 .. M_WIDTH) /\ Len(s) <= M_DEPTH
<1> DEFINE W == 0 .. M_WIDTH
<1>1. M_DEPTH \in Nat
  BY DEF TypeInv
<1> HIDE DEF W
<1>2. ASSUME NEW n \in 0 .. M_DEPTH, s \in [1 .. n -> W]
      PROVE  s \in Seq(W) /\ Len(s) <= M_DEPTH
  <2>1. n \in Nat /\ n <= M_DEPTH
    BY <1>1
  <2>2. s \in Seq(W)
    BY <1>2, <2>1, SeqDef
  <2>3. Len(s) \in Nat /\ DOMAIN s = 1 .. Len(s) /\ DOMAIN s = 1 .. n
    BY <1>2, <2>2
  <2>4. Len(s) = n
    <3>1. Len(s) \in 1 .. Len(s) <=> Len(s) \in 1 .. n
      BY <2>3
    <3>2. n \in 1 .. Len(s) <=> n \in 1 .. n
      BY <2>3
    <3>3. Len(s) \in Nat
      BY <2>3
    <3> QED
      BY <2>1, <3>1, <3>2, <3>3
  <2> QED
    BY <2>1, <2>2, <2>4
<1>3. ASSUME s \in Seq(W), Len(s) <= M_DEPTH
      PROVE  \E n \in 0 .. M_DEPTH : s \in [1 .. n -> W]
  <2>1. Len(s) \in 0 .. M_DEPTH /\ s \in [1 .. Len(s) -> W]
    BY <1>1, <1>3
  <2> QED
    BY <2>1
<1> QED
  BY <1>2, <1>3 DEF Strings, W

\* A string is given by its length and its digits, filled up with zeros.
LEMMA FiniteStrings == ASSUME TypeInv PROVE IsFiniteSet(Strings)
<1> DEFINE W == 0 .. M_WIDTH
           D == 1 .. M_DEPTH
           T == [D -> W] \X (0 .. M_DEPTH)
           fill == [s \in Strings |-> <<[i \in D |-> IF i <= Len(s) THEN s[i] ELSE 0], Len(s)>>]
<1>1. M_WIDTH \in Nat /\ M_DEPTH \in Nat
  BY DEF TypeInv
<1>2. IsFiniteSet(T)
  <2>1. IsFiniteSet(W) /\ IsFiniteSet(D) /\ IsFiniteSet(0 .. M_DEPTH)
    BY <1>1, FS_Interval
  <2> HIDE DEF W, D
  <2>2. IsFiniteSet([D -> W])
    BY <2>1, FiniteFunctions
  <2> QED
    BY <2>1, <2>2, FS_Product
<1>3. ASSUME NEW s \in Strings
      PROVE  /\ s \in Seq(W) /\ Len(s) \in 0 .. M_DEPTH /\ DOMAIN s = 1 .. Len(s)
             /\ [i \in D |-> IF i <= Len(s) THEN s[i] ELSE 0] \in [D -> W]
  <2>1. s \in Seq(W) /\ Len(s) <= M_DEPTH
    BY StringsAre
  <2> QED
    BY <1>1, <2>1
<1>4. fill \in [Strings -> T]
  BY <1>3
<1>5. ASSUME NEW s \in Strings, NEW t \in Strings, fill[s] = fill[t]
      PROVE  s = t
  <2>1. Len(s) = Len(t)
    BY <1>5
  <2>2. [i \in D |-> IF i <= Len(s) THEN s[i] ELSE 0] = [i \in D |-> IF i <= Len(t) THEN t[i] ELSE 0]
    BY <1>5
  <2>3. ASSUME NEW i \in 1 .. Len(s) PROVE s[i] = t[i]
    <3>1. i \in D /\ i <= Len(s) /\ i <= Len(t)
      BY <1>1, <1>3, <2>1
    <3> QED
      BY <2>2, <3>1
  <2>4. s \in Seq(W) /\ t \in Seq(W)
    BY <1>3
  <2> QED
    BY <2>1, <2>3, <2>4
<1>6. fill \in Injection(Strings, T)
  <2> HIDE DEF fill, T
  <2> QED
    BY <1>4, <1>5 DEF Injection, IsInjective
<1> HIDE DEF fill, T
<1> QED
  BY <1>2, <1>6, FS_Injection

\* A step to a later string leaves fewer of them.
LEMMA FewerAhead ==
    ASSUME TypeInv, TypeInv', UNCHANGED dims, Follows(m_indices', m_indices)
    PROVE  /\ Cardinality(Ahead) \in Nat /\ Cardinality(Ahead') \in Nat
           /\ Cardinality(Ahead') < Cardinality(Ahead)
<1>1. Strings' = Strings /\ M_WIDTH' = M_WIDTH /\ M_DEPTH' = M_DEPTH
  BY DEF Strings, dims
<1>2. M_WIDTH \in Nat /\ M_DEPTH \in Nat /\ IsFiniteSet(Strings)
  BY FiniteStrings DEF TypeInv
<1>3. Ahead' = {t \in Strings : Follows(t, m_indices')}
  BY <1>1 DEF Ahead, Follows
<1>4. m_indices \in Seq(Nat) /\ m_indices' \in Strings /\ m_indices' \in Seq(Nat)
  <2>1. /\ m_indices \in Seq(Nat) /\ m_indices' \in Seq(Nat) /\ Len(m_indices') <= M_DEPTH
        /\ \A i \in 1 .. Len(m_indices') : m_indices'[i] < M_WIDTH \/ m_indices'[i] = M_WIDTH
    BY <1>1 DEF TypeInv, IndicesOK
  <2>2. \A i \in 1 .. Len(m_indices') : m_indices'[i] \in 0 .. M_WIDTH
    BY <1>2, <2>1
  <2>3. m_indices' \in Seq(0 .. M_WIDTH)
    <3>1. m_indices' \in [1 .. Len(m_indices') -> 0 .. M_WIDTH] /\ Len(m_indices') \in Nat
      BY <2>1, <2>2
    <3> QED
      BY <3>1, SeqDef
  <2> QED
    BY <2>1, <2>3, StringsAre
<1>5. ASSUME NEW t \in Strings PROVE t \in Seq(Nat)
  <2>1. t \in Seq(0 .. M_WIDTH)
    BY StringsAre
  <2> QED
    BY <1>2, <2>1
<1>6. ASSUME NEW t \in Ahead' PROVE t \in Ahead
  <2>1. t \in Strings /\ t \in Seq(Nat) /\ Follows(t, m_indices')
    BY <1>3, <1>5
  <2> QED
    BY <1>4, <2>1, FollowsTransitive DEF Ahead
<1>7. m_indices' \in Ahead /\ m_indices' \notin Ahead'
  BY <1>3, <1>4, FollowsIrreflexive DEF Ahead
<1>8. IsFiniteSet(Ahead)
  BY <1>2, FS_Subset DEF Ahead
<1>9. Ahead' \in SUBSET Ahead /\ Ahead' /= Ahead
  BY <1>6, <1>7
<1>10. /\ IsFiniteSet(Ahead') /\ Cardinality(Ahead') <= Cardinality(Ahead)
       /\ Cardinality(Ahead') /= Cardinality(Ahead)
  BY <1>8, <1>9, FS_Subset
<1>11. Cardinality(Ahead) \in Nat /\ Cardinality(Ahead') \in Nat
  BY <1>8, <1>10, FS_CardinalityType
<1> QED
  BY <1>10, <1>11

\* Finitely many strings are ahead.
LEMMA AheadCounted == ASSUME TypeInv PROVE Cardinality(Ahead) \in Nat
<1>1. IsFiniteSet(Ahead)
  BY FiniteStrings, FS_Subset DEF Ahead
<1> QED
  BY <1>1, FS_CardinalityType

\* The loop in which the generators run the iterator cannot go on forever: every
\* step of it, the tests of the carry in KeyIterator::next included, decreases a
\* natural number, for every width, depth and cut-off.
THEOREM EnumerationRunsOut == Spec => LoopRunsOut
<1>1. ASSUME KeyInv, KeyInv', Next, vars' /= vars PROVE Shrinks
  <2>1. TypeInv /\ TypeInv'
    BY <1>1 DEF KeyInv
  <2>2. Cardinality(Ahead) \in Nat
    BY <2>1, AheadCounted
  <2>3. m_indices \in Seq(Nat) /\ Len(m_indices) \in Nat
    BY <2>1 DEF TypeInv, IndicesOK
  <2>4. CASE Use \/ (Carry /\ Back /= M_WIDTH)
    <3>1. /\ UNCHANGED <<dims, m_indices>>
          /\ \/ pc = "use" /\ pc' = "next"
             \/ pc = "carry" /\ pc' = "use"
      BY <2>4 DEF Use, Carry
    <3>2. Ahead' = Ahead
      BY <3>1 DEF Ahead, Strings, Follows, dims
    <3>3. Cardinality(Ahead') = Cardinality(Ahead)
      BY <3>2
    <3> QED
      BY <2>2, <3>1, <3>3 DEF StepsLeft, Shrinks
  <2>5. ASSUME UNCHANGED dims, Follows(m_indices', m_indices),
               pc \in {"next", "carry"}, pc' \in {"use", "carry"}, pc = "carry" => pc' = "carry"
        PROVE  Shrinks
    <3>1. Cardinality(Ahead') \in Nat /\ Cardinality(Ahead') < Cardinality(Ahead)
      BY <2>1, <2>5, FewerAhead
    <3> QED
      BY <2>2, <2>5, <3>1 DEF StepsLeft, Shrinks
  <2>6. CASE Extend
    <3>1. m_indices' = Append(m_indices, 0) /\ pc = "next" /\ pc' = "use" /\ UNCHANGED dims
      BY <2>6 DEF Extend
    <3>2. Len(m_indices') = Len(m_indices) + 1 /\ \A i \in 1 .. Len(m_indices) : m_indices'[i] = m_indices[i]
      BY <2>3, <3>1
    <3>3. Follows(m_indices', m_indices)
      BY <2>3, <3>2 DEF Follows
    <3> QED
      BY <2>5, <3>1, <3>3
  <2>7. CASE Increment
    <3>1. m_indices' = Bump(m_indices) /\ pc = "next" /\ pc' = "carry" /\ UNCHANGED dims
      BY <2>7 DEF Increment
    <3>2. m_indices /= <<>>
      BY <2>7 DEF Increment, is_at_max
    <3> DEFINE n == Len(m_indices)
    <3>3. /\ n \in 1 .. n /\ n <= Len(m_indices') /\ m_indices[n] < m_indices'[n]
          /\ \A j \in 1 .. (n - 1) : m_indices'[j] = m_indices[j]
      <4>1. /\ Len(m_indices') = n /\ n \in Nat \ {0} /\ m_indices[n] \in Nat
            /\ m_indices'[n] = m_indices[n] + 1
            /\ \A j \in 1 .. (n - 1) : m_indices'[j] = m_indices[j]
        BY <2>3, <3>1, <3>2, BumpProperties
      <4> HIDE DEF n
      <4> QED
        BY <4>1
    <3>4. Follows(m_indices', m_indices)
      BY <3>3 DEF Follows
    <3> QED
      BY <2>5, <3>1, <3>4
  <2>8. CASE Carry /\ Back = M_WIDTH /\ Len(m_indices) /= 1
    <3>1. m_indices' = Bump(Pop(m_indices)) /\ pc = "carry" /\ pc' = "carry" /\ UNCHANGED dims
      BY <2>8 DEF Carry
    <3> DEFINE n == Len(m_indices)
               p == Pop(m_indices)
    <3>2. m_indices /= <<>> /\ n \in Nat \ {0, 1}
      BY <2>1, <2>3, <2>8, <3>1 DEF TypeInv
    <3>3. /\ p \in Seq(Nat) /\ Len(p) = n - 1
          /\ \A i \in 1 .. (n - 1) : p[i] = m_indices[i]
      BY <2>3, <3>2, PopProperties
    <3>4. p /= <<>>
      BY <3>2, <3>3
    <3> HIDE DEF p
    <3>5. /\ Len(Bump(p)) = n - 1 /\ p[n - 1] \in Nat /\ Bump(p)[n - 1] = p[n - 1] + 1
          /\ \A i \in 1 .. (n - 2) : Bump(p)[i] = p[i]
      <4>1. Len(p) - 1 = n - 2
        BY <3>2, <3>3
      <4> QED
        BY <3>3, <3>4, <4>1, BumpProperties
    <3>6. /\ n - 1 \in 1 .. n /\ n - 1 <= Len(m_indices') /\ m_indices[n - 1] < m_indices'[n - 1]
          /\ \A j \in 1 .. ((n - 1) - 1) : m_indices'[j] = m_indices[j]
      BY <3>1, <3>2, <3>3, <3>5 DEF p
    <3>7. Follows(m_indices', m_indices)
      BY <3>6 DEF Follows
    <3> QED
      BY <2>5, <3>1, <3>7
  <2>9. CASE (Carry /\ Back = M_WIDTH /\ Len(m_indices) = 1) \/ Stop
    <3>1. pc \in {"next", "carry"} /\ pc' = "done"
      BY <2>9 DEF Carry, Stop
    <3> QED
      BY <2>2, <3>1 DEF StepsLeft, Shrinks
  <2> QED
    BY <1>1, <2>4, <2>6, <2>7, <2>8, <2>9 DEF Next, Done
<1>2. KeyInv /\ KeyInv' /\ [Next]_vars => [Shrinks]_vars
  BY <1>1
<1> QED
  BY <1>2, KeyAlways, PTL DEF Spec, LoopRunsOut
=============================================================================
