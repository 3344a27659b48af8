----------------------------- MODULE FrontEndProofs -----------------------------
(***************************************************************************)
(* Two algorithms of the Solidity front end, for inputs of every size: the *)
(* merge of linearisations finds an order that keeps all lists if there is *)
(* one, and refuses only if there is none; and no two variables, members   *)
(* or elements share a byte of storage.                                    *)
(***************************************************************************)
EXTENDS Linearization, StorageLayout, ArithmeticLemmas, SequenceTheorems

-----------------------------------------------------------------------------
(***************************************************************************)
(* Linearization.                                                          *)
(***************************************************************************)

Range1(s) == {s[k] : k \in 1 .. Len(s)}

\* The list is the other one without its first d elements.
WithoutFirst(list, whole, d) ==
    /\ Len(list) = Len(whole) - d
    /\ \A j \in 1 .. Len(list) : list[j] = whole[d + j]

\* The first d elements of the list are in the result, and in order.
FirstPlaced(result, list, d) ==
    /\ \A a \in 1 .. d : \E k \in 1 .. Len(result) : result[k] = list[a]
    /\ \A a, b \in 1 .. d : a < b =>
          \E k, l \in 1 .. Len(result) : k < l /\ result[k] = list[a] /\ result[l] = list[b]

\* The list is a rest of the other one, the beginning of which has been placed.
RestOf(list, whole, result) ==
    \E d \in 0 .. Len(whole) : WithoutFirst(list, whole, d) /\ FirstPlaced(result, whole, d)

MergeStates(S, toMerge) ==
    [lists : [DOMAIN toMerge -> Seq(S)], result : Seq(S), failed : BOOLEAN]

\* What every round of the merge keeps.
Merged(toMerge, lists, result) ==
    /\ \A k, l \in 1 .. Len(result) : result[k] = result[l] => k = l
    /\ Elements(toMerge) = Elements(lists) \cup Range1(result)
    /\ Elements(lists) \cap Range1(result) = {}
    /\ \A i \in DOMAIN toMerge : RestOf(lists[i], toMerge[i], result)

MergeInv(S, toMerge, m) ==
    /\ m \in MergeStates(S, toMerge)
    /\ Merged(toMerge, m.lists, m.result)
    /\ m.failed => Elements(m.lists) /= {} /\ Candidates(m.lists) = {}
-----------------------------------------------------------------------------
Has(list, x) == \E j \in DOMAIN list : list[j] = x

\* An element of the lists is an element of one of them.
LEMMA ElementsOf ==
    \A lists, x : x \in Elements(lists) <=> \E i \in DOMAIN lists : Has(lists[i], x)
  BY DEF Elements, Has

OnlyHead(x, L) == \A j \in 1 .. Len(L) : L[j] = x => j = 1

\* K is L without x, which was not in it or at its head.
TakenOut(x, L, K) ==
    \/ K = L /\ \A j \in 1 .. Len(L) : L[j] /= x
    \/ /\ Len(L) >= 1 /\ L[1] = x
       /\ Len(K) = Len(L) - 1
       /\ \A j \in 1 .. (Len(L) - 1) : K[j] = L[j + 1] /\ L[j + 1] /= x

\* Without takes out an element that is only at the head.
LEMMA RemoveOne ==
    ASSUME NEW S, NEW L \in Seq(S), NEW x, OnlyHead(x, L)
    PROVE  Without(x, L) \in Seq(S) /\ TakenOut(x, L, Without(x, L))
<1> DEFINE K == Without(x, L)
<1>1. Len(L) \in Nat
  OBVIOUS
<1>2. CASE L /= <<>> /\ L[1] = x
  <2>1. Len(L) >= 1 /\ K = Tail(L)
    BY <1>2 DEF Without
  <2>2. K \in Seq(S) /\ Len(K) = Len(L) - 1 /\ \A j \in 1 .. (Len(L) - 1) : K[j] = L[j + 1]
    BY <1>2, <2>1
  <2>3. ASSUME NEW j \in 1 .. (Len(L) - 1) PROVE L[j + 1] /= x
    <3>1. j + 1 \in 1 .. Len(L) /\ j + 1 /= 1
      BY <1>1, <2>1
    <3> QED
      BY <3>1 DEF OnlyHead
  <2> QED
    BY <1>2, <2>1, <2>2, <2>3 DEF TakenOut
<1>3. CASE ~ (L /= <<>> /\ L[1] = x)
  <2>1. K = L
    BY <1>3 DEF Without
  <2>2. ASSUME NEW j \in 1 .. Len(L), L[j] = x PROVE FALSE
    <3>1. j = 1 /\ Len(L) >= 1
      BY <1>1, <2>2 DEF OnlyHead
    <3>2. L /= <<>>
      BY <3>1
    <3> QED
      BY <1>3, <2>2, <3>1, <3>2
  <2> QED
    BY <2>1, <2>2 DEF TakenOut
<1> QED
  BY <1>2, <1>3

\* Without x, a list has all of its other elements.
LEMMA OthersStay ==
    ASSUME NEW S, NEW L \in Seq(S), NEW K \in Seq(S), NEW x, TakenOut(x, L, K), NEW y
    PROVE  Has(K, y) <=> y /= x /\ Has(L, y)
<1>1. Len(L) \in Nat /\ Len(K) \in Nat /\ DOMAIN L = 1 .. Len(L) /\ DOMAIN K = 1 .. Len(K)
  OBVIOUS
<1>2. CASE K = L /\ \A j \in 1 .. Len(L) : L[j] /= x
  BY <1>1, <1>2 DEF Has
<1>3. CASE /\ Len(L) >= 1 /\ L[1] = x
           /\ Len(K) = Len(L) - 1
           /\ \A j \in 1 .. (Len(L) - 1) : K[j] = L[j + 1] /\ L[j + 1] /= x
  <2>1. ASSUME NEW j \in 1 .. Len(K), K[j] = y PROVE y /= x /\ \E i \in 1 .. Len(L) : L[i] = y
    <3>1. j + 1 \in 1 .. Len(L) /\ j \in 1 .. (Len(L) - 1)
      BY <1>1, <1>3
    <3> QED
      BY <1>3, <2>1, <3>1
  <2>2. ASSUME y /= x, NEW j \in 1 .. Len(L), L[j] = y PROVE \E i \in 1 .. Len(K) : K[i] = y
    <3>1. j /= 1
      BY <1>3, <2>2
    <3>2. j - 1 \in 1 .. Len(K) /\ j - 1 \in 1 .. (Len(L) - 1) /\ (j - 1) + 1 = j
      BY <1>1, <1>3, <3>1
    <3> QED
      BY <1>3, <2>2, <3>2
  <2> QED
    BY <1>1, <2>1, <2>2 DEF Has
<1> QED
  BY <1>2, <1>3 DEF TakenOut

\* What has been placed stays placed when the result grows.
LEMMA LongerResult ==
    ASSUME NEW S, NEW result \in Seq(S), NEW x \in S, NEW list, NEW d \in Nat,
           FirstPlaced(result, list, d)
    PROVE  FirstPlaced(Append(result, x), list, d)
<1> DEFINE r == Append(result, x)
           o == Len(result)
<1>1. o \in Nat /\ Len(r) = o + 1 /\ \A k \in 1 .. o : k \in 1 .. (o + 1) /\ r[k] = result[k]
  OBVIOUS
<1>2. ASSUME NEW a \in 1 .. d PROVE \E k \in 1 .. Len(r) : r[k] = list[a]
  <2>1. PICK k \in 1 .. o : result[k] = list[a]
    BY DEF FirstPlaced
  <2>2. k \in 1 .. Len(r) /\ r[k] = list[a]
    BY <1>1, <2>1
  <2> QED
    BY <2>2
<1>3. ASSUME NEW a \in 1 .. d, NEW b \in 1 .. d, a < b
      PROVE  \E k, l \in 1 .. Len(r) : k < l /\ r[k] = list[a] /\ r[l] = list[b]
  <2>1. PICK k \in 1 .. o, l \in 1 .. o : k < l /\ result[k] = list[a] /\ result[l] = list[b]
    BY <1>3 DEF FirstPlaced
  <2>2. k \in 1 .. Len(r) /\ l \in 1 .. Len(r) /\ r[k] = list[a] /\ r[l] = list[b]
    BY <1>1, <2>1
  <2> QED
    BY <2>1, <2>2
<1> HIDE DEF r
<1>4. FirstPlaced(r, list, d)
  BY <1>2, <1>3 DEF FirstPlaced
<1> QED
  BY <1>4 DEF r

\* What is left of a list stays the rest of it when x goes to the result.
LEMMA ListKeeps ==
    ASSUME NEW S, NEW w \in Seq(S), NEW L \in Seq(S), NEW K \in Seq(S), NEW result \in Seq(S), NEW x \in S,
           RestOf(L, w, result), TakenOut(x, L, K)
    PROVE  RestOf(K, w, Append(result, x))
<1> DEFINE r == Append(result, x)
           o == Len(result)
<1>0. PICK d \in 0 .. Len(w) : WithoutFirst(L, w, d) /\ FirstPlaced(result, w, d)
  BY DEF RestOf
<1>1. Len(w) \in Nat /\ d \in Nat /\ d <= Len(w) /\ Len(L) \in Nat
  OBVIOUS
<1>2. FirstPlaced(r, w, d)
  BY <1>0, <1>1, LongerResult
<1>3. CASE K = L
  BY <1>0, <1>2, <1>3 DEF RestOf
<1>4. CASE /\ Len(L) >= 1 /\ L[1] = x
           /\ Len(K) = Len(L) - 1
           /\ \A j \in 1 .. (Len(L) - 1) : K[j] = L[j + 1] /\ L[j + 1] /= x
  <2>1. Len(L) = Len(w) - d /\ \A j \in 1 .. Len(L) : L[j] = w[d + j]
    BY <1>0 DEF WithoutFirst
  <2>2. d + 1 \in 0 .. Len(w) /\ 1 \in 1 .. Len(L)
    BY <1>1, <1>4, <2>1
  <2>3. w[d + 1] = x
    BY <1>4, <2>1, <2>2
  <2>4. WithoutFirst(K, w, d + 1)
    <3>1. Len(K) = Len(w) - (d + 1)
      BY <1>1, <1>4, <2>1
    <3>2. ASSUME NEW j \in 1 .. Len(K) PROVE K[j] = w[(d + 1) + j]
      <4>1. j \in 1 .. (Len(L) - 1) /\ j + 1 \in 1 .. Len(L) /\ d + (j + 1) = (d + 1) + j
        BY <1>1, <1>4
      <4> QED
        BY <1>4, <2>1, <4>1
    <3> QED
      BY <3>1, <3>2 DEF WithoutFirst
  <2>5. /\ o \in Nat /\ Len(r) = o + 1 /\ r[o + 1] = x
        /\ \A k \in 1 .. o : r[k] = result[k]
    OBVIOUS
  <2> HIDE DEF r, o
  <2>6. ASSUME NEW a \in 1 .. (d + 1) PROVE \E k \in 1 .. Len(r) : r[k] = w[a]
    <3>1. CASE a = d + 1
      <4>1. o + 1 \in 1 .. Len(r) /\ r[o + 1] = w[a]
        BY <2>3, <2>5, <3>1
      <4> QED
        BY <4>1
    <3>2. CASE a \in 1 .. d
      BY <1>2, <3>2 DEF FirstPlaced
    <3> QED
      BY <1>1, <3>1, <3>2
  <2>7. ASSUME NEW a \in 1 .. (d + 1), NEW b \in 1 .. (d + 1), a < b
        PROVE  \E k, l \in 1 .. Len(r) : k < l /\ r[k] = w[a] /\ r[l] = w[b]
    <3>1. a \in 1 .. d
      BY <1>1, <2>7
    <3>2. CASE b = d + 1
      <4>1. PICK k \in 1 .. o : result[k] = w[a]
        BY <1>0, <3>1 DEF FirstPlaced, o
      <4>2. /\ k \in 1 .. Len(r) /\ o + 1 \in 1 .. Len(r) /\ k < o + 1
            /\ r[k] = w[a] /\ r[o + 1] = w[b]
        BY <2>3, <2>5, <3>2, <4>1
      <4> QED
        BY <4>2
    <3>3. CASE b \in 1 .. d
      BY <1>2, <2>7, <3>1, <3>3 DEF FirstPlaced
    <3> QED
      BY <1>1, <3>2, <3>3
  <2>8. FirstPlaced(r, w, d + 1)
    BY <2>6, <2>7 DEF FirstPlaced
  <2> QED
    BY <2>2, <2>4, <2>8 DEF r, RestOf
<1> QED
  BY <1>3, <1>4 DEF TakenOut

\* The next candidate is a head and behind no head.
LEMMA NextIsCandidate ==
    ASSUME NEW n \in Nat, NEW lists, DOMAIN lists = 1 .. n, Candidates(lists) /= {}
    PROVE  \E i \in Candidates(lists) : nextCandidate(lists) = lists[i][1]
<1> DEFINE C == Candidates(lists)
           f == CHOOSE i \in C : \A j \in C : i <= j
<1>1. C \in SUBSET Nat /\ C /= {}
  BY DEF Candidates
<1>2. \E i \in C : \A j \in C : i <= j
  <2> HIDE DEF C
  <2> QED
    BY <1>1, HasMin
<1>3. f \in C
  BY <1>2
<1>4. nextCandidate(lists) = lists[f][1]
  BY DEF nextCandidate
<1> QED
  BY <1>3, <1>4

\* The next candidate is left, and only at heads.
LEMMA CandidateFacts ==
    ASSUME NEW S, NEW n \in Nat, NEW lists, DOMAIN lists = 1 .. n,
           \A i \in 1 .. n : lists[i] \in Seq(S),
           Candidates(lists) /= {}
    PROVE  /\ nextCandidate(lists) \in S /\ nextCandidate(lists) \in Elements(lists)
           /\ \A i \in 1 .. n : \A j \in 1 .. Len(lists[i]) : lists[i][j] = nextCandidate(lists) => j = 1
<1> DEFINE x == nextCandidate(lists)
<1>1. PICK f \in Candidates(lists) : x = lists[f][1]
  BY NextIsCandidate
<1> HIDE DEF x
<1>2. f \in 1 .. n /\ lists[f] /= <<>> /\ appearsOnlyAtHead(x, lists) /\ lists[f] \in Seq(S)
  BY <1>1 DEF Candidates
<1>3. 1 \in DOMAIN lists[f] /\ lists[f][1] \in S
  BY <1>2
<1>4. x \in Elements(lists)
  BY <1>1, <1>2, <1>3, ElementsOf DEF Has
<1>5. \A i \in 1 .. n : DOMAIN lists[i] = 1 .. Len(lists[i])
  OBVIOUS
<1> QED
  BY <1>1, <1>2, <1>3, <1>4, <1>5 DEF appearsOnlyAtHead, x

-----------------------------------------------------------------------------
\* Moving the next candidate from the lists to the result keeps what is merged.
LEMMA TakeKeeps ==
    ASSUME NEW S, NEW n \in Nat,
           NEW toMerge, DOMAIN toMerge = 1 .. n, \A i \in 1 .. n : toMerge[i] \in Seq(S),
           NEW lists, DOMAIN lists = 1 .. n, \A i \in 1 .. n : lists[i] \in Seq(S),
           NEW result \in Seq(S),
           Merged(toMerge, lists, result),
           Candidates(lists) /= {}, NEW x, x = nextCandidate(lists),
           NEW lists2, lists2 = removeCandidate(x, lists), NEW result2, result2 = Append(result, x)
    PROVE  /\ x \in S /\ \A i \in 1 .. n : lists2[i] \in Seq(S)
           /\ Merged(toMerge, lists2, result2)
<1> DEFINE E == Elements(lists)
<1>1. \A i \in 1 .. n : DOMAIN lists[i] = 1 .. Len(lists[i]) /\ Len(lists[i]) \in Nat
  OBVIOUS
<1>2. /\ x \in S /\ x \in E
      /\ \A i \in 1 .. n : \A j \in 1 .. Len(lists[i]) : lists[i][j] = x => j = 1
  BY CandidateFacts
<1>4. DOMAIN lists2 = 1 .. n /\ \A i \in 1 .. n : lists2[i] = Without(x, lists[i])
  BY DEF removeCandidate
<1>5. ASSUME NEW i \in 1 .. n PROVE lists2[i] \in Seq(S) /\ TakenOut(x, lists[i], lists2[i])
  <2>1. lists[i] \in Seq(S) /\ OnlyHead(x, lists[i]) /\ lists2[i] = Without(x, lists[i])
    BY <1>2, <1>4 DEF OnlyHead
  <2> QED
    BY <2>1, RemoveOne
<1>6. \A i \in 1 .. n : DOMAIN lists2[i] = 1 .. Len(lists2[i])
  BY <1>5
<1>7. /\ Len(result) \in Nat /\ result2 \in Seq(S) /\ Len(result2) = Len(result) + 1
      /\ result2[Len(result) + 1] = x
      /\ \A k \in 1 .. Len(result) : result2[k] = result[k]
  BY <1>2
<1>9. Range1(result2) = Range1(result) \cup {x} /\ x \notin Range1(result)
  BY <1>2, <1>7 DEF Range1, Merged
<1>10. Elements(lists2) = E \ {x}
  <2>1. ASSUME NEW i \in 1 .. n, NEW y PROVE Has(lists2[i], y) <=> y /= x /\ Has(lists[i], y)
    <3>1. lists[i] \in Seq(S)
      OBVIOUS
    <3> QED
      BY <1>5, <3>1, OthersStay
  <2>2. ASSUME NEW y PROVE y \in Elements(lists2) <=> y \in E /\ y /= x
    <3>1. y \in Elements(lists2) <=> \E i \in 1 .. n : Has(lists2[i], y)
      BY <1>4, ElementsOf
    <3>2. y \in E <=> \E i \in 1 .. n : Has(lists[i], y)
      BY ElementsOf
    <3> QED
      BY <2>1, <3>1, <3>2
  <2> QED
    BY <2>2
<1>11. ASSUME NEW k \in 1 .. Len(result2), NEW l \in 1 .. Len(result2), result2[k] = result2[l]
       PROVE  k = l
  <2> DEFINE o == Len(result)
  <2>1. o \in Nat /\ k \in 1 .. (o + 1) /\ l \in 1 .. (o + 1)
    BY <1>7
  <2>2. \A p \in 1 .. o : result[p] /= x
    BY <1>9 DEF Range1
  <2>3. CASE k \in 1 .. o /\ l \in 1 .. o
    BY <1>7, <1>11, <2>3 DEF Merged
  <2>4. CASE k = o + 1
    BY <1>7, <1>11, <2>1, <2>2, <2>4
  <2>5. CASE l = o + 1
    BY <1>7, <1>11, <2>1, <2>2, <2>5
  <2> QED
    BY <2>1, <2>3, <2>4, <2>5
<1>12. ASSUME NEW i \in 1 .. n PROVE RestOf(lists2[i], toMerge[i], result2)
  <2>1. RestOf(lists[i], toMerge[i], result)
    BY DEF Merged
  <2>2. toMerge[i] \in Seq(S) /\ lists[i] \in Seq(S)
    OBVIOUS
  <2> QED
    BY <1>2, <1>5, <2>1, <2>2, ListKeeps
<1>13. /\ Elements(toMerge) = Elements(lists2) \cup Range1(result2)
       /\ Elements(lists2) \cap Range1(result2) = {}
  BY <1>2, <1>9, <1>10 DEF Merged
<1> QED
  BY <1>2, <1>5, <1>11, <1>12, <1>13 DEF Merged

-----------------------------------------------------------------------------
(***************************************************************************)
(* The rounds.                                                             *)
(***************************************************************************)

\* After n rounds the merge has failed, is finished, or has placed n elements.
Progress(m, n) == m.failed \/ Elements(m.lists) = {} \/ Len(m.result) = n

\* A round keeps the invariant and either ends the loop or extends the result.
LEMMA RoundKeeps ==
    ASSUME NEW S, NEW toMerge \in Seq(Seq(S)), NEW m, MergeInv(S, toMerge, m),
           NEW n \in Nat, Progress(m, n)
    PROVE  MergeInv(S, toMerge, MergeRound(m)) /\ Progress(MergeRound(m), n + 1)
<1>1. CASE m.failed \/ Elements(m.lists) = {}
  <2>1. MergeRound(m) = m
    BY <1>1 DEF MergeRound
  <2> QED
    BY <1>1, <2>1 DEF Progress
<1>2. CASE ~ m.failed /\ Elements(m.lists) /= {} /\ Candidates(m.lists) = {}
  <2> DEFINE f == [m EXCEPT !.failed = TRUE]
  <2>1. MergeRound(m) = f
    BY <1>2 DEF MergeRound
  <2>2. f \in MergeStates(S, toMerge) /\ f.lists = m.lists /\ f.result = m.result /\ f.failed = TRUE
    BY DEF MergeInv, MergeStates
  <2> HIDE DEF f
  <2>3. MergeInv(S, toMerge, f) /\ Progress(f, n + 1)
    BY <1>2, <2>2 DEF MergeInv, Progress
  <2> QED
    BY <2>1, <2>3
<1>3. CASE ~ m.failed /\ Elements(m.lists) /= {} /\ Candidates(m.lists) /= {}
  <2> DEFINE x == nextCandidate(m.lists)
             r == [lists |-> removeCandidate(x, m.lists), result |-> Append(m.result, x), failed |-> FALSE]
             N == Len(toMerge)
  <2>1. MergeRound(m) = r
    BY <1>3 DEF MergeRound
  <2>2. r.lists = removeCandidate(x, m.lists) /\ r.result = Append(m.result, x) /\ r.failed = FALSE
    OBVIOUS
  <2>3. /\ N \in Nat /\ DOMAIN toMerge = 1 .. N /\ \A i \in 1 .. N : toMerge[i] \in Seq(S)
        /\ DOMAIN m.lists = 1 .. N /\ \A i \in 1 .. N : m.lists[i] \in Seq(S)
        /\ m.result \in Seq(S) /\ Merged(toMerge, m.lists, m.result)
    BY DEF MergeInv, MergeStates
  <2> HIDE DEF N
  <2>4. x \in S /\ (\A i \in 1 .. N : r.lists[i] \in Seq(S)) /\ Merged(toMerge, r.lists, r.result)
    <3> HIDE DEF x, r
    <3> QED
      BY <1>3, <2>2, <2>3, TakeKeeps DEF x
  <2>5. r.lists \in [1 .. N -> Seq(S)]
    <3>1. r.lists = [i \in 1 .. N |-> Without(x, m.lists[i])]
      BY <2>2, <2>3 DEF removeCandidate
    <3> HIDE DEF r, x
    <3> QED
      BY <2>4, <3>1
  <2>6. r.result \in Seq(S) /\ Len(r.result) = Len(m.result) + 1
    BY <2>2, <2>3, <2>4
  <2>7. r \in MergeStates(S, toMerge)
    BY <2>2, <2>3, <2>5, <2>6 DEF MergeStates
  <2> HIDE DEF r
  <2>8. MergeInv(S, toMerge, r) /\ Progress(r, n + 1)
    BY <1>3, <2>2, <2>4, <2>6, <2>7 DEF MergeInv, Progress
  <2> QED
    BY <2>1, <2>8
<1> QED
  BY <1>1, <1>2, <1>3

\* The invariant holds before the first round.
LEMMA StartKeeps ==
    ASSUME NEW S, NEW toMerge \in Seq(Seq(S)),
           NEW m, m = [lists |-> toMerge, result |-> <<>>, failed |-> FALSE]
    PROVE  MergeInv(S, toMerge, m) /\ Progress(m, 0)
<1>1. m.lists = toMerge /\ m.result = <<>> /\ m.failed = FALSE /\ Len(<<>>) = 0
  OBVIOUS
<1>2. toMerge \in [DOMAIN toMerge -> Seq(S)]
  OBVIOUS
<1>3. m \in MergeStates(S, toMerge)
  BY <1>2 DEF MergeStates
<1>4. Range1(<<>>) = {}
  BY DEF Range1
<1>5. ASSUME NEW i \in DOMAIN toMerge PROVE RestOf(toMerge[i], toMerge[i], <<>>)
  <2>1. toMerge[i] \in Seq(S) /\ Len(toMerge[i]) \in Nat
    OBVIOUS
  <2>2. WithoutFirst(toMerge[i], toMerge[i], 0)
    BY <2>1 DEF WithoutFirst
  <2>3. FirstPlaced(<<>>, toMerge[i], 0)
    BY DEF FirstPlaced
  <2> QED
    BY <2>1, <2>2, <2>3 DEF RestOf
<1>6. Merged(toMerge, toMerge, <<>>)
  BY <1>4, <1>5 DEF Merged
<1> QED
  BY <1>1, <1>3, <1>6 DEF MergeInv, Progress

\* The recursion defines the rounds.
LEMMA RoundsDefined ==
    ASSUME NEW S, NEW toMerge \in Seq(Seq(S))
    PROVE  \A n \in Nat : MergeInv(S, toMerge, Rounds(toMerge)[n]) /\ Progress(Rounds(toMerge)[n], n)
<1> DEFINE M == {m \in MergeStates(S, toMerge) : MergeInv(S, toMerge, m)}
           F == [p \in Nat \X M |-> MergeRound(p[2])]
           start == [lists |-> toMerge, result |-> <<>>, failed |-> FALSE]
           Q(g) == g = [n \in Nat |-> IF n = 0 THEN start ELSE MergeRound(g[n - 1])]
<1>1. Rounds(toMerge) = CHOOSE g : Q(g)
  BY DEF Rounds
<1>2. MergeInv(S, toMerge, start) /\ Progress(start, 0)
  BY StartKeeps
<1>3. \A m : MergeInv(S, toMerge, m) <=> m \in M
  BY DEF MergeInv
<1>4. ASSUME NEW m \in M, NEW n \in Nat, Progress(m, n)
      PROVE  MergeRound(m) \in M /\ Progress(MergeRound(m), n + 1)
  <2>1. MergeInv(S, toMerge, m)
    BY <1>3
  <2> HIDE DEF M
  <2> QED
    BY <1>3, <1>4, <2>1, RoundKeeps
<1> HIDE DEF start
<1>5. PICK f : f[0] = start /\ \A n \in Nat : f[n + 1] = F[<<n, f[n]>>]
  <2> HIDE DEF F
  <2>1. \E f : StepsForever(f, start, F)
    BY Recursion
  <2> QED
    BY <2>1 DEF StepsForever
<1> DEFINE T == {n \in Nat : f[n] \in M /\ Progress(f[n], n)}
<1>6. T = Nat
  <2>1. T \in SUBSET Nat /\ 0 \in T
    BY <1>2, <1>3, <1>5
  <2>2. ASSUME NEW n \in T PROVE n + 1 \in T
    <3>1. n \in Nat /\ f[n] \in M /\ Progress(f[n], n) /\ n + 1 \in Nat
      OBVIOUS
    <3>2. f[n + 1] = F[<<n, f[n]>>]
      BY <1>5, <3>1
    <3> HIDE DEF M
    <3>3. f[n + 1] = MergeRound(f[n])
      BY <3>1, <3>2
    <3> QED
      BY <1>4, <3>1, <3>3
  <2> HIDE DEF T
  <2> QED
    BY <2>1, <2>2, NatSetInduction
<1>7. \A n \in Nat : f[n] \in M
  BY <1>6
<1> HIDE DEF M
<1>8. \E g : Q(g)
  <2> DEFINE g == [n \in Nat |-> f[n]]
  <2>1. ASSUME NEW n \in Nat PROVE f[n] = IF n = 0 THEN start ELSE MergeRound(g[n - 1])
    <3>1. CASE n = 0
      BY <1>5, <3>1
    <3>2. CASE n /= 0
      <4>1. n - 1 \in Nat /\ (n - 1) + 1 = n
        BY <3>2
      <4>2. f[n] = F[<<n - 1, f[n - 1]>>] /\ f[n - 1] \in M
        BY <1>5, <1>7, <4>1
      <4>3. f[n] = MergeRound(f[n - 1])
        BY <4>1, <4>2
      <4> QED
        BY <3>2, <4>1, <4>3
    <3> QED
      BY <3>1, <3>2
  <2>2. Q(g)
    BY <2>1
  <2> QED
    BY <2>2
<1> DEFINE h == CHOOSE g : Q(g)
<1>9. Q(h)
  BY <1>8
<1> HIDE DEF h
<1>10. h[0] = start /\ \A n \in Nat : h[n + 1] = MergeRound(h[n])
  <2>1. \A n \in Nat : h[n] = IF n = 0 THEN start ELSE MergeRound(h[n - 1])
    BY <1>9
  <2>2. ASSUME NEW n \in Nat PROVE h[n + 1] = MergeRound(h[n])
    <3>1. n + 1 \in Nat /\ n + 1 /= 0 /\ (n + 1) - 1 = n
      OBVIOUS
    <3> QED
      BY <2>1, <3>1
  <2> QED
    BY <2>1, <2>2
<1> DEFINE U == {n \in Nat : h[n] \in M /\ Progress(h[n], n)}
<1>11. U = Nat
  <2>1. U \in SUBSET Nat /\ 0 \in U
    BY <1>2, <1>3, <1>10
  <2>2. ASSUME NEW n \in U PROVE n + 1 \in U
    <3>1. n \in Nat /\ h[n] \in M /\ Progress(h[n], n) /\ n + 1 \in Nat
      OBVIOUS
    <3> QED
      BY <1>4, <1>10, <3>1
  <2> HIDE DEF U
  <2> QED
    BY <2>1, <2>2, NatSetInduction
<1> QED
  BY <1>1, <1>3, <1>11 DEF h

-----------------------------------------------------------------------------
\* There are finitely many elements.
LEMMA FiniteElements ==
    ASSUME NEW S, NEW toMerge \in Seq(Seq(S))
    PROVE  IsFiniteSet(Elements(toMerge))
<1> DEFINE D == DOMAIN toMerge
           of == [i \in D |-> {toMerge[i][j] : j \in DOMAIN toMerge[i]}]
           all == {of[i] : i \in D}
<1>1. IsFiniteSet(D)
  BY FS_Interval
<1>2. ASSUME NEW i \in D PROVE IsFiniteSet(of[i])
  <2> DEFINE L == toMerge[i]
  <2>1. L \in Seq(S) /\ DOMAIN L = 1 .. Len(L) /\ Len(L) \in Nat
    OBVIOUS
  <2>2. of[i] = {L[j] : j \in DOMAIN L}
    OBVIOUS
  <2> HIDE DEF L, of
  <2>3. IsFiniteSet(DOMAIN L)
    BY <2>1, FS_Interval
  <2>4. L \in Surjection(DOMAIN L, of[i])
    BY <2>1, <2>2 DEF Surjection
  <2> QED
    BY <2>3, <2>4, FS_Surjection
<1>3. IsFiniteSet(all)
  <2>1. of \in Surjection(D, all)
    BY DEF Surjection
  <2> HIDE DEF of, all, D
  <2> QED
    BY <1>1, <2>1, FS_Surjection
<1>4. \A s \in all : IsFiniteSet(s)
  BY <1>2
<1>5. Elements(toMerge) = UNION all
  BY DEF Elements
<1> HIDE DEF all
<1> QED
  BY <1>3, <1>4, <1>5, FS_UNION

\* A list without repetition that has as many elements as a finite set around it
\* has all of them.
LEMMA FullResult ==
    ASSUME NEW S, NEW s \in Seq(S), \A k, l \in 1 .. Len(s) : s[k] = s[l] => k = l,
           NEW E, IsFiniteSet(E), Range1(s) \subseteq E, Len(s) = Cardinality(E)
    PROVE  Range1(s) = E
<1> DEFINE D == 1 .. Len(s)
           R == Range1(s)
<1>1. Len(s) \in Nat /\ DOMAIN s = D /\ s \in [D -> R]
  BY DEF Range1
<1>2. IsFiniteSet(D) /\ Cardinality(D) = Len(s)
  BY <1>1, FS_Interval
<1>3. s \in Surjection(D, R) /\ s \in Injection(D, R)
  BY <1>1 DEF Surjection, Injection, IsInjective, Range1
<1>4. Cardinality(R) = Cardinality(D)
  <2> HIDE DEF D, R
  <2> QED
    BY <1>2, <1>3, FS_Surjection
<1> HIDE DEF R
<1> QED
  BY <1>2, <1>4, FS_Subset DEF R

\* An order of the lists begins, among the elements left, with a candidate.
LEMMA OrderHasCandidate ==
    ASSUME NEW S, NEW toMerge \in Seq(Seq(S)), NEW m, MergeInv(S, toMerge, m),
           Elements(m.lists) /= {}, NEW order \in Seq(Elements(toMerge)), Merges(order, toMerge)
    PROVE  Candidates(m.lists) /= {}
<1> DEFINE R == Elements(m.lists)
           P == {k \in DOMAIN order : order[k] \in R}
<1>1. /\ DOMAIN m.lists = DOMAIN toMerge
      /\ \A i \in DOMAIN toMerge : m.lists[i] \in Seq(S) /\ toMerge[i] \in Seq(S)
  BY DEF MergeInv, MergeStates
<1>2. R \subseteq {order[k] : k \in DOMAIN order}
  BY DEF MergeInv, Merged, Merges
<1>3. DOMAIN order \subseteq Nat
  OBVIOUS
<1>4. PICK k \in P : \A l \in P : k <= l
  <2>1. P \in SUBSET Nat /\ P /= {}
    BY <1>2, <1>3
  <2> HIDE DEF P
  <2> QED
    BY <2>1, HasMin
<1> DEFINE x == order[k]
<1>5. PICK i \in DOMAIN toMerge : Has(m.lists[i], x)
  BY <1>1, <1>4, ElementsOf
<1>6. ASSUME NEW a \in DOMAIN toMerge, NEW j \in DOMAIN m.lists[a], m.lists[a][j] = x
      PROVE  j = 1
  <2> DEFINE L == m.lists[a]
             w == toMerge[a]
  <2>1. PICK d \in 0 .. Len(w) : WithoutFirst(L, w, d)
    BY DEF MergeInv, Merged, RestOf
  <2>2. L \in Seq(S) /\ w \in Seq(S) /\ Len(L) \in Nat /\ Len(w) \in Nat /\ DOMAIN L = 1 .. Len(L)
        /\ DOMAIN w = 1 .. Len(w)
    BY <1>1
  <2>3. SUFFICES ASSUME j /= 1 PROVE FALSE
    OBVIOUS
  <2>4. j \in 1 .. Len(L) /\ 1 \in 1 .. Len(L) /\ L[j] = x
    BY <1>6, <2>2, <2>3
  <2>5. Len(L) = Len(w) - d /\ L[1] = w[d + 1] /\ x = w[d + j]
    BY <2>1, <2>4 DEF WithoutFirst
  <2>6. d + 1 \in DOMAIN w /\ d + j \in DOMAIN w /\ d + 1 < d + j
    <3>1. d \in Nat /\ j \in Nat /\ j >= 2 /\ j <= Len(L)
      BY <2>2, <2>3, <2>4
    <3>2. d + j <= Len(w)
      <4> DEFINE p == Len(L)
                 q == Len(w)
      <4>1. p \in Nat /\ q \in Nat /\ p = q - d /\ j <= p
        BY <2>2, <2>5, <3>1
      <4> HIDE DEF p, q
      <4>2. d + j <= q
        BY <3>1, <4>1
      <4> QED
        BY <4>2 DEF q
    <3> HIDE DEF w
    <3> QED
      BY <2>2, <3>1, <3>2
  <2>7. PICK p \in DOMAIN order, q \in DOMAIN order : p < q /\ order[p] = L[1] /\ order[q] = x
    BY <2>5, <2>6 DEF Merges, Keeps
  <2>8. q = k
    BY <1>4, <2>7 DEF Merges
  <2>9. L[1] \in R
    BY <1>1, <2>2, <2>4, ElementsOf DEF Has
  <2>10. p \in P /\ p \in Nat /\ k \in Nat
    BY <1>3, <1>4, <2>7, <2>9
  <2> QED
    BY <1>4, <2>7, <2>8, <2>10
<1>7. m.lists[i] /= <<>> /\ m.lists[i][1] = x
  <2>1. PICK j \in DOMAIN m.lists[i] : m.lists[i][j] = x
    BY <1>5 DEF Has
  <2>2. j = 1
    BY <1>6, <2>1
  <2>3. m.lists[i] \in Seq(S) /\ DOMAIN m.lists[i] = 1 .. Len(m.lists[i])
    BY <1>1
  <2> QED
    BY <2>1, <2>2, <2>3
<1>8. appearsOnlyAtHead(x, m.lists)
  BY <1>1, <1>6 DEF appearsOnlyAtHead
<1> QED
  BY <1>1, <1>7, <1>8 DEF Candidates

\* The merge of NameAndTypeResolver::cThreeMerge is exact: for all lists, if there
\* is any order of their elements that keeps the order of each list, the merge
\* finds one; it returns nothing else, and ends after as many rounds as there are
\* elements.
THEOREM MergeIsExact ==
    ASSUME NEW S, NEW toMerge \in Seq(Seq(S)), Elements(toMerge) /= {}
    PROVE  /\ cThreeMerge(toMerge) \in Seq(S)
           /\ cThreeMerge(toMerge) /= <<>> => Merges(cThreeMerge(toMerge), toMerge)
           /\ cThreeMerge(toMerge) = <<>> => ~ \E o \in Seq(Elements(toMerge)) : Merges(o, toMerge)
<1> DEFINE E == Elements(toMerge)
           m == Rounds(toMerge)[Cardinality(E)]
<1>1. IsFiniteSet(E) /\ Cardinality(E) \in Nat
  BY FiniteElements, FS_CardinalityType
<1>2. MergeInv(S, toMerge, m) /\ Progress(m, Cardinality(E))
  BY <1>1, RoundsDefined
<1>3. cThreeMerge(toMerge) = IF m.failed THEN <<>> ELSE m.result
  BY DEF cThreeMerge
<1> HIDE DEF m
<1>4. /\ m.result \in Seq(S) /\ DOMAIN m.lists = DOMAIN toMerge
      /\ \A i \in DOMAIN toMerge : m.lists[i] \in Seq(S) /\ toMerge[i] \in Seq(S)
  BY <1>2 DEF MergeInv, MergeStates
<1>5. /\ \A k, l \in 1 .. Len(m.result) : m.result[k] = m.result[l] => k = l
      /\ E = Elements(m.lists) \cup Range1(m.result)
      /\ Elements(m.lists) \cap Range1(m.result) = {}
  BY <1>2 DEF MergeInv, Merged
<1>6. CASE m.failed
  <2>1. cThreeMerge(toMerge) = <<>>
    BY <1>3, <1>6
  <2>2. Elements(m.lists) /= {} /\ Candidates(m.lists) = {}
    BY <1>2, <1>6 DEF MergeInv
  <2>3. ~ \E o \in Seq(E) : Merges(o, toMerge)
    BY <1>2, <2>2, OrderHasCandidate
  <2> QED
    BY <2>1, <2>3
<1>7. CASE ~ m.failed
  <2>1. cThreeMerge(toMerge) = m.result
    BY <1>3, <1>7
  <2>2. Elements(m.lists) = {}
    <3> SUFFICES ASSUME Elements(m.lists) /= {} PROVE FALSE
      OBVIOUS
    <3>1. Len(m.result) = Cardinality(E)
      BY <1>2, <1>7 DEF Progress
    <3>2. Range1(m.result) \subseteq E
      BY <1>5
    <3> HIDE DEF E
    <3>3. Range1(m.result) = E
      BY <1>1, <1>4, <1>5, <3>1, <3>2, FullResult
    <3> QED
      BY <1>5, <3>3
  <2>3. Range1(m.result) = E
    BY <1>5, <2>2
  <2>4. DOMAIN m.result = 1 .. Len(m.result) /\ m.result /= <<>>
    <3>1. Range1(<<>>) = {}
      BY DEF Range1
    <3> QED
      BY <1>4, <2>3, <3>1
  <2>5. ASSUME NEW i \in DOMAIN toMerge PROVE Keeps(m.result, toMerge[i])
    <3> DEFINE w == toMerge[i]
               L == m.lists[i]
    <3>1. PICK d \in 0 .. Len(w) : WithoutFirst(L, w, d) /\ FirstPlaced(m.result, w, d)
      BY <1>2 DEF MergeInv, Merged, RestOf
    <3>2. L \in Seq(S) /\ w \in Seq(S) /\ DOMAIN w = 1 .. Len(w) /\ Len(w) \in Nat
      BY <1>4
    <3>3. Len(L) = 0
      <4>1. SUFFICES ASSUME Len(L) /= 0 PROVE FALSE
        OBVIOUS
      <4>2. 1 \in DOMAIN L
        BY <3>2, <4>1
      <4>3. L[1] \in Elements(m.lists)
        BY <1>4, <4>2, ElementsOf DEF Has
      <4> QED
        BY <2>2, <4>3
    <3> HIDE DEF w, L
    <3>4. d = Len(w)
      <4> DEFINE p == Len(L)
                 q == Len(w)
      <4>1. p = 0 /\ q \in Nat /\ p = q - d
        BY <3>1, <3>2, <3>3 DEF WithoutFirst
      <4>2. d \in Int
        BY <3>2
      <4> HIDE DEF p, q
      <4>3. d = q
        BY <4>1, <4>2
      <4> QED
        BY <4>3 DEF q
    <3>5. Keeps(m.result, w)
      <4>1. ASSUME NEW a \in DOMAIN w, NEW b \in DOMAIN w, a < b
            PROVE  \E k, l \in DOMAIN m.result : k < l /\ m.result[k] = w[a] /\ m.result[l] = w[b]
        <5>1. a \in 1 .. d /\ b \in 1 .. d
          BY <3>2, <3>4
        <5>2. \E k, l \in 1 .. Len(m.result) : k < l /\ m.result[k] = w[a] /\ m.result[l] = w[b]
          BY <3>1, <4>1, <5>1 DEF FirstPlaced
        <5> QED
          BY <2>4, <5>2
      <4> QED
        BY <4>1 DEF Keeps
    <3> QED
      BY <3>5 DEF w
  <2>6. Merges(m.result, toMerge)
    BY <1>5, <2>3, <2>4, <2>5 DEF Merges, Range1
  <2> QED
    BY <1>4, <2>1, <2>4, <2>6
<1> QED
  BY <1>6, <1>7

\* The lists of a contract and its bases are ready to be merged: each base has a
\* linearisation that begins with it, and the contract is in none of them.
Ready(S, c, bases, lins) ==
    /\ c \in S /\ bases \in Seq(S)
    /\ \A i \in DOMAIN bases :
          LET lin == lins[bases[i]]
          IN  lin \in Seq(S) /\ lin /= <<>> /\ lin[1] = bases[i] /\ ~ Has(lin, c)

\* A contract is the first of its own linearisation, as everything that reads
\* linearizedBaseContracts takes for granted, and the others are in the order that
\* the linearisations of its bases and the list of its bases give them.
THEOREM ContractComesFirst ==
    ASSUME NEW S, NEW c, NEW bases, NEW lins, Ready(S, c, bases, lins),
           NEW r, r = cThreeMerge(LinearizationInput(c, bases, lins)), r /= <<>>
    PROVE  /\ r[1] = c
           /\ \A i \in DOMAIN bases : Keeps(r, lins[bases[i]])
           /\ Keeps(r, <<c>> \o bases)
<1> DEFINE n == Len(bases)
           own == <<c>> \o bases
           first == [i \in DOMAIN bases |-> lins[bases[i]]]
           in == LinearizationInput(c, bases, lins)
<1>1. n \in Nat /\ DOMAIN bases = 1 .. n /\ c \in S /\ bases \in Seq(S)
  BY DEF Ready
<1>2. /\ own \in Seq(S) /\ DOMAIN own = 1 .. (n + 1) /\ own[1] = c
      /\ \A i \in 1 .. n : own[i + 1] = bases[i]
  <2>1. <<c>> \in Seq(S) /\ Len(<<c>>) = 1 /\ <<c>>[1] = c
    BY <1>1
  <2> QED
    BY <1>1, <2>1
<1>3. first \in Seq(Seq(S)) /\ Len(first) = n /\ \A i \in 1 .. n : first[i] = lins[bases[i]]
  <2>1. \A i \in 1 .. n : lins[bases[i]] \in Seq(S)
    BY <1>1 DEF Ready
  <2> QED
    BY <1>1, <2>1
<1>4. /\ in \in Seq(Seq(S)) /\ DOMAIN in = 1 .. (n + 1) /\ in[n + 1] = own
      /\ \A i \in 1 .. n : in[i] = lins[bases[i]]
  <2>1. in = Append(first, own)
    <3>1. in = first \o <<own>>
      BY DEF LinearizationInput
    <3> HIDE DEF first, own, in
    <3> QED
      BY <1>2, <1>3, <3>1, AppendIsConcat
  <2> HIDE DEF first, own, in, n
  <2>2. own \in Seq(S)
    BY <1>2
  <2> DEFINE T == Seq(S)
  <2>3. first \in Seq(T) /\ own \in T
    BY <1>3, <2>2
  <2> HIDE DEF T
  <2>4. in \in Seq(T) /\ Len(in) = n + 1 /\ in[n + 1] = own /\ \A i \in 1 .. n : in[i] = first[i]
    BY <1>1, <1>3, <2>1, <2>3
  <2>5. DOMAIN in = 1 .. (n + 1)
    BY <2>4
  <2> QED
    BY <1>3, <2>4, <2>5 DEF T
<1> HIDE DEF own, first, in, n
<1>5. c \in Elements(in)
  <2>1. n + 1 \in 1 .. (n + 1) /\ 1 \in 1 .. (n + 1)
    BY <1>1
  <2>2. n + 1 \in DOMAIN in /\ 1 \in DOMAIN in[n + 1] /\ in[n + 1][1] = c
    BY <1>2, <1>4, <2>1
  <2> QED
    BY <2>2, ElementsOf DEF Has
<1>6. Merges(r, in) /\ r \in Seq(S)
  BY <1>4, <1>5, MergeIsExact DEF in
<1>7. (\A i \in 1 .. n : Keeps(r, lins[bases[i]])) /\ Keeps(r, own)
  <2>1. \A i \in 1 .. (n + 1) : Keeps(r, in[i])
    BY <1>4, <1>6 DEF Merges
  <2>2. n + 1 \in 1 .. (n + 1) /\ \A i \in 1 .. n : i \in 1 .. (n + 1)
    BY <1>1
  <2> QED
    BY <1>4, <2>1, <2>2
<1>8. ASSUME NEW list, Keeps(r, list), NEW i \in DOMAIN list, NEW j \in DOMAIN list, i < j
      PROVE  list[j] /= r[1]
  <2>1. PICK k \in DOMAIN r, l \in DOMAIN r : k < l /\ r[k] = list[i] /\ r[l] = list[j]
    BY <1>8 DEF Keeps
  <2>2. DOMAIN r = 1 .. Len(r) /\ Len(r) \in Nat
    BY <1>6
  <2>3. 1 \in DOMAIN r /\ l /= 1
    BY <2>1, <2>2
  <2> QED
    BY <1>6, <2>1, <2>3 DEF Merges
<1>9. r[1] \in Elements(in)
  <2>1. 1 \in DOMAIN r
    BY <1>6
  <2> QED
    BY <1>6, <2>1 DEF Merges
<1>10. ASSUME NEW i \in 1 .. n PROVE bases[i] /= r[1]
  <2>1. 1 \in 1 .. (n + 1) /\ i + 1 \in 1 .. (n + 1) /\ 1 < i + 1
    BY <1>1
  <2>2. own[i + 1] /= r[1]
    BY <1>2, <1>7, <1>8, <2>1
  <2> QED
    BY <1>2, <2>2
<1>11. ASSUME NEW i \in 1 .. n, Has(lins[bases[i]], r[1]) PROVE FALSE
  <2> DEFINE lin == lins[bases[i]]
  <2>1. lin \in Seq(S) /\ lin /= <<>> /\ lin[1] = bases[i]
    BY <1>1 DEF Ready
  <2>2. PICK j \in DOMAIN lin : lin[j] = r[1]
    BY <1>11 DEF Has
  <2>3. Keeps(r, lin)
    BY <1>7
  <2> HIDE DEF lin
  <2>4. j /= 1
    BY <1>10, <2>1, <2>2
  <2>5. 1 \in DOMAIN lin /\ 1 < j
    BY <2>1, <2>4
  <2> QED
    BY <1>8, <2>2, <2>3, <2>5
<1>12. r[1] = c
  <2>1. PICK a \in 1 .. (n + 1) : Has(in[a], r[1])
    BY <1>4, <1>9, ElementsOf
  <2>2. a \in 1 .. n \/ a = n + 1
    BY <1>1
  <2>3. a = n + 1
    BY <1>4, <1>11, <2>1, <2>2
  <2>4. PICK j \in 1 .. (n + 1) : own[j] = r[1]
    BY <1>2, <1>4, <2>1, <2>3 DEF Has
  <2>5. j = 1 \/ (j - 1 \in 1 .. n /\ (j - 1) + 1 = j)
    BY <1>1
  <2> QED
    BY <1>2, <1>10, <2>4, <2>5
<1> QED
  BY <1>1, <1>7, <1>12 DEF own

-----------------------------------------------------------------------------
(***************************************************************************)
(* StorageLayout.                                                          *)
(***************************************************************************)

\* First free bytes: the slot before them may be full.
Frees == [slot : Nat, off : 0 .. WordBytes]

\* Bytes are counted from zero.
LEMMA FromNat ==
    ASSUME WordBytes \in Nat \ {0}, NEW p, p.slot \in Nat, p.off \in Nat
    PROVE  From(p) \in Nat
  BY OneMore DEF From

\* An item is put behind the bytes that are taken, and takes the bytes up to the
\* next free one.
LEMMA PlaceOne ==
    ASSUME WordBytes \in Nat \ {0}, NEW item \in Items, NEW free \in Frees
    PROVE  LET at == placeNext(item, free)
           IN  /\ WellPlaced(item, at)
               /\ From(free) <= From(at)
               /\ placeAfter(item, at) \in Frees
               /\ From(placeAfter(item, at)) = Upto(item, at)
<1> DEFINE at == placeNext(item, free)
           next == placeAfter(item, at)
<1>1. /\ item.bytes \in 1 .. WordBytes /\ item.size \in Nat \ {0}
      /\ item.bytes < WordBytes => item.size = 1
      /\ free.slot \in Nat /\ free.off \in 0 .. WordBytes
      /\ free = Place(free.slot, free.off)
  BY DEF Items, Frees, Place
<1>2. /\ at \in Frees /\ at.slot \in Nat /\ at.off \in 0 .. (WordBytes - 1)
      /\ at.off + item.bytes <= WordBytes /\ From(free) <= From(at)
  <2>1. CASE free.off + item.bytes > WordBytes
    <3>1. at = Place(free.slot + 1, 0)
      BY <2>1 DEF placeNext
    <3>2. at.slot = free.slot + 1 /\ at.off = 0 /\ at \in Frees
      BY <1>1, <3>1 DEF Place, Frees
    <3>3. From(free) = free.slot * WordBytes + free.off /\ From(at) = (free.slot + 1) * WordBytes + 0
      BY <3>2 DEF From
    <3>4. (free.slot + 1) * WordBytes = free.slot * WordBytes + WordBytes /\ free.slot * WordBytes \in Nat
      BY <1>1, OneMore
    <3> QED
      BY <1>1, <3>2, <3>3, <3>4
  <2>2. CASE ~ (free.off + item.bytes > WordBytes)
    <3>1. at = free
      BY <2>2 DEF placeNext
    <3>2. From(free) \in Nat
      BY <1>1, FromNat
    <3> QED
      BY <1>1, <2>2, <3>1, <3>2
  <2> QED
    BY <2>1, <2>2
<1>3. WellPlaced(item, at)
  BY <1>2 DEF WellPlaced, Frees
<1> HIDE DEF at
<1>4. next \in Frees /\ From(next) = Upto(item, at)
  <2>0. at.slot * WordBytes \in Nat
    BY <1>2, OneMore
  <2>1. CASE item.size = 1
    <3>1. next = Place(at.slot, at.off + item.bytes)
      BY <1>2, <2>1 DEF placeAfter
    <3>2. next \in Frees /\ next.slot = at.slot /\ next.off = at.off + item.bytes
      BY <1>1, <1>2, <3>1 DEF Place, Frees
    <3>3. item.size * item.bytes = item.bytes
      BY <1>1, <2>1
    <3> QED
      BY <1>1, <1>2, <2>0, <3>2, <3>3 DEF From, Upto
  <2>2. CASE item.size /= 1
    <3>1. next = Place(at.slot + item.size, 0) /\ item.bytes = WordBytes /\ at.off = 0
      BY <1>1, <1>2, <2>2 DEF placeAfter
    <3>2. next \in Frees /\ next.slot = at.slot + item.size /\ next.off = 0
      BY <1>1, <1>2, <3>1 DEF Place, Frees
    <3>3. (at.slot + item.size) * WordBytes = at.slot * WordBytes + item.size * WordBytes
      BY <1>1, <1>2, OneMore
    <3> QED
      BY <1>1, <1>2, <2>0, <3>1, <3>2, <3>3 DEF From, Upto
  <2> QED
    BY <2>1, <2>2
<1> QED
  BY <1>2, <1>3, <1>4 DEF at

\* The recursion defines the free bytes.
LEMMA FrontierDefined ==
    ASSUME WordBytes \in Nat \ {0}, NEW items \in Seq(Items)
    PROVE  LET free == Frontier(items)
           IN  /\ free[0] = Place(0, 0)
               /\ \A n \in 0 .. Len(items) : free[n] \in Frees
               /\ \A n \in 1 .. Len(items) : free[n] = placeAfter(items[n], placeNext(items[n], free[n - 1]))
<1> DEFINE N == Len(items)
           after(n, x) == placeAfter(items[n], placeNext(items[n], x))
           F == [p \in Nat \X Frees |-> after(p[1] + 1, p[2])]
           start == Place(0, 0)
           Q(g) == g = [n \in 0 .. N |-> IF n = 0 THEN start ELSE after(n, g[n - 1])]
<1>1. Frontier(items) = CHOOSE g : Q(g)
  BY DEF Frontier
<1>2. N \in Nat /\ \A n \in 1 .. N : items[n] \in Items
  OBVIOUS
<1>3. start \in Frees
  BY DEF Place, Frees
<1>4. ASSUME NEW n \in 1 .. N, NEW x \in Frees PROVE after(n, x) \in Frees
  BY <1>2, PlaceOne
<1> HIDE DEF start
<1>5. ASSUME NEW n \in Nat, NEW x \in Frees PROVE F[<<n, x>>] = after(n + 1, x)
  OBVIOUS
<1>6. PICK f : f[0] = start /\ \A n \in Nat : f[n + 1] = F[<<n, f[n]>>]
  <2> HIDE DEF F
  <2>1. \E f : StepsForever(f, start, F)
    BY Recursion
  <2> QED
    BY <2>1 DEF StepsForever
<1> HIDE DEF F, after
<1> DEFINE T == {n \in Nat : n <= N => f[n] \in Frees}
<1>7. T = Nat
  <2>1. T \in SUBSET Nat /\ 0 \in T
    BY <1>3, <1>6
  <2>2. ASSUME NEW n \in T PROVE n + 1 \in T
    <3>1. n \in Nat /\ n + 1 \in Nat
      OBVIOUS
    <3>2. CASE n + 1 <= N
      <4>1. f[n] \in Frees /\ n + 1 \in 1 .. N
        BY <1>2, <3>1, <3>2
      <4>2. f[n + 1] = after(n + 1, f[n])
        BY <1>5, <1>6, <3>1, <4>1
      <4> QED
        BY <1>4, <3>1, <4>1, <4>2
    <3> QED
      BY <3>1, <3>2
  <2> HIDE DEF T
  <2> QED
    BY <2>1, <2>2, NatSetInduction
<1>8. ASSUME NEW n \in 0 .. N PROVE f[n] \in Frees
  BY <1>2, <1>7
<1>9. ASSUME NEW n \in 1 .. N PROVE f[n] = after(n, f[n - 1])
  <2>1. n - 1 \in Nat /\ n - 1 \in 0 .. N /\ (n - 1) + 1 = n
    BY <1>2
  <2>2. f[(n - 1) + 1] = F[<<n - 1, f[n - 1]>>]
    BY <1>6, <2>1
  <2>3. F[<<n - 1, f[n - 1]>>] = after((n - 1) + 1, f[n - 1])
    BY <1>5, <1>8, <2>1
  <2> QED
    BY <2>1, <2>2, <2>3
<1> DEFINE g == [n \in 0 .. N |-> f[n]]
<1>10. Q(g)
  <2>1. ASSUME NEW n \in 0 .. N PROVE g[n] = IF n = 0 THEN start ELSE after(n, g[n - 1])
    <3>1. CASE n = 0
      BY <1>2, <1>6, <3>1
    <3>2. CASE n /= 0
      <4>1. n \in 1 .. N /\ n - 1 \in 0 .. N
        BY <1>2, <3>2
      <4>2. g[n] = f[n] /\ g[n - 1] = f[n - 1]
        BY <4>1
      <4> QED
        BY <1>9, <3>2, <4>1, <4>2
    <3> QED
      BY <3>1, <3>2
  <2>2. g = [n \in 0 .. N |-> g[n]]
    OBVIOUS
  <2> HIDE DEF g
  <2> QED
    BY <2>1, <2>2
<1> DEFINE free == Frontier(items)
<1>11. Q(free)
  BY <1>1, <1>10
<1> HIDE DEF free, Q
<1>12. /\ free[0] = start
       /\ \A n \in 1 .. N : free[n] = after(n, free[n - 1])
  BY <1>2, <1>11 DEF Q
<1> DEFINE S == {n \in Nat : n <= N => free[n] \in Frees}
<1>13. S = Nat
  <2>1. S \in SUBSET Nat /\ 0 \in S
    BY <1>3, <1>12
  <2>2. ASSUME NEW n \in S PROVE n + 1 \in S
    <3>1. n \in Nat /\ n + 1 \in Nat /\ (n + 1) - 1 = n
      OBVIOUS
    <3>2. CASE n + 1 <= N
      <4>1. free[n] \in Frees /\ n + 1 \in 1 .. N
        BY <1>2, <3>1, <3>2
      <4>2. free[n + 1] = after(n + 1, free[n])
        BY <1>12, <3>1, <4>1
      <4> QED
        BY <1>4, <3>1, <4>1, <4>2
    <3> QED
      BY <3>1, <3>2
  <2> HIDE DEF S
  <2> QED
    BY <2>1, <2>2, NatSetInduction
<1>14. \A n \in 0 .. N : free[n] \in Frees
  BY <1>2, <1>13
<1> QED
  BY <1>12, <1>14 DEF start, after, free

\* Free bytes never move back.
LEMMA FrontierGrows ==
    ASSUME WordBytes \in Nat \ {0}, NEW items \in Seq(Items),
           NEW m \in 0 .. Len(items), NEW n \in m .. Len(items)
    PROVE  From(Frontier(items)[m]) <= From(Frontier(items)[n])
<1> DEFINE N == Len(items)
           free == Frontier(items)
           T == {d \in Nat : m + d <= N => From(free[m]) <= From(free[m + d])}
<1>1. N \in Nat /\ m \in Nat /\ n \in Nat /\ \A k \in 1 .. N : items[k] \in Items
  OBVIOUS
<1>2. /\ \A k \in 0 .. N : free[k] \in Frees
      /\ \A k \in 1 .. N : free[k] = placeAfter(items[k], placeNext(items[k], free[k - 1]))
  BY FrontierDefined
<1> HIDE DEF free
<1>3. ASSUME NEW k \in 0 .. N PROVE From(free[k]) \in Nat
  <2>1. free[k].slot \in Nat /\ free[k].off \in Nat
    BY <1>2 DEF Frees
  <2> QED
    BY <2>1, FromNat
<1>4. ASSUME NEW k \in 1 .. N PROVE From(free[k - 1]) <= From(free[k])
  <2> DEFINE at == placeNext(items[k], free[k - 1])
  <2>1. k - 1 \in 0 .. N /\ k \in 0 .. N
    BY <1>1
  <2>2. /\ WellPlaced(items[k], at) /\ From(free[k - 1]) <= From(at)
        /\ From(placeAfter(items[k], at)) = Upto(items[k], at)
    BY <1>1, <1>2, <2>1, PlaceOne
  <2>3. items[k].size \in Nat /\ items[k].bytes \in Nat /\ items[k].size * items[k].bytes \in Nat
    BY <1>1 DEF Items
  <2>4. From(at) \in Nat
    <3>1. at.slot \in Nat /\ at.off \in Nat
      BY <2>2 DEF WellPlaced
    <3> QED
      BY <3>1, FromNat
  <2>5. From(at) <= Upto(items[k], at)
    BY <2>3, <2>4 DEF Upto
  <2>6. From(free[k]) = Upto(items[k], at)
    BY <1>2, <2>2
  <2> HIDE DEF at
  <2> QED
    BY <1>3, <2>1, <2>2, <2>4, <2>5, <2>6
<1>5. T = Nat
  <2>1. T \in SUBSET Nat /\ 0 \in T
    <3>1. m + 0 = m /\ From(free[m]) \in Nat
      BY <1>1, <1>3
    <3> QED
      BY <3>1
  <2>2. ASSUME NEW d \in T PROVE d + 1 \in T
    <3>1. d \in Nat /\ d + 1 \in Nat /\ m + (d + 1) = (m + d) + 1
      BY <1>1
    <3>2. CASE m + (d + 1) <= N
      <4>1. m + d \in 0 .. N /\ (m + d) + 1 \in 1 .. N /\ ((m + d) + 1) - 1 = m + d /\ (m + d) + 1 \in 0 .. N
        BY <1>1, <3>1, <3>2
      <4>2. From(free[m]) <= From(free[m + d])
        BY <3>1, <4>1
      <4>3. From(free[m + d]) <= From(free[(m + d) + 1])
        BY <1>4, <4>1
      <4>4. From(free[m]) \in Nat /\ From(free[m + d]) \in Nat /\ From(free[(m + d) + 1]) \in Nat
        BY <1>3, <4>1
      <4>5. From(free[m]) <= From(free[(m + d) + 1])
        BY <4>2, <4>3, <4>4
      <4> QED
        BY <3>1, <4>5
    <3> QED
      BY <3>1, <3>2
  <2> HIDE DEF T
  <2> QED
    BY <2>1, <2>2, NatSetInduction
<1>6. n - m \in Nat /\ m + (n - m) = n /\ n <= N
  BY <1>1
<1> QED
  BY <1>5, <1>6 DEF free

\* No two variables of a contract and no two members of a structure share a
\* byte: the items follow each other in the order of their declaration, each of
\* them within one slot or in whole slots of its own, and all are within the
\* slots that the layout says it needs; and it needs no slot more.
THEOREM LayoutIsDisjoint ==
    ASSUME WordBytes \in Nat \ {0}, NEW items \in Seq(Items)
    PROVE  LET layout == computeOffsets(items)
           IN  /\ LaidOut(items, layout.at, layout.size)
               /\ items /= <<>> =>
                    LET last == Len(items)
                    IN  Upto(items[last], layout.at[last]) > (layout.size - 1) * WordBytes
<1> DEFINE N == Len(items)
           free == Frontier(items)
           layout == computeOffsets(items)
           at == layout.at
           size == layout.size
<1>1. N \in Nat /\ DOMAIN items = 1 .. N /\ \A k \in 1 .. N : items[k] \in Items
  OBVIOUS
<1>2. /\ free[0] = Place(0, 0)
      /\ \A k \in 0 .. N : free[k] \in Frees
      /\ \A k \in 1 .. N : free[k] = placeAfter(items[k], placeNext(items[k], free[k - 1]))
  BY FrontierDefined
<1>3. \A k, n \in 0 .. N : k <= n => From(free[k]) <= From(free[n])
  <2> SUFFICES ASSUME NEW k \in 0 .. N, NEW n \in 0 .. N, k <= n
               PROVE  From(free[k]) <= From(free[n])
    OBVIOUS
  <2>1. n \in k .. N
    BY <1>1
  <2> QED
    BY <2>1, FrontierGrows
<1>4. /\ \A k \in 1 .. N : at[k] = placeNext(items[k], free[k - 1])
      /\ size = IF free[N].off > 0 THEN free[N].slot + 1 ELSE free[N].slot
  BY <1>1 DEF computeOffsets
<1> HIDE DEF free, layout
<1>5. ASSUME NEW k \in 0 .. N PROVE From(free[k]) \in Nat
  <2>1. free[k].slot \in Nat /\ free[k].off \in Nat
    BY <1>2 DEF Frees
  <2> QED
    BY <2>1, FromNat
<1>6. ASSUME NEW k \in 1 .. N
      PROVE  /\ k - 1 \in 0 .. N /\ k \in 0 .. N
             /\ WellPlaced(items[k], at[k])
             /\ From(free[k - 1]) <= From(at[k])
             /\ Upto(items[k], at[k]) = From(free[k])
             /\ From(at[k]) \in Nat
  <2>1. k - 1 \in 0 .. N /\ k \in 0 .. N
    BY <1>1
  <2>2. /\ WellPlaced(items[k], at[k])
        /\ From(free[k - 1]) <= From(at[k])
        /\ From(placeAfter(items[k], at[k])) = Upto(items[k], at[k])
    BY <1>1, <1>2, <1>4, <2>1, PlaceOne
  <2>3. From(at[k]) \in Nat
    <3>1. at[k].slot \in Nat /\ at[k].off \in Nat
      BY <2>2 DEF WellPlaced
    <3> QED
      BY <3>1, FromNat
  <2> QED
    BY <1>2, <1>4, <2>1, <2>2, <2>3
<1>7. ASSUME NEW i \in 1 .. N, NEW j \in 1 .. N, i < j
      PROVE  Upto(items[i], at[i]) <= From(at[j])
  <2>1. i <= j - 1 /\ i \in 0 .. N /\ j - 1 \in 0 .. N
    BY <1>1, <1>7
  <2>2. From(free[i]) <= From(free[j - 1])
    BY <1>3, <2>1
  <2>3. From(free[j - 1]) <= From(at[j]) /\ Upto(items[i], at[i]) = From(free[i])
    BY <1>6
  <2>4. From(free[i]) \in Nat /\ From(free[j - 1]) \in Nat /\ From(at[j]) \in Nat
    BY <1>5, <1>6, <2>1
  <2> QED
    BY <2>2, <2>3, <2>4
<1>8. /\ free[N].slot \in Nat /\ free[N].off \in 0 .. WordBytes /\ N \in 0 .. N
      /\ From(free[N]) = free[N].slot * WordBytes + free[N].off
      /\ free[N].slot * WordBytes \in Nat
      /\ (free[N].slot + 1) * WordBytes = free[N].slot * WordBytes + WordBytes
  <2>1. N \in 0 .. N /\ free[N] \in Frees
    BY <1>1, <1>2
  <2>2. free[N].slot \in Nat /\ free[N].off \in 0 .. WordBytes
    BY <2>1 DEF Frees
  <2> QED
    BY <2>1, <2>2, OneMore DEF From
<1>9. From(free[N]) <= size * WordBytes
  BY <1>4, <1>8
<1>10. ASSUME NEW i \in 1 .. N PROVE Upto(items[i], at[i]) <= size * WordBytes
  <2>1. i \in 0 .. N /\ i <= N
    BY <1>1
  <2>2. From(free[i]) <= From(free[N]) /\ From(free[i]) \in Nat /\ From(free[N]) \in Nat
    BY <1>3, <1>5, <1>8, <2>1
  <2>3. size * WordBytes \in Nat
    BY <1>4, <1>8
  <2> QED
    BY <1>6, <1>9, <2>2, <2>3
<1>11. LaidOut(items, at, size)
  BY <1>1, <1>6, <1>7, <1>10 DEF LaidOut
<1>12. ASSUME items /= <<>> PROVE Upto(items[N], at[N]) > (size - 1) * WordBytes
  <2>1. N \in 1 .. N
    BY <1>1, <1>12
  <2>2. Upto(items[N], at[N]) = From(free[N])
    BY <1>6, <2>1
  <2>3. CASE free[N].off > 0
    <3>1. size - 1 = free[N].slot
      BY <1>4, <1>8, <2>3
    <3> QED
      BY <1>8, <2>2, <2>3, <3>1
  <2>4. CASE ~ (free[N].off > 0)
    <3>1. size = free[N].slot /\ free[N].off = 0
      BY <1>4, <1>8, <2>4
    <3>2. (size - 1) * WordBytes = size * WordBytes - WordBytes
      BY <1>8, <3>1
    <3> QED
      BY <1>8, <2>2, <3>1, <3>2
  <2> QED
    BY <2>3, <2>4
<1> QED
  BY <1>11, <1>12 DEF layout

-----------------------------------------------------------------------------
\* Rounded up, the quotient counts the slots of k elements that n elements need.
LEMMA RoundedUp ==
    ASSUME NEW k \in Nat \ {0}, NEW n \in Nat, NEW i \in Nat
    PROVE  LET c == (n + k - 1) \div k
           IN  /\ c \in Nat
               /\ i < n => i \div k < c
               /\ i >= n => i \div k >= c \/ (n > 0 /\ i \div k = (n - 1) \div k)
<1> DEFINE c == (n + k - 1) \div k
           q == i \div k
<1>0. n + k - 1 \in Nat
  OBVIOUS
<1>1. /\ q \in Nat /\ i % k \in 0 .. (k - 1) /\ i = q * k + (i % k) /\ q * k \in Nat
      /\ c \in Nat /\ (n + k - 1) % k \in 0 .. (k - 1)
      /\ n + k - 1 = c * k + ((n + k - 1) % k) /\ c * k \in Nat
  BY <1>0, Quotient
<1> DEFINE r == i % k
           s == (n + k - 1) % k
<1> HIDE DEF c, q, r, s
<1>2. /\ q \in Nat /\ r \in 0 .. (k - 1) /\ i = q * k + r /\ q * k \in Nat
      /\ c \in Nat /\ s \in 0 .. (k - 1) /\ n + k - 1 = c * k + s /\ c * k \in Nat
  BY <1>1 DEF r, s
<1>3. ASSUME i < n PROVE q < c
  <2>1. SUFFICES ASSUME c <= q PROVE FALSE
    BY <1>2
  <2>2. c * k <= q * k
    <3>1. CASE c = q
      BY <1>2, <3>1
    <3>2. CASE c < q
      <4>1. c * k + k <= q * k
        BY <1>2, <3>2, Multiples
      <4> QED
        BY <1>2, <4>1
    <3> QED
      BY <1>2, <2>1, <3>1, <3>2
  <2> QED
    BY <1>2, <1>3, <2>2
<1>4. ASSUME i >= n, q < c PROVE n > 0 /\ q = (n - 1) \div k
  <2>1. q * k + k <= c * k
    BY <1>2, <1>4, Multiples
  <2>2. q * k <= n - 1
    BY <1>2, <2>1
  <2>3. n - 1 \in Nat /\ n > 0
    BY <1>2, <2>2
  <2> DEFINE p == (n - 1) \div k
             t == (n - 1) % k
  <2>4. p \in Nat /\ t \in 0 .. (k - 1) /\ n - 1 = p * k + t /\ p * k \in Nat
    BY <2>3, Quotient
  <2>5. p <= q
    <3>1. n - 1 <= i
      BY <1>4
    <3> QED
      BY <2>3, <3>1, QuotientOrder DEF q
  <2> HIDE DEF p, t
  <2>6. q <= p
    <3>1. SUFFICES ASSUME p < q PROVE FALSE
      BY <1>2, <2>4
    <3>2. p * k + k <= q * k
      BY <1>2, <2>4, <3>1, Multiples
    <3> QED
      BY <1>2, <2>2, <2>4, <3>2
  <2>7. q = p
    BY <1>2, <2>4, <2>5, <2>6
  <2> QED
    BY <2>3, <2>7 DEF p
<1>5. i >= n => q >= c \/ (n > 0 /\ q = (n - 1) \div k)
  BY <1>2, <1>4
<1> QED
  BY <1>2, <1>3, <1>5 DEF c, q

\* As many elements as are packed into a slot fit there, and it is one if they
\* take more than half of it.
LEMMA PerSlot ==
    ASSUME WordBytes \in Nat \ {0}, NEW base \in Items
    PROVE  /\ base.bytes \in 1 .. WordBytes /\ base.size \in Nat \ {0}
           /\ base.bytes < WordBytes => base.size = 1
           /\ itemsPerSlot(base) \in Nat \ {0}
           /\ itemsPerSlot(base) * base.bytes \in Nat
           /\ itemsPerSlot(base) * base.bytes <= WordBytes
           /\ Packed(base) => base.bytes < WordBytes
           /\ ~ Packed(base) => itemsPerSlot(base) = 1
<1> DEFINE b == base.bytes
           k == itemsPerSlot(base)
           h == WordBytes \div 2
<1>1. /\ b \in 1 .. WordBytes /\ base.size \in Nat \ {0} /\ b \in Nat \ {0}
      /\ b < WordBytes => base.size = 1
  BY DEF Items
<1>2. /\ k \in Nat /\ WordBytes % b \in 0 .. (b - 1) /\ k * b \in Nat
      /\ WordBytes = k * b + (WordBytes % b)
  BY <1>1, Quotient DEF itemsPerSlot
<1>3. h \in Nat /\ WordBytes % 2 \in 0 .. 1 /\ WordBytes = h * 2 + (WordBytes % 2)
  BY Quotient
<1> HIDE DEF b, k, h
<1>4. k /= 0
  BY <1>1, <1>2
<1>5. b <= h => b < WordBytes
  BY <1>1, <1>3
<1>6. ASSUME ~ (b <= h) PROVE k = 1
  <2>1. 2 * b > WordBytes
    BY <1>1, <1>3, <1>6
  <2>2. SUFFICES ASSUME k > 1 PROVE FALSE
    BY <1>2, <1>4
  <2>3. 1 * b + b <= k * b
    BY <1>1, <1>2, <2>2, Multiples
  <2> QED
    BY <1>1, <1>2, <2>1, <2>3
<1> QED
  BY <1>1, <1>2, <1>4, <1>5, <1>6 DEF Packed, b, k, h

\* A packed element is within the slot of its quotient.
LEMMA PackedElement ==
    ASSUME WordBytes \in Nat \ {0}, NEW base \in Items, Packed(base), NEW i \in Nat
    PROVE  LET k  == itemsPerSlot(base)
               p == elementPlace(base, i)
           IN  /\ WellPlaced(base, p)
               /\ p.slot = i \div k /\ p.slot \in Nat
               /\ From(p) = (i \div k) * WordBytes + (i % k) * base.bytes
               /\ Upto(base, p) = From(p) + base.bytes
               /\ (i % k) * base.bytes + base.bytes <= WordBytes
               /\ (i % k) * base.bytes \in Nat /\ (i \div k) * WordBytes \in Nat /\ i % k \in Nat
<1> DEFINE b == base.bytes
           k == itemsPerSlot(base)
           q == i \div k
           r == i % k
           p == elementPlace(base, i)
<1>1. /\ b \in 1 .. WordBytes /\ base.size = 1 /\ k \in Nat \ {0}
      /\ k * b \in Nat /\ k * b <= WordBytes
  BY PerSlot
<1>2. q \in Nat /\ r \in 0 .. (k - 1)
  BY <1>1, Quotient
<1>3. p = Place(q, r * b)
  BY DEF elementPlace
<1> HIDE DEF b, k, q, r, p
<1>4. r * b + b <= k * b /\ r * b \in Nat
  BY <1>1, <1>2, Multiples
<1>5. p.slot = q /\ p.off = r * b /\ p \in [slot : Nat, off : 0 .. (WordBytes - 1)]
  BY <1>1, <1>2, <1>3, <1>4 DEF Place
<1>6. WellPlaced(base, p)
  BY <1>1, <1>4, <1>5 DEF WellPlaced, b
<1>7. From(p) = q * WordBytes + r * b /\ q * WordBytes \in Nat
  BY <1>2, <1>5, OneMore DEF From
<1>8. Upto(base, p) = From(p) + b
  <2>1. base.size * b = b
    BY <1>1
  <2> QED
    BY <2>1 DEF Upto, b
<1>9. r * b + b <= WordBytes /\ r \in Nat
  BY <1>1, <1>2, <1>4
<1> QED
  BY <1>2, <1>4, <1>5, <1>6, <1>7, <1>8, <1>9 DEF b, k, q, r, p

\* An element that is not packed has slots of its own.
LEMMA WideElement ==
    ASSUME WordBytes \in Nat \ {0}, NEW base \in Items, ~ Packed(base), NEW i \in Nat
    PROVE  LET p == elementPlace(base, i)
           IN  /\ WellPlaced(base, p)
               /\ p.slot = i * base.size /\ i * base.size \in Nat
               /\ From(p) = (i * base.size) * WordBytes /\ From(p) \in Nat
               /\ Upto(base, p) <= (i * base.size + base.size) * WordBytes
               /\ Upto(base, p) \in Nat /\ (i * base.size + base.size) * WordBytes \in Nat
<1> DEFINE b == base.bytes
           s == base.size
           m == i * s
           p == elementPlace(base, i)
<1>1. b \in 1 .. WordBytes /\ s \in Nat \ {0} /\ (b < WordBytes => s = 1)
  BY PerSlot
<1>2. m \in Nat
  BY <1>1
<1>3. p = Place(m, 0)
  BY DEF elementPlace
<1> HIDE DEF b, s, m, p
<1>4. p.slot = m /\ p.off = 0 /\ p \in [slot : Nat, off : 0 .. (WordBytes - 1)]
  BY <1>2, <1>3 DEF Place
<1>5. WellPlaced(base, p)
  BY <1>1, <1>4 DEF WellPlaced, b
<1>6. From(p) = m * WordBytes /\ m * WordBytes \in Nat
  BY <1>2, <1>4, OneMore DEF From
<1>7. (m + s) * WordBytes = m * WordBytes + s * WordBytes /\ s * WordBytes \in Nat
  BY <1>1, <1>2, OneMore
<1>8. s * b \in Nat /\ s * b <= s * WordBytes
  <2>1. CASE b = WordBytes
    BY <1>1, <1>7, <2>1
  <2>2. CASE b < WordBytes
    <3>1. s * b = b /\ s * WordBytes = WordBytes
      BY <1>1, <2>2
    <3> QED
      BY <1>1, <2>2, <3>1
  <2> QED
    BY <1>1, <2>1, <2>2
<1>9. Upto(base, p) = From(p) + s * b
  BY DEF Upto, s, b
<1> QED
  BY <1>2, <1>4, <1>5, <1>6, <1>7, <1>8, <1>9 DEF m, s, p

\* Elements follow each other without overlap.
LEMMA ElementsInOrder ==
    ASSUME WordBytes \in Nat \ {0}, NEW base \in Items, NEW i \in Nat, NEW j \in Nat, i < j
    PROVE  Upto(base, elementPlace(base, i)) <= From(elementPlace(base, j))
<1> DEFINE b == base.bytes
           s == base.size
           k == itemsPerSlot(base)
           p == elementPlace(base, i)
           q == elementPlace(base, j)
<1>1. b \in 1 .. WordBytes /\ s \in Nat \ {0} /\ k \in Nat \ {0} /\ b \in Nat
  BY PerSlot
<1>2. CASE Packed(base)
  <2> DEFINE di == i \div k
             ri == i % k
             dj == j \div k
             rj == j % k
  <2>1. /\ di \in Nat /\ ri \in 0 .. (k - 1) /\ i = di * k + ri
        /\ dj \in Nat /\ rj \in 0 .. (k - 1) /\ j = dj * k + rj /\ di * k \in Nat /\ dj * k \in Nat
    BY <1>1, Quotient
  <2>2. di <= dj
    BY <1>1, QuotientOrder
  <2>3. /\ Upto(base, p) = (di * WordBytes + ri * b) + b
        /\ ri * b + b <= WordBytes /\ ri * b \in Nat /\ di * WordBytes \in Nat
        /\ From(q) = dj * WordBytes + rj * b /\ rj * b \in Nat /\ dj * WordBytes \in Nat
    BY <1>2, PackedElement
  <2> HIDE DEF di, ri, dj, rj
  <2>4. CASE di = dj
    <3>1. ri < rj
      BY <2>1, <2>4
    <3>2. ri * b + b <= rj * b
      BY <1>1, <2>1, <3>1, Multiples
    <3> QED
      BY <1>1, <2>3, <2>4, <3>2
  <2>5. CASE di < dj
    <3>1. di * WordBytes + WordBytes <= dj * WordBytes
      BY <2>1, <2>5, Multiples
    <3> QED
      BY <1>1, <2>3, <3>1
  <2> QED
    BY <2>1, <2>2, <2>4, <2>5
<1>3. CASE ~ Packed(base)
  <2>1. /\ Upto(base, p) <= (i * s + s) * WordBytes /\ Upto(base, p) \in Nat
        /\ (i * s + s) * WordBytes \in Nat /\ i * s \in Nat
        /\ From(q) = (j * s) * WordBytes /\ From(q) \in Nat /\ j * s \in Nat
    BY <1>3, WideElement
  <2>2. i * s + s <= j * s
    BY <1>1, Multiples
  <2> HIDE DEF s
  <2>3. (i * s + s) * WordBytes <= (j * s) * WordBytes
    <3>1. CASE i * s + s = j * s
      BY <2>1, <3>1
    <3>2. CASE i * s + s < j * s
      <4> DEFINE x == i * s + s
                 y == j * s
      <4>1. x \in Nat /\ y \in Nat /\ x < y
        BY <1>1, <2>1, <3>2
      <4> HIDE DEF x, y
      <4>2. x * WordBytes + WordBytes <= y * WordBytes /\ x * WordBytes \in Nat /\ y * WordBytes \in Nat
        BY <4>1, Multiples
      <4>3. x * WordBytes <= y * WordBytes
        BY <4>2
      <4> QED
        BY <4>3 DEF x, y
    <3> QED
      BY <1>1, <2>1, <2>2, <3>1, <3>2
  <2>4. Upto(base, p) <= (j * s) * WordBytes
    <3> DEFINE u == Upto(base, p)
               x == (i * s + s) * WordBytes
               y == (j * s) * WordBytes
    <3>1. u <= x /\ x <= y /\ u \in Nat /\ x \in Nat /\ y \in Nat
      BY <2>1, <2>3
    <3> HIDE DEF u, x, y
    <3>2. u <= y
      BY <3>1
    <3> QED
      BY <3>2 DEF u, y
  <2> QED
    BY <2>1, <2>4
<1> QED
  BY <1>2, <1>3

\* The slots that are counted for n elements, where an array is cleared, are those
\* of its elements: an array of fixed length has as many (one at least); they hold
\* the first n elements; and they hold a later element only if it shares the slot
\* of the last of them.  An array that is cut to n elements therefore keeps them,
\* and all others are cleared but those in that slot.
THEOREM SlotsCounted ==
    ASSUME WordBytes \in Nat \ {0}, NEW base \in Items, NEW n \in Nat
    PROVE  LET c     == convertLengthToSize(base, n)
               at(i) == elementPlace(base, i)
           IN  /\ c \in Nat
               /\ arrayStorageSize(base, n) = Greater(1, c)
               /\ \A i \in 0 .. (n - 1) : Upto(base, at(i)) <= c * WordBytes
               /\ \A i \in Nat : i >= n => at(i).slot >= c \/ (n > 0 /\ at(i).slot = at(n - 1).slot)
<1> DEFINE b == base.bytes
           s == base.size
           k == itemsPerSlot(base)
           c == convertLengthToSize(base, n)
           at(i) == elementPlace(base, i)
<1>1. /\ b \in 1 .. WordBytes /\ s \in Nat \ {0} /\ k \in Nat \ {0} /\ b \in Nat
      /\ b < WordBytes => s = 1
      /\ Packed(base) => b < WordBytes
      /\ ~ Packed(base) => k = 1
  BY PerSlot
<1>2. CASE Packed(base)
  <2>1. s = 1 /\ c = (n + k - 1) \div k /\ arrayStorageSize(base, n) = Greater(1, c)
    BY <1>1, <1>2 DEF convertLengthToSize, arrayStorageSize, packedSlots
  <2>2. c \in Nat
    BY <1>1, <2>1, RoundedUp
  <2>3. ASSUME NEW i \in 0 .. (n - 1) PROVE Upto(base, at(i)) <= c * WordBytes
    <3> DEFINE q == i \div k
               r == i % k
    <3>1. i \in Nat /\ i < n
      OBVIOUS
    <3>2. q < c
      BY <1>1, <2>1, <3>1, RoundedUp
    <3>3. /\ Upto(base, at(i)) = (q * WordBytes + r * b) + b /\ q * WordBytes \in Nat
          /\ r * b + b <= WordBytes /\ r * b \in Nat /\ q \in Nat
      BY <1>2, <3>1, PackedElement
    <3> HIDE DEF q, r, c, b
    <3>4. q * WordBytes + WordBytes <= c * WordBytes /\ c * WordBytes \in Nat
      BY <2>2, <3>2, <3>3, Multiples
    <3> QED
      BY <1>1, <3>3, <3>4
  <2>4. ASSUME NEW i \in Nat, i >= n
        PROVE  at(i).slot >= c \/ (n > 0 /\ at(i).slot = at(n - 1).slot)
    <3>1. i \div k >= c \/ (n > 0 /\ i \div k = (n - 1) \div k)
      BY <1>1, <2>1, <2>4, RoundedUp
    <3>2. at(i).slot = i \div k
      BY <1>2, PackedElement
    <3>3. n > 0 => n - 1 \in Nat
      OBVIOUS
    <3>4. n > 0 => at(n - 1).slot = (n - 1) \div k
      BY <1>2, <3>3, PackedElement
    <3> HIDE DEF c, k, at
    <3> QED
      BY <3>1, <3>2, <3>4
  <2> QED
    BY <2>1, <2>2, <2>3, <2>4
<1>3. CASE ~ Packed(base)
  <2>1. c = n * s /\ c \in Nat
    BY <1>1, <1>3 DEF convertLengthToSize
  <2>2. arrayStorageSize(base, n) = Greater(1, c)
    <3>1. CASE b = WordBytes
      BY <2>1, <3>1 DEF arrayStorageSize
    <3>2. CASE b < WordBytes
      <4>1. s = 1 /\ k = 1 /\ c = n
        BY <1>1, <1>3, <2>1, <3>2
      <4>2. (n + 1 - 1) \div 1 = n
        OBVIOUS
      <4>3. packedSlots(base, n) = n
        BY <4>1, <4>2 DEF packedSlots
      <4> QED
        BY <3>2, <4>1, <4>3 DEF arrayStorageSize
    <3> QED
      BY <1>1, <3>1, <3>2
  <2>3. ASSUME NEW i \in 0 .. (n - 1) PROVE Upto(base, at(i)) <= c * WordBytes
    <3> DEFINE u == Upto(base, at(i))
               x == i * s + s
    <3>1. i \in Nat /\ i < n
      OBVIOUS
    <3>2. u <= x * WordBytes /\ u \in Nat /\ x * WordBytes \in Nat
      BY <1>3, <3>1, WideElement
    <3>3. x <= c /\ x \in Nat
      BY <1>1, <2>1, <3>1, Multiples
    <3> HIDE DEF x, c, u
    <3>4. x * WordBytes <= c * WordBytes /\ c * WordBytes \in Nat
      <4>1. CASE x < c
        <5>1. x * WordBytes + WordBytes <= c * WordBytes /\ c * WordBytes \in Nat
          BY <2>1, <3>3, <4>1, Multiples
        <5> QED
          BY <3>2, <5>1
      <4>2. CASE x = c
        BY <3>2, <4>2
      <4> QED
        BY <2>1, <3>3, <4>1, <4>2
    <3>5. u <= c * WordBytes
      BY <3>2, <3>4
    <3> QED
      BY <3>5 DEF u
  <2>4. ASSUME NEW i \in Nat, i >= n
        PROVE  at(i).slot >= c
    <3>1. at(i).slot = i * s /\ i * s \in Nat
      BY <1>3, WideElement
    <3>2. CASE i = n
      BY <2>1, <3>1, <3>2
    <3>3. CASE n < i
      <4>1. n * s + s <= i * s
        BY <1>1, <3>3, Multiples
      <4> QED
        BY <1>1, <2>1, <3>1, <4>1
    <3> QED
      BY <2>4, <3>2, <3>3
  <2> QED
    BY <2>1, <2>2, <2>3, <2>4
<1> QED
  BY <1>2, <1>3

\* No two elements of an array of fixed length share a byte, and all are within
\* the slots of the array.
THEOREM ElementsAreDisjoint ==
    ASSUME WordBytes \in Nat \ {0}, NEW base \in Items, NEW length \in Nat
    PROVE  LaidOut([i \in 1 .. length |-> base], [i \in 1 .. length |-> elementPlace(base, i - 1)],
                   arrayStorageSize(base, length))
<1> DEFINE items == [i \in 1 .. length |-> base]
           at == [i \in 1 .. length |-> elementPlace(base, i - 1)]
           size == arrayStorageSize(base, length)
           c == convertLengthToSize(base, length)
<1>1. /\ DOMAIN items = 1 .. length
      /\ \A i \in 1 .. length : items[i] = base /\ at[i] = elementPlace(base, i - 1) /\ i - 1 \in Nat
  OBVIOUS
<1>2. /\ c \in Nat /\ size = Greater(1, c)
      /\ \A i \in 0 .. (length - 1) : Upto(base, elementPlace(base, i)) <= c * WordBytes
  BY SlotsCounted
<1>3. /\ c \in Nat /\ size \in Nat /\ c <= size
  BY <1>2 DEF Greater
<1> HIDE DEF items, at, size, c
<1>4. c * WordBytes <= size * WordBytes /\ c * WordBytes \in Nat /\ size * WordBytes \in Nat
  <2>1. c * WordBytes \in Nat /\ size * WordBytes \in Nat
    BY <1>3
  <2>2. CASE c = size
    BY <2>1, <2>2
  <2>3. CASE c < size
    <3>1. c * WordBytes + WordBytes <= size * WordBytes
      BY <1>3, <2>3, Multiples
    <3> QED
      BY <2>1, <3>1
  <2> QED
    BY <1>3, <2>1, <2>2, <2>3
<1>5. ASSUME NEW i \in Nat
      PROVE  WellPlaced(base, elementPlace(base, i)) /\ Upto(base, elementPlace(base, i)) \in Nat
  <2>1. WellPlaced(base, elementPlace(base, i))
    BY PackedElement, WideElement
  <2>2. base.size * base.bytes \in Nat
    BY DEF Items
  <2>3. From(elementPlace(base, i)) \in Nat
    <3> DEFINE p == elementPlace(base, i)
    <3> HIDE DEF p
    <3>1. p.slot \in Nat /\ p.off \in Nat
      BY <2>1 DEF WellPlaced, p
    <3>2. From(p) \in Nat
      BY <3>1, FromNat
    <3> QED
      BY <3>2 DEF p
  <2> QED
    BY <2>1, <2>2, <2>3 DEF Upto
<1>6. \A i \in DOMAIN items : WellPlaced(items[i], at[i])
  BY <1>1, <1>5
<1>7. \A i, j \in DOMAIN items : i < j => Upto(items[i], at[i]) <= From(at[j])
  <2> SUFFICES ASSUME NEW i \in 1 .. length, NEW j \in 1 .. length, i < j
               PROVE  Upto(base, elementPlace(base, i - 1)) <= From(elementPlace(base, j - 1))
    BY <1>1
  <2>1. i - 1 \in Nat /\ j - 1 \in Nat /\ i - 1 < j - 1
    OBVIOUS
  <2> QED
    BY <2>1, ElementsInOrder
<1>8. \A i \in DOMAIN items : Upto(items[i], at[i]) <= size * WordBytes
  <2> SUFFICES ASSUME NEW i \in 1 .. length
               PROVE  Upto(base, elementPlace(base, i - 1)) <= size * WordBytes
    BY <1>1
  <2>1. i - 1 \in 0 .. (length - 1) /\ i - 1 \in Nat
    OBVIOUS
  <2>2. Upto(base, elementPlace(base, i - 1)) <= c * WordBytes
    BY <1>2, <2>1
  <2>3. Upto(base, elementPlace(base, i - 1)) \in Nat
    BY <1>5, <2>1
  <2> QED
    BY <1>4, <2>2, <2>3
<1>9. LaidOut(items, at, size)
  BY <1>6, <1>7, <1>8 DEF LaidOut
<1> QED
  BY <1>9 DEF items, at, size

\* The members of a structure, or the elements of an array, that is a variable, a
\* member or an element itself are within its slots, wherever it is placed, and
\* share no byte there.
THEOREM NestedStaysInside ==
    ASSUME WordBytes \in Nat \ {0}, NEW items \in Seq(Items), NEW at, NEW size \in Nat,
           LaidOut(items, at, size), NEW slot \in Nat
    PROVE  /\ Whole(size) \in Items
           /\ \A i \in DOMAIN items :
                 /\ WellPlaced(items[i], Within(slot, at[i]))
                 /\ From(Place(slot, 0)) <= From(Within(slot, at[i]))
                 /\ Upto(items[i], Within(slot, at[i])) <= Upto(Whole(size), Place(slot, 0))
           /\ \A i, j \in DOMAIN items :
                 i < j => Upto(items[i], Within(slot, at[i])) <= From(Within(slot, at[j]))
<1> DEFINE W == WordBytes
<1>1. Whole(size) \in Items
  BY DEF Whole, Items, Greater
<1>2. ASSUME NEW i \in DOMAIN items
      PROVE  /\ WellPlaced(items[i], Within(slot, at[i]))
             /\ From(Within(slot, at[i])) = slot * W + From(at[i])
             /\ Upto(items[i], Within(slot, at[i])) = slot * W + Upto(items[i], at[i])
             /\ From(at[i]) \in Nat /\ Upto(items[i], at[i]) \in Nat
  <2> DEFINE p == at[i]
             q == Within(slot, p)
             it == items[i]
  <2>1. WellPlaced(it, p)
    BY DEF LaidOut
  <2>2. it.bytes \in Nat /\ it.size \in Nat
    BY DEF Items
  <2> HIDE DEF p, it
  <2>3. p.slot \in Nat /\ p.off \in 0 .. (WordBytes - 1) /\ p.off + it.bytes <= WordBytes
    BY <2>1 DEF WellPlaced
  <2>4. q.slot = slot + p.slot /\ q.off = p.off /\ q \in [slot : Nat, off : 0 .. (WordBytes - 1)]
    BY <2>3 DEF Within, Place
  <2> HIDE DEF q
  <2>5. WellPlaced(it, q)
    BY <2>3, <2>4 DEF WellPlaced
  <2>6. (slot + p.slot) * WordBytes = slot * WordBytes + p.slot * WordBytes
        /\ slot * WordBytes \in Nat /\ p.slot * WordBytes \in Nat
    BY <2>3, OneMore
  <2>7. From(q) = slot * WordBytes + From(p) /\ From(p) \in Nat
    <3>1. From(q) = (slot + p.slot) * WordBytes + p.off /\ From(p) = p.slot * WordBytes + p.off
      BY <2>4 DEF From
    <3>2. p.off \in Nat
      BY <2>3
    <3> QED
      BY <2>6, <3>1, <3>2
  <2>8. it.size * it.bytes \in Nat
    BY <2>2
  <2>9. Upto(it, q) = slot * WordBytes + Upto(it, p) /\ Upto(it, p) \in Nat
    BY <2>6, <2>7, <2>8 DEF Upto
  <2> QED
    BY <2>5, <2>7, <2>9 DEF p, q, it
<1>3. slot * W \in Nat /\ size * W \in Nat
  OBVIOUS
<1>4. From(Place(slot, 0)) = slot * W
  BY <1>3 DEF From, Place
<1>5. Upto(Whole(size), Place(slot, 0)) = slot * W + Greater(1, size) * W
  BY <1>4 DEF Upto, Whole
<1>6. Greater(1, size) * W >= size * W /\ Greater(1, size) * W \in Nat
  <2>1. CASE size >= 1
    BY <1>3, <2>1 DEF Greater
  <2>2. CASE size = 0
    BY <2>2 DEF Greater
  <2> QED
    BY <2>1, <2>2
<1>7. ASSUME NEW i \in DOMAIN items
      PROVE  /\ From(Place(slot, 0)) <= From(Within(slot, at[i]))
             /\ Upto(items[i], Within(slot, at[i])) <= Upto(Whole(size), Place(slot, 0))
  <2>1. Upto(items[i], at[i]) <= size * W
    BY DEF LaidOut
  <2> QED
    BY <1>2, <1>3, <1>4, <1>5, <1>6, <2>1
<1>8. ASSUME NEW i \in DOMAIN items, NEW j \in DOMAIN items, i < j
      PROVE  Upto(items[i], Within(slot, at[i])) <= From(Within(slot, at[j]))
  <2>1. Upto(items[i], at[i]) <= From(at[j])
    BY <1>8 DEF LaidOut
  <2> QED
    BY <1>2, <1>3, <2>1
<1> QED
  BY <1>1, <1>2, <1>7, <1>8
=============================================================================
