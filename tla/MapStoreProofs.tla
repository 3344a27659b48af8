---------------------------- MODULE MapStoreProofs ----------------------------
(***************************************************************************)
(* The accessors of a mapping implement a Solidity mapping, for every      *)
(* number of addresses, of keys and every width of the values.             *)
(***************************************************************************)
EXTENDS MapStore, ArithmeticLemmas, TLAPS

\* Where the call is while an accessor runs.
CallInv ==
    /\ pc \in {"init", "idle"} => call = Idle
    /\ pc \in {"test", "access", "failed"} => call \in Calls
    /\ pc = "add" => call \in Calls /\ call.op = "write"

MapInv == TypeOK /\ CallInv

\* Zero and every reduced number are values.
LEMMA ValueFacts == 0 \in Value /\ \A x \in Int : x % Modulus \in Value
  BY MapAssumption DEF Value

\* The invariant holds before the mapping is initialised.
LEMMA MapInit == Init => MapInv
  BY ValueFacts DEF Init, MapInv, TypeOK, CallInv

\* Every step keeps the invariant.
LEMMA MapNext == MapInv /\ [Next]_vars => MapInv'
<1> SUFFICES ASSUME MapInv, [Next]_vars PROVE MapInv'
  OBVIOUS
<1> USE DEF MapInv, TypeOK, CallInv
<1>1. CASE ZeroInit
  BY <1>1, ValueFacts DEF ZeroInit
<1>2. CASE Begin
  BY <1>2 DEF Begin
<1>3. CASE TestKeys
  BY <1>3 DEF TestKeys
<1>4. CASE Read
  <2>1. reply' \in Value
    BY <1>4, ValueFacts DEF Read
  <2> QED
    BY <1>4, <2>1 DEF Read
<1>5. CASE Write
  <2>1. call \in Calls /\ call.op = "write"
    BY <1>5 DEF Write
  <2>2. call.dat \in Value
    BY <2>1 DEF Calls
  <2>3. data' \in [Entry -> Value]
    BY <1>5, <2>2 DEF Write
  <2>4. sum' \in Value
    <3>1. CASE M_KEEP_SUM /\ call.key \in Entry
      <4>1. sum + Modulus - data[call.key] \in Int
        BY <3>1, MapAssumption DEF Value
      <4>2. sum' = (sum + Modulus - data[call.key]) % Modulus
        BY <1>5, <3>1 DEF Write
      <4> QED
        BY <4>1, <4>2, ValueFacts
    <3> QED
      BY <1>5, <3>1 DEF Write
  <2> QED
    BY <1>5, <2>1, <2>3, <2>4 DEF Write
<1>6. CASE AddToSum
  <2>1. call.dat \in Value
    BY <1>6 DEF AddToSum, Calls
  <2>2. sum + call.dat \in Int
    BY <2>1, MapAssumption DEF Value
  <2>3. sum' \in Value
    BY <1>6, <2>2, ValueFacts DEF AddToSum
  <2> QED
    BY <1>6, <2>3 DEF AddToSum
<1>7. CASE UNCHANGED vars
  BY <1>7 DEF vars
<1> QED
  BY <1>1, <1>2, <1>3, <1>4, <1>5, <1>6, <1>7 DEF Next, Failed

\* Fields, sum and results stay within the width of the value type.
THEOREM MapTypeCorrect == Spec => []TypeOK
<1>1. MapInv => TypeOK
  BY DEF MapInv
<1> QED
  BY <1>1, MapInit, MapNext, PTL DEF Spec

\* A test of the keys lets a call through only if no key is larger than M_LEN,
\* so that a key without a field is M_LEN itself.
KeysTested == pc \in {"access", "add"} => \A i \in 1 .. Depth : M_LEN >= call.key[i]

\* Every step keeps that a call at its field has passed the assertion.
LEMMA KeysTestedNext == KeysTested /\ [Next]_vars => KeysTested'
<1> SUFFICES ASSUME KeysTested, [Next]_vars PROVE KeysTested'
  OBVIOUS
<1> QED
  BY DEF KeysTested, Next, ZeroInit, Begin, TestKeys, Read, Write, AddToSum, Failed, vars

\* A key that has passed the assertion has a field.
LEMMA TestedHaveFields ==
    ASSUME M_LEN \notin Keys, MapInv, KeysTested, pc = "access"
    PROVE  call.key \in Key /\ call.key \in Entry
<1>1. call.key \in [1 .. Depth -> Keys]
  BY DEF MapInv, CallInv, Calls, Key
<1>2. ASSUME NEW i \in 1 .. Depth PROVE call.key[i] \in 0 .. (M_LEN - 1)
  <2>1. call.key[i] \in Keys /\ M_LEN >= call.key[i]
    BY <1>1 DEF KeysTested
  <2>2. call.key[i] \in Nat /\ M_LEN \in Nat /\ call.key[i] /= M_LEN
    BY <2>1, MapAssumption
  <2>3. ASSUME NEW x \in Nat, M_LEN \in Nat, M_LEN >= x, x /= M_LEN
        PROVE  x \in 0 .. (M_LEN - 1)
    BY <2>3
  <2> QED
    BY <2>1, <2>2, <2>3
<1> QED
  BY <1>1, <1>2 DEF Key, Entry

\* If bodies never compute the address M_LEN, which the test of the keys lets
\* through although it has no field, then the accessors implement the mapping of
\* the Solidity program, whatever other addresses bodies compute.
THEOREM Implementation == M_LEN \notin Keys => (Spec => ImplementsMapping)
<1> SUFFICES ASSUME M_LEN \notin Keys PROVE Spec => ImplementsMapping
  OBVIOUS
<1> DEFINE map == [k \in Key |-> IF pc = "init" \/ k \notin Entry THEN 0 ELSE data[k]]
<1>1. Init => Mapping!Init /\ KeysTested
  BY DEF Init, Mapping!Init, Idle, Mapping!Idle, KeysTested
<1>2. MapInv /\ KeysTested /\ [Next]_vars => [Mapping!Next]_(Mapping!vars)
  <2> SUFFICES ASSUME MapInv, KeysTested, [Next]_vars
               PROVE  [Mapping!Next]_(Mapping!vars)
    OBVIOUS
  <2> USE DEF Mapping!vars, Mapping!Idle, Idle
  <2>1. CASE ZeroInit
    <3>1. map' = map
      BY <2>1 DEF ZeroInit
    <3> QED
      BY <2>1, <3>1 DEF ZeroInit
  <2>2. CASE Begin
    <3>1. map' = map
      BY <2>2 DEF Begin
    <3>2. Mapping!Begin
      BY <2>2, <3>1 DEF Begin, MapInv, CallInv, Mapping!Begin, Calls, Mapping!Calls
    <3> QED
      BY <3>2 DEF Mapping!Next
  <2>3. CASE TestKeys
    <3>1. map' = map
      BY <2>3 DEF TestKeys
    <3> QED
      BY <2>3, <3>1 DEF TestKeys
  <2>4. CASE Read
    <3>1. call.key \in Key /\ call.key \in Entry
      BY <2>4, TestedHaveFields DEF Read
    <3>2. map' = map
      BY <2>4 DEF Read
    <3>3. reply' = map[call.key]
      BY <2>4, <3>1 DEF Read
    <3>4. Mapping!Read
      BY <2>4, <3>2, <3>3 DEF Read, Mapping!Read
    <3> QED
      BY <3>4 DEF Mapping!Next
  <2>5. CASE Write
    <3>1. call.key \in Key /\ call.key \in Entry
      BY <2>5, TestedHaveFields DEF Write
    <3>2. map' = [map EXCEPT ![call.key] = call.dat]
      BY <2>5, <3>1 DEF Write
    <3>3. Mapping!Write
      BY <2>5, <3>2 DEF Write, Mapping!Write
    <3> QED
      BY <3>3 DEF Mapping!Next
  <2>6. CASE AddToSum
    <3>1. map' = map
      BY <2>6 DEF AddToSum
    <3> QED
      BY <2>6, <3>1 DEF AddToSum
  <2>7. CASE UNCHANGED vars
    <3>1. map' = map
      BY <2>7 DEF vars
    <3> QED
      BY <2>7, <3>1 DEF vars
  <2> QED
    BY <2>1, <2>2, <2>3, <2>4, <2>5, <2>6, <2>7 DEF Next, Failed
<1> QED
  BY <1>1, <1>2, KeysTestedNext, MapInit, MapNext, PTL
     DEF Spec, ImplementsMapping, Mapping!Spec
-----------------------------------------------------------------------------
(***************************************************************************)
(* The running sum.                                                        *)
(***************************************************************************)

\* While a writer is between its two updates, the sum lacks the new value.
SumInv ==
    M_KEEP_SUM =>
        /\ pc \in {"idle", "test", "access"} => sum = SumOn(data, Entry) % Modulus
        /\ pc = "add" => (sum + call.dat) % Modulus = SumOn(data, Entry) % Modulus

\* A mapping has finitely many fields.
LEMMA EntryFinite == IsFiniteSet(Entry)
<1>1. IsFiniteSet(1 .. Depth) /\ IsFiniteSet(0 .. (M_LEN - 1))
  BY MapAssumption, FS_Interval
<1> QED
  BY <1>1, FiniteFunctions DEF Entry

\* Taking the old value out and adding the new one later is replacing it.
LEMMA Replaced ==
    ASSUME NEW t \in Int, NEW old \in Value, NEW new \in Value
    PROVE  ((((t % Modulus) + Modulus - old) % Modulus) + new) % Modulus
              = (t - old + new) % Modulus
<1>1. Modulus \in Nat \ {0} /\ old \in Int /\ new \in Int
  BY MapAssumption DEF Value
<1> DEFINE r == t % Modulus
<1>2. r \in Int
  BY <1>1, DivMod
<1>3. (((r + Modulus - old) % Modulus) + new) % Modulus = (r + Modulus - old + new) % Modulus
  <2>1. r + Modulus - old \in Int
    BY <1>1, <1>2
  <2> QED
    BY <1>1, <2>1, ModAdd
<1>4. (r + (Modulus - old + new)) % Modulus = (t + (Modulus - old + new)) % Modulus
  <2>1. Modulus - old + new \in Int
    BY <1>1
  <2> QED
    BY <1>1, <2>1, ModAdd
<1>5. (t - old + new + Modulus) % Modulus = (t - old + new) % Modulus
  <2>1. t - old + new \in Int
    BY <1>1
  <2> QED
    BY <1>1, <2>1, ModPlus
<1>6. /\ r + Modulus - old + new = r + (Modulus - old + new)
      /\ t + (Modulus - old + new) = t - old + new + Modulus
  BY <1>1, <1>2
<1> QED
  BY <1>3, <1>4, <1>5, <1>6

\* Every step keeps the sum, up to the write that is under way.
LEMMA SumInvNext ==
    ASSUME M_LEN \notin Keys, MapInv, KeysTested, SumInv, [Next]_vars
    PROVE  SumInv'
<1> SUFFICES ASSUME M_KEEP_SUM PROVE SumInv'
  BY DEF SumInv
<1>1. CASE ZeroInit
  <2>1. SumOn(data', Entry) = 0
    BY <1>1, EntryFinite, SumZero DEF ZeroInit
  <2>2. 0 % Modulus = 0
    BY MapAssumption
  <2> QED
    BY <1>1, <2>1, <2>2 DEF ZeroInit, SumInv
<1>2. CASE Begin
  BY <1>2 DEF Begin, SumInv
<1>3. CASE TestKeys
  BY <1>3 DEF TestKeys, SumInv
<1>4. CASE Read
  BY <1>4 DEF Read, SumInv
<1>5. CASE Write
  <2>1. call.key \in Entry
    BY <1>5, TestedHaveFields DEF Write
  <2>2. call.dat \in Value
    BY <1>5 DEF Write, MapInv, CallInv, Calls
  <2>3. data' = [data EXCEPT ![call.key] = call.dat] /\ data \in [Entry -> Value]
    BY <1>5 DEF Write, MapInv, TypeOK
  <2>4. \A e \in Entry : data[e] \in Int /\ data'[e] \in Int
    BY <2>2, <2>3 DEF Value
  <2>5. SumOn(data', Entry) = SumOn(data, Entry) - data[call.key] + call.dat
    <3>1. \A e \in Entry : e /= call.key => data[e] = data'[e]
      BY <2>3
    <3>2. data'[call.key] = call.dat
      BY <2>1, <2>3
    <3>3. SumOn(data', Entry) = SumOn(data, Entry) - data[call.key] + data'[call.key]
      <4>1. ASSUME NEW f, NEW g, NEW a \in Entry,
                   \A e \in Entry : f[e] \in Int /\ g[e] \in Int,
                   \A e \in Entry : e /= a => f[e] = g[e]
            PROVE  SumOn(g, Entry) = SumOn(f, Entry) - f[a] + g[a]
        BY <4>1, EntryFinite, SumChange
      <4> QED
        BY <2>1, <2>4, <3>1, <4>1
    <3> QED
      BY <3>2, <3>3
  <2>6. SumOn(data, Entry) \in Int
    BY <2>4, EntryFinite, SumType
  <2>7. sum' = ((SumOn(data, Entry) % Modulus) + Modulus - data[call.key]) % Modulus
    BY <1>5, <2>1 DEF Write, SumInv
  <2>8. (sum' + call.dat) % Modulus = SumOn(data', Entry) % Modulus
    BY <2>1, <2>2, <2>3, <2>5, <2>6, <2>7, Replaced
  <2> QED
    BY <1>5, <2>8 DEF Write, SumInv
<1>6. CASE AddToSum
  BY <1>6 DEF AddToSum, SumInv
<1>7. CASE UNCHANGED vars
  BY <1>7 DEF vars, SumInv
<1> QED
  BY <1>1, <1>2, <1>3, <1>4, <1>5, <1>6, <1>7 DEF Next, Failed

\* If bodies never compute the address M_LEN, then between accesses the sum that
\* the writer keeps is the sum of the fields in the arithmetic of the value type,
\* for every number of fields and every sequence of writes.
THEOREM SumIsExact == M_LEN \notin Keys => (Spec => []SumExact)
<1> SUFFICES ASSUME M_LEN \notin Keys PROVE Spec => []SumExact
  OBVIOUS
<1>1. Init => KeysTested /\ SumInv
  BY DEF Init, KeysTested, SumInv
<1>2. SumInv => SumExact
  BY DEF SumInv, SumExact, SumOn
<1> QED
  BY <1>1, <1>2, SumInvNext, KeysTestedNext, MapInit, MapNext, PTL DEF Spec
=============================================================================
