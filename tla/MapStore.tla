------------------------------- MODULE MapStore -------------------------------
(***************************************************************************)
(* The structure and the accessors that MapGenerator emits for a mapping:  *)
(* one field per tuple of addresses, an optional sum of all fields, a      *)
(* reader and a writer that test the keys and then find the field with a   *)
(* tree of comparisons.                                                    *)
(***************************************************************************)
EXTENDS Integers, Functions

CONSTANTS
    M_LEN,        \* addresses of the model (PTGBuilder::count)
    Depth,        \* keys of the mapping
    Keys,         \* addresses that a body can compute
    Modulus,      \* 2^w for values of w bits
    M_KEEP_SUM    \* --map-sum

ASSUME MapAssumption ==
    /\ M_LEN \in Nat \ {0}
    /\ Depth \in Nat \ {0}
    /\ Keys \subseteq Nat
    /\ Modulus \in Nat \ {0}
    /\ M_KEEP_SUM \in BOOLEAN

Key == [1 .. Depth -> Keys]

Entry == [1 .. Depth -> 0 .. (M_LEN - 1)]

Value == 0 .. (Modulus - 1)

Idle == [op |-> "none"]

Calls == [op : {"read"}, key : Key] \cup [op : {"write"}, key : Key, dat : Value]

VARIABLES
    data,    \* the fields data_i_j_...
    sum,
    call,    \* the accessor that runs, with its arguments
    reply,   \* the result of the last reader
    pc

vars == <<data, sum, call, reply, pc>>

\* A structure on the stack, before its initializer runs.
Init ==
    /\ data \in {[e \in Entry |-> v] : v \in Value}
    /\ sum \in Value
    /\ call = Idle
    /\ reply = 0
    /\ pc = "init"

\* declare_zero_initializer.
ZeroInit ==
    /\ pc = "init"
    /\ data' = [e \in Entry |-> 0]
    /\ sum' = IF M_KEEP_SUM THEN 0 ELSE sum
    /\ pc' = "idle"
    /\ UNCHANGED <<call, reply>>

Begin ==
    /\ pc = "idle"
    /\ call' \in Calls
    /\ pc' = "test"
    /\ UNCHANGED <<data, sum, reply>>

\* The assertions at the start of an accessor: "mapping key out of bounds".
TestKeys ==
    /\ pc = "test"
    /\ pc' = IF \A i \in 1 .. Depth : M_LEN >= call.key[i] THEN "access" ELSE "failed"
    /\ UNCHANGED <<data, sum, call, reply>>

\* Mutant: the keys are compared in the wrong order.
Read_swapped ==
    /\ pc = "access"
    /\ call.op = "read"
    /\ LET k == [i \in 1 .. Depth |-> call.key[Depth + 1 - i]]
       IN  reply' = IF k \in Entry THEN data[k] ELSE 0
    /\ call' = Idle
    /\ pc' = "idle"
    /\ UNCHANGED <<data, sum>>

\* A reader finds the field, or falls through to the zero value.
Read ==
    /\ pc = "access"
    /\ call.op = "read"
    /\ reply' = IF call.key \in Entry THEN data[call.key] ELSE 0
    /\ call' = Idle
    /\ pc' = "idle"
    /\ UNCHANGED <<data, sum>>

\* Mutant: the field is replaced without being taken from the sum.
Write_keepold ==
    /\ pc = "access"
    /\ call.op = "write"
    /\ data' = [e \in Entry |-> IF e = call.key THEN call.dat ELSE data[e]]
    /\ sum' = sum
    /\ pc' = "add"
    /\ UNCHANGED <<call, reply>>

\* A writer that finds the field takes its old value from the sum.
Write ==
    /\ pc = "access"
    /\ call.op = "write"
    /\ sum' = IF M_KEEP_SUM /\ call.key \in Entry
              THEN (sum + Modulus - data[call.key]) % Modulus
              ELSE sum
    /\ data' = [e \in Entry |-> IF e = call.key THEN call.dat ELSE data[e]]
    /\ pc' = "add"
    /\ UNCHANGED <<call, reply>>

\* Mutant: the sum has no width.
AddToSum_wide ==
    /\ pc = "add"
    /\ sum' = IF M_KEEP_SUM THEN sum + call.dat ELSE sum
    /\ call' = Idle
    /\ pc' = "idle"
    /\ UNCHANGED <<data, reply>>

\* The writer then adds the new value, whether or not there was a field.
AddToSum ==
    /\ pc = "add"
    /\ sum' = IF M_KEEP_SUM THEN (sum + call.dat) % Modulus ELSE sum
    /\ call' = Idle
    /\ pc' = "idle"
    /\ UNCHANGED <<data, reply>>

\* apply_interference assigns the fields of representatives directly.
Interfere ==
    /\ pc = "idle"
    /\ data' \in [Entry -> Value]
    /\ UNCHANGED <<sum, call, reply, pc>>

Failed == pc = "failed" /\ UNCHANGED vars

Next == ZeroInit \/ Begin \/ TestKeys \/ Read \/ Write \/ AddToSum \/ Failed

Spec == Init /\ [][Next]_vars

\* The same structure in a model with an interference invariant.
InterferedSpec == Init /\ [][Next \/ Interfere]_vars
-----------------------------------------------------------------------------
(***************************************************************************)
(* Properties.                                                             *)
(***************************************************************************)

\* Values and sum stay within the width of the value type.
TypeOK ==
    /\ pc \in {"init", "idle", "test", "access", "add", "failed"}
    /\ data \in [Entry -> Value]
    /\ sum \in Value
    /\ reply \in Value
    /\ call \in Calls \cup {Idle}

\* Between accesses, the sum is the sum of all the fields in the arithmetic of
\* the value type, also after fields were overwritten and the sum has wrapped.
SumExact ==
    (M_KEEP_SUM /\ pc = "idle") =>
        sum = FoldFunctionOnSet(+, 0, data, Entry) % Modulus

\* The accessors implement a Solidity mapping: a call takes effect when the
\* field is read or assigned, before the sum is brought up to date, and a call
\* whose key has no field never returns.
Mapping == INSTANCE SolMapping WITH
    Zero <- 0,
    map <- [k \in Key |-> IF pc = "init" \/ k \notin Entry THEN 0 ELSE data[k]],
    call <- IF pc = "add" THEN Idle ELSE call

ImplementsMapping == Mapping!Spec
=============================================================================
