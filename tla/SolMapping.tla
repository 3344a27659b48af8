------------------------------ MODULE SolMapping ------------------------------
(***************************************************************************)
(* What a Solidity mapping promises: every key has a value, zero at first; *)
(* a read returns the last value written; calls do not overlap.            *)
(***************************************************************************)
CONSTANTS Key, Value, Zero

VARIABLES map, call, reply

vars == <<map, call, reply>>

Idle == [op |-> "none"]

Calls == [op : {"read"}, key : Key] \cup [op : {"write"}, key : Key, dat : Value]

Init ==
    /\ map = [k \in Key |-> Zero]
    /\ call = Idle
    /\ reply = Zero

Begin ==
    /\ call = Idle
    /\ call' \in Calls
    /\ UNCHANGED <<map, reply>>

Read ==
    /\ call.op = "read"
    /\ reply' = map[call.key]
    /\ call' = Idle
    /\ UNCHANGED map

Write ==
    /\ call.op = "write"
    /\ map' = [map EXCEPT ![call.key] = call.dat]
    /\ call' = Idle
    /\ UNCHANGED reply

Next == Begin \/ Read \/ Write

Spec == Init /\ [][Next]_vars
=============================================================================
