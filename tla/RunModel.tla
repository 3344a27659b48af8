------------------------------- MODULE RunModel -------------------------------
(***************************************************************************)
(* The function run_model() that SmartACE emits for a bundle of contracts: *)
(* clock, literal addresses, contract addresses, constructors, and then    *)
(* the transaction loop with the interference of the clients that are not  *)
(* in the neighbourhood.  The statements are the ones the generators under *)
(* scheduler/ print; the bodies of the user's functions are abstracted to  *)
(* what a body can do with addresses and with one address-keyed mapping.   *)
(***************************************************************************)
EXTENDS AddressDomain, Sequences, FiniteSets

CONSTANTS
    RootCt,       \* top-level contracts of the bundle, constructed by run_model
    RoleVarCt,    \* address variables over all contract instances
    CtorArgs,     \* address parameters of the constructors
    Depth,        \* keys of the mapping
    Values,       \* values of the mapping
    Zero,         \* the zero value of the mapping
    InvValues,    \* values that satisfy the compositional invariant
    Type,         \* --invar-type
    Lockstep,     \* --lockstep-time
    CanInfer,     \* sol_can_infer(), fixed when the model is compiled
    UsesCrypto,   \* some body assigns the result of ecrecover to an address
    MaxTime       \* largest block number and timestamp

ASSUME RunAssumption ==
    /\ RootCt \in 1 .. ContractCt
    /\ RoleVarCt \in Nat
    /\ CtorArgs \in Nat
    /\ Depth \in Nat \ {0}
    /\ Zero \in Values
    /\ InvValues \subseteq Values
    /\ Type \in {"universal", "singleton", "rolebased"}
    /\ Lockstep \in BOOLEAN
    /\ CanInfer \in BOOLEAN
    /\ UsesCrypto \in BOOLEAN
    /\ MaxTime \in Nat

Literals == 1 .. NumLit

Roles == 1 .. RoleVarCt

Keys == [1 .. Depth -> Addr]

Time == 0 .. MaxTime

Byte == 0 .. 255

\* sol_crypto() returns a byte.  Bytes beyond the address space are alike, so
\* that 255 stands for them, except the first one, which passes the assertion
\* of the mapping accessors.
sol_crypto == {b \in Byte : b <= count} \cup {255}

NoSender == -1

VARIABLES
    pc,         \* statement of run_model about to be executed
    status,     \* "run", or how the execution ended
    lits,       \* literals assigned so far by map_constants
    lit,        \* global_address_literal_*
    inits,      \* constructors of top-level contracts run so far
    role,       \* the address variables of all contracts
    data,       \* the entries of the mapping
    sender,     \* msg.sender of the transaction being executed
    args,       \* its address arguments
    blocknum,
    timestamp

clock == <<blocknum, timestamp>>
locals == <<sender, args>>
vars == <<pc, status, lits, lit, inits, role, data, sender, args,
          blocknum, timestamp>>

-----------------------------------------------------------------------------
\* Every step but the last one is taken by an execution that still runs.
At(l) == status = "run" /\ pc = l

\* sol_require or an assumption of the backend fails: the path is dropped.
Prune == status' = "pruned" /\ UNCHANGED <<pc, lits, lit, inits, role, data,
                                           locals, clock>>

\* sol_assert fails: the path is reported.
Fail == status' = "failed" /\ UNCHANGED <<pc, lits, lit, inits, role, data,
                                          locals, clock>>

\* StateGenerator::declare, with the role variables and the mapping still
\* uninitialised; 255 stands for any value outside of the address space.
Init ==
    /\ pc = "literals"
    /\ status = "run"
    /\ lits = 0
    /\ lit = [l \in Literals |-> 0]
    /\ inits = 0
    /\ role \in [Roles -> {0, 255}]
    /\ data \in {[k \in Keys |-> v] : v \in Values}
    /\ sender = NoSender
    /\ args = <<>>
    /\ blocknum \in IF Lockstep THEN Time ELSE {0}
    /\ timestamp \in IF Lockstep THEN Time ELSE {0}

\* Mutant: a literal may reuse an address.
MapConstant_reuse ==
    /\ At("literals")
    /\ lits < NumLit
    /\ \E a \in NdRange(1, implicit_count) :
          /\ lits' = lits + 1
          /\ lit' = [lit EXCEPT ![lits + 1] = a]
          /\ UNCHANGED <<pc, status, inits, role, data, locals, clock>>

\* AddressSpace::map_constants, one literal.  The zero literal needs no step.
MapConstant ==
    /\ At("literals")
    /\ lits < NumLit
    /\ \E a \in NdRange(1, implicit_count) :
          IF \E l \in 1 .. lits : lit[l] = a
          THEN Prune
          ELSE /\ lits' = lits + 1
               /\ lit' = [lit EXCEPT ![lits + 1] = a]
               /\ UNCHANGED <<pc, status, inits, role, data, locals, clock>>

\* Mutant: the address variables are left uninitialised.
AssignAddresses_garbage ==
    /\ At("literals")
    /\ lits = NumLit
    /\ pc' = "init_time"
    /\ UNCHANGED <<status, lits, lit, inits, role, data, locals, clock>>

\* ActorModel::assign_addresses: contracts get their constant addresses, and
\* all address variables start from zero.
AssignAddresses ==
    /\ At("literals")
    /\ lits = NumLit
    /\ role' = [r \in Roles |-> 0]
    /\ pc' = "init_time"
    /\ UNCHANGED <<status, lits, lit, inits, data, locals, clock>>

-----------------------------------------------------------------------------
(***************************************************************************)
(* The clock: StateGenerator::update_global.                               *)
(***************************************************************************)

\* nd_increase of t; an empty set means that the backend drops the path.
Increase(t) == IF Lockstep THEN (t + 1) .. MaxTime ELSE t .. MaxTime

\* Mutant: the choice of taking a step is made for each field.
UpdateGlobal_split(next) ==
    /\ blocknum' \in Increase(blocknum) \cup {blocknum}
    /\ timestamp' \in Increase(timestamp) \cup {timestamp}
    /\ pc' = next
    /\ UNCHANGED <<status, lits, lit, inits, role, data, locals>>

UpdateGlobal(next) ==
    \/ /\ \E b \in Increase(blocknum), t \in Increase(timestamp) :
             blocknum' = b /\ timestamp' = t
       /\ pc' = next
       /\ UNCHANGED <<status, lits, lit, inits, role, data, locals>>
    \/ /\ Lockstep                       \* take_step = 0
       /\ pc' = next
       /\ UNCHANGED <<status, lits, lit, inits, role, data, locals, clock>>
    \/ /\ Increase(blocknum) = {} \/ Increase(timestamp) = {}
       /\ Prune

InitTime == At("init_time") /\ UpdateGlobal("init_call")

StepTime == At("time") /\ UpdateGlobal("call")

-----------------------------------------------------------------------------
(***************************************************************************)
(* Calls: constructors and transactions.                                   *)
(***************************************************************************)

\* StateGenerator::update_local and the arguments of the call.
ChooseLocals(n) ==
    /\ sender' \in Senders
    /\ args' \in [1 .. n -> RawAddress]

\* ActorModel::initialize, one top-level contract.  Its initializer zeroes the
\* mapping (which belongs to the first top-level contract) and calls the
\* constructor.
BeginConstructor ==
    /\ At("init_call")
    /\ IF Senders = {}
       THEN Prune
       ELSE /\ ChooseLocals(CtorArgs)
            /\ data' = IF inits = 0 THEN [k \in Keys |-> Zero] ELSE data
            /\ pc' = "body"
            /\ UNCHANGED <<status, lits, lit, inits, role, clock>>

\* One case of the switch over next_call (MainFunctionGenerator::build_case).
BeginTransaction ==
    /\ At("call")
    /\ IF Senders = {}
       THEN Prune
       ELSE /\ ChooseLocals(MethodArgs)
            /\ pc' = "body"
            /\ UNCHANGED <<status, lits, lit, inits, role, data, clock>>

\* The addresses a body can name.  LiteralExtractor and RoleExtractor reject
\* programs that compute addresses in any other way, except ecrecover.
InScope ==
    {0, sender} \cup Contracts
        \cup {lit[l] : l \in Literals}
        \cup {role[r] : r \in Roles}
        \cup {args[i] : i \in DOMAIN args}

AssignRole ==
    /\ At("body")
    /\ \E r \in Roles, a \in InScope \cup (IF UsesCrypto THEN sol_crypto ELSE {}) :
          role' = [role EXCEPT ![r] = a]
    /\ UNCHANGED <<pc, status, lits, lit, inits, data, locals, clock>>

\* Write_Map: the chain of comparisons finds the entry, if there is one.
WriteMap ==
    /\ At("body")
    /\ \E k \in [1 .. Depth -> InScope], v \in Values :
          IF \A i \in 1 .. Depth : count >= k[i]
          THEN /\ data' = [e \in Keys |-> IF e = k THEN v ELSE data[e]]
               /\ UNCHANGED <<pc, status, lits, lit, inits, role, locals, clock>>
          ELSE Fail

\* require(...) or assert(...) of the user's program fails.
RequireFails == At("body") /\ Prune

AssertFails == At("body") /\ Fail

\* Mutant: every call counts as a constructor.
Return_count ==
    /\ At("body")
    /\ sender' = NoSender
    /\ args' = <<>>
    /\ inits' = inits + 1
    /\ pc' = IF inits + 1 < RootCt THEN "init_time" ELSE "loop"
    /\ UNCHANGED <<status, lits, lit, role, data, clock>>

\* The call returns: to the next constructor, or to the transaction loop.
Return ==
    /\ At("body")
    /\ sender' = NoSender
    /\ args' = <<>>
    /\ inits' = IF inits < RootCt THEN inits + 1 ELSE inits
    /\ pc' = IF inits + 1 < RootCt THEN "init_time" ELSE "loop"
    /\ UNCHANGED <<status, lits, lit, role, data, clock>>

-----------------------------------------------------------------------------
(***************************************************************************)
(* The transaction loop and its interference (CompInvarGenerator).         *)
(***************************************************************************)

\* sol_continue().
Continue ==
    /\ At("loop")
    /\ pc' = "check"
    /\ UNCHANGED <<status, lits, lit, inits, role, data, locals, clock>>

ExitLoop ==
    /\ At("loop")
    /\ status' = "done"
    /\ UNCHANGED <<pc, lits, lit, inits, role, data, locals, clock>>

\* Mutant: only contracts are implicit users.
Expanded_contracts(k) ==
    \E i \in 1 .. Depth :
        k[i] >= (IF Type = "universal" THEN 0 ELSE ContractCt + 1)

\* expand_map visits the entries that KeyIterator reports as full.
Expanded(k) ==
    \E i \in 1 .. Depth :
        k[i] >= (IF Type = "universal" THEN 0 ELSE implicit_count)

\* Mutant: the entry of a representative is abstract whatever role it holds.
Guard_norole(k) ==
    Type = "rolebased" => \E i \in 1 .. Depth : k[i] >= implicit_count

\* The role guard: some index is a representative that no role holds.
Guard(k) ==
    Type = "rolebased" =>
        \E i \in 1 .. Depth :
            /\ k[i] >= implicit_count
            /\ \A r \in Roles : role[r] /= k[i]

Abstract(k) == Expanded(k) /\ Guard(k)

\* check_interference: one entry, or none, is selected and asserted.
CheckInterference ==
    /\ At("check")
    /\ \/ /\ pc' = "apply"
          /\ UNCHANGED <<status, lits, lit, inits, role, data, locals, clock>>
       \/ /\ CanInfer
          /\ Rule = "checked"
          /\ \E k \in Keys :
                /\ Expanded(k)
                /\ IF Guard(k)
                   THEN data[k] \notin InvValues /\ Fail
                   ELSE Prune

\* Mutant: the invariant is assumed before the entries are chosen.
ApplyInterference_early ==
    /\ At("apply")
    /\ IF CanInfer
       THEN \E d \in [Keys -> Values] :
              /\ \A k \in Keys : ~ Abstract(k) => d[k] = data[k]
              /\ IF Rule = "none" \/ \A k \in Keys : Abstract(k) => data[k] \in InvValues
                 THEN /\ data' = d
                      /\ pc' = "time"
                      /\ UNCHANGED <<status, lits, lit, inits, role, locals, clock>>
                 ELSE Prune
       ELSE /\ pc' = "time"
            /\ UNCHANGED <<status, lits, lit, inits, role, data, locals, clock>>

\* apply_interference: abstract entries take new values, which are assumed to
\* satisfy the invariant when there is one.
ApplyInterference ==
    /\ At("apply")
    /\ IF CanInfer
       THEN \E d \in [Keys -> Values] :
              /\ \A k \in Keys : ~ Abstract(k) => d[k] = data[k]
              /\ IF Rule = "none" \/ \A k \in Keys : Abstract(k) => d[k] \in InvValues
                 THEN /\ data' = d
                      /\ pc' = "time"
                      /\ UNCHANGED <<status, lits, lit, inits, role, locals, clock>>
                 ELSE Prune
       ELSE /\ pc' = "time"
            /\ UNCHANGED <<status, lits, lit, inits, role, data, locals, clock>>

\* The execution has ended.
Ended == status /= "run" /\ UNCHANGED vars

Next ==
    \/ MapConstant \/ AssignAddresses
    \/ InitTime \/ BeginConstructor
    \/ AssignRole \/ WriteMap \/ RequireFails \/ AssertFails \/ Return
    \/ Continue \/ ExitLoop
    \/ CheckInterference \/ ApplyInterference
    \/ StepTime \/ BeginTransaction
    \/ Ended

Spec == Init /\ [][Next]_vars
-----------------------------------------------------------------------------
(***************************************************************************)
(* Properties.                                                             *)
(***************************************************************************)

Labels == {"literals", "init_time", "init_call", "body", "loop", "check",
           "apply", "time", "call"}

\* Every variable of run_model has a value of its C type.
TypeOK ==
    /\ pc \in Labels
    /\ status \in {"run", "pruned", "failed", "done"}
    /\ lits \in 0 .. NumLit
    /\ lit \in [Literals -> Implicit]
    /\ inits \in 0 .. RootCt
    /\ role \in [Roles -> Byte]
    /\ data \in [Keys -> Values]
    /\ sender \in Senders \cup {NoSender}
    /\ args \in Seq(RawAddress)
    /\ blocknum \in Time
    /\ timestamp \in Time

\* While a constructor or a method runs, every address its body can name is
\* the address of somebody who may take part in a transaction: below
\* max_sender, hence below the length of every mapping.  So the assertion in
\* the accessors of a mapping ("mapping key out of bounds") cannot fail, no
\* write is lost, and the extra client of a checked model stays out of reach.
AddressesInBounds == At("body") => InScope \subseteq 0 .. (max_sender - 1)

\* After map_constants, distinct address literals of the program are distinct
\* addresses, none of them the zero address or a representative client.
LiteralsDistinct ==
    pc /= "literals" =>
        /\ \A l, m \in Literals : lit[l] = lit[m] => l = m
        /\ \A l \in Literals : lit[l] \in Implicit \ {0}

\* The addresses that persist from one transaction to the next.
Named == {0} \cup Contracts \cup {lit[l] : l \in Literals}
            \cup {role[r] : r \in Roles}

\* Whoever the roles are, a transaction can still be sent by, and applied to,
\* clients that are pairwise distinct and distinct from every address the
\* contracts remember.  This is what makes the neighbourhood large enough.
FootprintFits ==
    (At("call") /\ ~ Concrete) =>
        Cardinality(Representatives \ Named) >= client_ct

\* Once interference has been applied, the neighbourhood of the transaction
\* conforms to the invariant, whatever earlier transactions wrote and whoever
\* they left in a role.
NeighbourhoodConforms ==
    (CanInfer /\ Rule /= "none" /\ (At("time") \/ At("call"))) =>
        \A k \in Keys : Abstract(k) => data[k] \in InvValues

\* What the contracts know of a distinguished address never changes behind
\* their back: only a constructor or a method changes the entries whose keys
\* are implicit addresses or, in a role-based model, roles, and every entry of
\* a model that is run without interference.
Distinguished(k) ==
    \/ ~ CanInfer
    \/ /\ Type /= "universal"
       /\ \A i \in 1 .. Depth :
             \/ k[i] \in Implicit
             \/ Type = "rolebased" /\ \E r \in Roles : role[r] = k[i]

DistinguishedStable ==
    [][\A k \in Keys :
          Distinguished(k) /\ data'[k] /= data[k] => pc \in {"init_call", "body"}]_vars

\* The client reserved for the check of the invariant takes part in no
\* transaction: its entries change by initialisation and interference only.
WitnessUntouched ==
    [][\A k \in Keys :
          (\E i \in 1 .. Depth : k[i] >= max_sender) /\ data'[k] /= data[k]
              => pc \in {"init_call", "apply"}]_vars

\* Block numbers and timestamps never decrease, and in lockstep mode a new
\* block has a new timestamp and conversely.
ClockAdvances ==
    [][/\ blocknum' >= blocknum
       /\ timestamp' >= timestamp
       /\ Lockstep => (blocknum' > blocknum <=> timestamp' > timestamp)]_vars
=============================================================================
