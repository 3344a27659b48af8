---------------------------- MODULE RunModelProofs ----------------------------
(***************************************************************************)
(* Proofs about RunModel, for every number of contracts, literals, roles,  *)
(* clients, key depths and every setting of the invariant instrumentation. *)
(***************************************************************************)
EXTENDS RunModel, FiniteSetTheorems, TLAPS

\* Every literal assigned so far by map_constants has an address of its own,
\* and all of them are assigned when the contracts get theirs.
LiteralsInv ==
    /\ \A l \in 1 .. lits : lit[l] \in 1 .. (implicit_count - 1)
    /\ \A l, m \in 1 .. lits : lit[l] = lit[m] => l = m
    /\ pc /= "literals" => lits = NumLit

\* After assign_addresses, the address variables hold participants.
RolesInv == pc /= "literals" => role \in [Roles -> RawAddress]

\* A body runs on behalf of a sender.
SenderInv == pc = "body" => sender \in Senders

TypeInv == TypeOK /\ SenderInv

-----------------------------------------------------------------------------
\* The address domain is laid out as: 0, contracts, other implicit addresses,
\* representatives, and no range of it is truncated to a byte.
LEMMA DomainLayout ==
    /\ implicit_count \in Nat
    /\ max_sender \in Nat
    /\ count \in Nat
    /\ ContractCt + 1 <= implicit_count
    /\ implicit_count <= max_sender
    /\ max_sender <= count
    /\ NdRange(1, implicit_count) = 1 .. (implicit_count - 1)
    /\ Senders = (ContractCt + 1) .. (max_sender - 1)
    /\ RawAddress = 0 .. (max_sender - 1)
    /\ RawAddress \subseteq Byte
<1>1. /\ implicit_count \in Nat
      /\ interference_count \in Nat
      /\ inf_ct \in Nat
      /\ ContractCt + 1 <= implicit_count
  BY DomainAssumption DEF implicit_count, interference_count, inf_ct, client_ct
<1>2. /\ max_sender \in Nat
      /\ implicit_count <= max_sender
      /\ count \in Nat
      /\ max_sender <= count
  BY <1>1 DEF max_sender, count
<1>3. \A n \in Nat : n <= max_sender => n % 256 = n
  BY <1>2, ByteAssumption
<1>4. /\ 0 % 256 = 0 /\ 1 % 256 = 1
      /\ implicit_count % 256 = implicit_count
      /\ max_sender % 256 = max_sender
      /\ (ContractCt + 1) % 256 = ContractCt + 1
  BY <1>1, <1>2, <1>3, DomainAssumption
<1>5. /\ NdRange(1, implicit_count) = 1 .. (implicit_count - 1)
      /\ Senders = (ContractCt + 1) .. (max_sender - 1)
      /\ RawAddress = 0 .. (max_sender - 1)
  BY <1>4 DEF NdRange, Senders, RawAddress
<1>6. RawAddress \subseteq Byte
  BY <1>2, <1>5, ByteAssumption DEF Byte
<1> QED
  BY <1>1, <1>2, <1>5, <1>6

\* A body never sees an address wider than a byte.
LEMMA InScopeByte ==
    ASSUME TypeOK, sender \in Senders
    PROVE  InScope \subseteq Byte
<1>1. Senders \subseteq Byte /\ Contracts \subseteq Byte /\ Implicit \subseteq Byte /\ 0 \in Byte
  BY DomainLayout, DomainAssumption, ByteAssumption DEF Contracts, Implicit, Byte
<1>2. \A l \in Literals : lit[l] \in Byte
  BY <1>1 DEF TypeOK
<1>3. \A r \in Roles : role[r] \in Byte
  BY DEF TypeOK
<1>4. \A i \in DOMAIN args : args[i] \in Byte
  BY DomainLayout DEF TypeOK
<1> QED
  BY <1>1, <1>2, <1>3, <1>4 DEF InScope
\* The addresses a body can write into a role.
LEMMA AssignableByte ==
    ASSUME TypeOK, sender \in Senders,
           NEW a \in InScope \cup (IF UsesCrypto THEN sol_crypto ELSE {})
    PROVE  a \in Byte
  BY InScopeByte DEF sol_crypto, Byte

-----------------------------------------------------------------------------
\* Typing is inductive once a running body is known to have a sender.
LEMMA TypeInit == Init => TypeInv
<1> SUFFICES ASSUME Init PROVE TypeInv
  OBVIOUS
<1>1. lit \in [Literals -> Implicit]
  BY DomainLayout, DomainAssumption DEF Init, Implicit
<1>2. role \in [Roles -> Byte]
  BY DEF Init, Byte
<1>3. data \in [Keys -> Values]
  BY DEF Init
<1>4. blocknum \in Time /\ timestamp \in Time
  BY RunAssumption DEF Init, Time
<1>5. inits \in 0 .. RootCt /\ lits \in 0 .. NumLit
  BY RunAssumption, DomainAssumption DEF Init
<1>6. args \in Seq(RawAddress)
  BY DEF Init
<1> QED
  BY <1>1, <1>2, <1>3, <1>4, <1>5, <1>6 DEF Init, TypeInv, TypeOK, SenderInv, Labels

\* A path that is dropped or reported keeps its state.
LEMMA TypeEnd == TypeInv /\ (Prune \/ Fail) => TypeInv'
  BY DEF TypeInv, TypeOK, SenderInv, Prune, Fail, locals, clock

\* Every step keeps the types.
LEMMA TypeNext == TypeInv /\ [Next]_vars => TypeInv'
<1> SUFFICES ASSUME TypeInv, [Next]_vars PROVE TypeInv'
  OBVIOUS
<1> USE DEF locals, clock
<1>1. CASE MapConstant
  <2>1. PICK a \in NdRange(1, implicit_count) :
           \/ Prune
           \/ /\ lits' = lits + 1
              /\ lit' = [lit EXCEPT ![lits + 1] = a]
              /\ UNCHANGED <<pc, status, inits, role, data, locals, clock>>
    BY <1>1 DEF MapConstant
  <2>2. CASE Prune
    BY <2>2, TypeEnd
  <2>3. CASE UNCHANGED <<pc, status, inits, role, data, locals, clock>>
             /\ lits' = lits + 1 /\ lit' = [lit EXCEPT ![lits + 1] = a]
    <3>1. a \in Implicit
      BY DomainLayout DEF Implicit
    <3>2. lits' \in 0 .. NumLit
      BY <1>1, <2>3, DomainAssumption DEF MapConstant, TypeInv, TypeOK
    <3>3. lit' \in [Literals -> Implicit]
      BY <2>3, <3>1 DEF TypeInv, TypeOK
    <3> QED
      BY <1>1, <2>3, <3>2, <3>3 DEF MapConstant, At, TypeInv, TypeOK, SenderInv
  <2> QED
    BY <2>1, <2>2, <2>3
<1>2. CASE AssignAddresses
  <2>1. role' \in [Roles -> Byte]
    BY <1>2 DEF AssignAddresses, Byte
  <2> QED
    BY <1>2, <2>1 DEF AssignAddresses, TypeInv, TypeOK, SenderInv, Labels
<1>3. ASSUME NEW next \in {"init_call", "call"}, UpdateGlobal(next) PROVE TypeInv'
  <2>1. CASE Prune
    BY <2>1, TypeEnd
  <2>2. CASE ~ Prune
    <3>1. blocknum' \in Time /\ timestamp' \in Time
      BY <1>3, <2>2, RunAssumption DEF UpdateGlobal, Increase, Time, TypeInv, TypeOK
    <3> QED
      BY <1>3, <2>2, <3>1 DEF UpdateGlobal, TypeInv, TypeOK, SenderInv, Labels
  <2> QED
    BY <2>1, <2>2
<1>4. CASE BeginConstructor
  <2>1. CASE Prune
    BY <2>1, TypeEnd
  <2>2. CASE ~ Prune
    <3>1. sender' \in Senders /\ args' \in Seq(RawAddress)
      BY <1>4, <2>2, RunAssumption DEF BeginConstructor, ChooseLocals
    <3>2. data' \in [Keys -> Values]
      BY <1>4, <2>2, RunAssumption DEF BeginConstructor, TypeInv, TypeOK
    <3> QED
      BY <1>4, <2>2, <3>1, <3>2 DEF BeginConstructor, TypeInv, TypeOK, SenderInv, Labels
  <2> QED
    BY <2>1, <2>2
<1>5. CASE BeginTransaction
  <2>1. CASE Prune
    BY <2>1, TypeEnd
  <2>2. CASE ~ Prune
    <3>1. sender' \in Senders /\ args' \in Seq(RawAddress)
      BY <1>5, <2>2, DomainAssumption DEF BeginTransaction, ChooseLocals
    <3> QED
      BY <1>5, <2>2, <3>1 DEF BeginTransaction, TypeInv, TypeOK, SenderInv, Labels
  <2> QED
    BY <2>1, <2>2
<1>6. CASE AssignRole
  <2>1. TypeOK /\ sender \in Senders
    BY <1>6 DEF AssignRole, At, TypeInv, SenderInv
  <2>2. PICK r \in Roles, a \in InScope \cup (IF UsesCrypto THEN sol_crypto ELSE {}) :
           role' = [role EXCEPT ![r] = a]
    BY <1>6 DEF AssignRole
  <2>3. a \in Byte
    BY <2>1, AssignableByte
  <2>4. role' \in [Roles -> Byte]
    BY <2>1, <2>2, <2>3 DEF TypeOK
  <2> QED
    BY <1>6, <2>4 DEF AssignRole, TypeInv, TypeOK, SenderInv
<1>7. CASE WriteMap
  <2>1. CASE Fail
    BY <2>1, TypeEnd
  <2>2. CASE ~ Fail
    <3>1. PICK k \in [1 .. Depth -> InScope], v \in Values :
             /\ data' = [e \in Keys |-> IF e = k THEN v ELSE data[e]]
             /\ UNCHANGED <<pc, status, lits, lit, inits, role, locals, clock>>
      BY <1>7, <2>2 DEF WriteMap
    <3>2. data' \in [Keys -> Values]
      BY <3>1 DEF TypeInv, TypeOK
    <3> QED
      BY <3>1, <3>2 DEF TypeInv, TypeOK, SenderInv
  <2> QED
    BY <2>1, <2>2
<1>8. CASE RequireFails \/ AssertFails
  BY <1>8, TypeEnd DEF RequireFails, AssertFails
<1>9. CASE Return
  <2>1. inits' \in 0 .. RootCt
    BY <1>9, RunAssumption DEF Return, TypeInv, TypeOK
  <2>2. args' \in Seq(RawAddress)
    BY <1>9 DEF Return
  <2> QED
    BY <1>9, <2>1, <2>2 DEF Return, TypeInv, TypeOK, SenderInv, Labels
<1>10. CASE Continue \/ ExitLoop
  BY <1>10 DEF Continue, ExitLoop, At, TypeInv, TypeOK, SenderInv, Labels
<1>11. CASE CheckInterference
  <2>1. CASE Prune \/ Fail
    BY <2>1, TypeEnd
  <2>2. CASE ~ (Prune \/ Fail)
    BY <1>11, <2>2 DEF CheckInterference, TypeInv, TypeOK, SenderInv, Labels
  <2> QED
    BY <2>1, <2>2
<1>12. CASE ApplyInterference
  <2>1. CASE Prune
    BY <2>1, TypeEnd
  <2>2. CASE ~ Prune
    <3>1. data' \in [Keys -> Values]
      BY <1>12, <2>2 DEF ApplyInterference, TypeInv, TypeOK
    <3> QED
      BY <1>12, <2>2, <3>1 DEF ApplyInterference, TypeInv, TypeOK, SenderInv, Labels
  <2> QED
    BY <2>1, <2>2
<1>13. CASE UNCHANGED vars
  BY <1>13 DEF vars, TypeInv, TypeOK, SenderInv
<1> QED
  BY <1>1, <1>2, <1>3, <1>4, <1>5, <1>6, <1>7, <1>8, <1>9, <1>10, <1>11, <1>12, <1>13
     DEF Next, InitTime, StepTime, Ended

\* Every variable of run_model keeps a value of its C type: the addresses fit
\* in the bytes that select them and the clock never overflows.
THEOREM TypeCorrect == Spec => []TypeOK
<1>1. TypeInv => TypeOK
  BY DEF TypeInv
<1> QED
  BY TypeInit, TypeNext, <1>1, PTL DEF Spec

-----------------------------------------------------------------------------
(***************************************************************************)
(* Literals and roles.  Who a body can name decides who it can leave in a  *)
(* role, and who is in a role decides who the next body can name, so both  *)
(* are bounded together.                                                   *)
(***************************************************************************)
LiteralsTyped == TypeInv /\ LiteralsInv

SafeInv == TypeInv /\ LiteralsInv /\ RolesInv

\* map_constants: a literal is compared with all of its predecessors.
LEMMA LiteralsNext == LiteralsTyped /\ [Next]_vars => LiteralsTyped'
<1> SUFFICES ASSUME LiteralsTyped, [Next]_vars PROVE LiteralsInv'
  BY TypeNext DEF LiteralsTyped
<1> USE DEF locals, clock
<1>1. lits \in 0 .. NumLit /\ lit \in [Literals -> Implicit]
  BY DEF LiteralsTyped, TypeInv, TypeOK
<1>2. CASE MapConstant /\ ~ Prune
  <2>1. PICK a \in NdRange(1, implicit_count) :
           /\ \A l \in 1 .. lits : lit[l] /= a
           /\ lits' = lits + 1
           /\ lit' = [lit EXCEPT ![lits + 1] = a]
           /\ pc' = pc
    BY <1>2 DEF MapConstant
  <2>2. a \in 1 .. (implicit_count - 1)
    BY DomainLayout
  <2>3. pc = "literals" /\ lits < NumLit
    BY <1>2 DEF MapConstant, At
  <2>4. \A l \in 1 .. lits' : lit'[l] = IF l = lits + 1 THEN a ELSE lit[l]
    BY <1>1, <2>1, <2>3, DomainAssumption DEF Literals
  <2>5. \A l \in 1 .. lits' : l = lits + 1 \/ l \in 1 .. lits
    BY <1>1, <2>1, DomainAssumption
  <2>6. \A l \in 1 .. lits' : lit'[l] \in 1 .. (implicit_count - 1)
    BY <2>2, <2>4, <2>5 DEF LiteralsTyped, LiteralsInv
  <2>7. \A l, m \in 1 .. lits' : lit'[l] = lit'[m] => l = m
    BY <2>1, <2>4, <2>5 DEF LiteralsTyped, LiteralsInv
  <2> QED
    BY <2>1, <2>3, <2>6, <2>7 DEF LiteralsInv
<1>3. CASE Prune \/ Fail
  BY <1>3 DEF Prune, Fail, LiteralsTyped, LiteralsInv
<1>4. CASE AssignAddresses
  BY <1>4 DEF AssignAddresses, LiteralsTyped, LiteralsInv
<1>5. CASE UNCHANGED <<lits, lit>> /\ (pc' = "literals" => pc = "literals")
           /\ (pc = "literals" => pc' = "literals")
  BY <1>5 DEF LiteralsTyped, LiteralsInv
<1>6. ASSUME NEW next \in {"init_call", "call"}, At("init_time") \/ At("time"),
             UpdateGlobal(next)
      PROVE  LiteralsInv'
  BY <1>3, <1>5, <1>6 DEF UpdateGlobal, At
<1>7. CASE InitTime \/ StepTime
  BY <1>6, <1>7 DEF InitTime, StepTime
<1>8. CASE BeginConstructor \/ BeginTransaction
  BY <1>3, <1>5, <1>8 DEF BeginConstructor, BeginTransaction, At
<1>9. CASE AssignRole \/ Return \/ RequireFails \/ AssertFails
  BY <1>3, <1>5, <1>9 DEF AssignRole, Return, RequireFails, AssertFails, At
<1>10. CASE WriteMap
  BY <1>3, <1>5, <1>10 DEF WriteMap, At
<1>11. CASE Continue \/ ExitLoop
  BY <1>5, <1>11 DEF Continue, ExitLoop, At
<1>12. CASE CheckInterference
  BY <1>3, <1>5, <1>12 DEF CheckInterference, At
<1>13. CASE ApplyInterference
  BY <1>3, <1>5, <1>13 DEF ApplyInterference, At
<1>14. CASE UNCHANGED vars
  BY <1>5, <1>14 DEF vars
<1> QED
  BY <1>2, <1>3, <1>4, <1>7, <1>8, <1>9, <1>10, <1>11, <1>12, <1>13, <1>14
     DEF Next, Ended

\* Distinct address literals of the program are distinct implicit addresses
\* from the end of map_constants on, however many literals there are.
THEOREM LiteralsStayDistinct == Spec => []LiteralsDistinct
<1>1. Init => LiteralsTyped
  BY TypeInit, DomainAssumption DEF Init, LiteralsTyped, LiteralsInv
<1>2. LiteralsTyped => LiteralsDistinct
  BY DomainLayout DEF LiteralsTyped, LiteralsInv, LiteralsDistinct, Literals, Implicit
<1> QED
  BY <1>1, <1>2, LiteralsNext, PTL DEF Spec
-----------------------------------------------------------------------------
\* A body can only name participants as long as its roles are participants.
LEMMA InScopeParticipant ==
    ASSUME SafeInv, pc = "body"
    PROVE  InScope \subseteq RawAddress
<1>1. Implicit \subseteq RawAddress /\ Contracts \subseteq RawAddress
      /\ Senders \subseteq RawAddress /\ 0 \in RawAddress
  BY DomainLayout, DomainAssumption DEF Contracts, Implicit
<1>2. sender \in RawAddress
  BY <1>1 DEF SafeInv, TypeInv, SenderInv
<1>3. \A l \in Literals : lit[l] \in RawAddress
  BY <1>1 DEF SafeInv, TypeInv, TypeOK
<1>4. \A r \in Roles : role[r] \in RawAddress
  BY DEF SafeInv, RolesInv
<1>5. \A i \in DOMAIN args : args[i] \in RawAddress
  BY DEF SafeInv, TypeInv, TypeOK
<1> QED
  BY <1>1, <1>2, <1>3, <1>4, <1>5 DEF InScope

\* The invariant holds when run_model() starts.
LEMMA SafeInit == Init => SafeInv
  BY TypeInit, DomainAssumption DEF Init, SafeInv, LiteralsInv, RolesInv

\* A program that does not call ecrecover only moves participants around.
LEMMA SafeNext == ~ UsesCrypto /\ SafeInv /\ [Next]_vars => SafeInv'
<1> SUFFICES ASSUME ~ UsesCrypto, SafeInv, [Next]_vars PROVE RolesInv'
  BY TypeNext, LiteralsNext DEF SafeInv, LiteralsTyped
<1> USE DEF locals, clock
<1>1. CASE UNCHANGED role /\ (pc' /= "literals" => pc /= "literals")
  BY <1>1 DEF SafeInv, RolesInv
<1>2. CASE Prune \/ Fail
  BY <1>1, <1>2 DEF Prune, Fail
<1>3. CASE AssignAddresses
  <2>1. 0 \in RawAddress
    BY DomainLayout, DomainAssumption
  <2> QED
    BY <1>3, <2>1 DEF AssignAddresses, RolesInv
<1>4. CASE AssignRole
  <2>1. PICK r \in Roles, a \in InScope : role' = [role EXCEPT ![r] = a]
    BY <1>4 DEF AssignRole
  <2>2. a \in RawAddress
    BY <1>4, InScopeParticipant DEF AssignRole, At
  <2> QED
    BY <1>4, <2>1, <2>2 DEF AssignRole, At, SafeInv, RolesInv
<1>5. CASE MapConstant
  BY <1>1, <1>2, <1>5 DEF MapConstant
<1>6. CASE InitTime \/ StepTime
  BY <1>1, <1>2, <1>6 DEF InitTime, StepTime, UpdateGlobal, At
<1>7. CASE BeginConstructor \/ BeginTransaction
  BY <1>1, <1>2, <1>7 DEF BeginConstructor, BeginTransaction, At
<1>8. CASE WriteMap \/ Return \/ RequireFails \/ AssertFails
  BY <1>1, <1>2, <1>8 DEF WriteMap, Return, RequireFails, AssertFails, At
<1>9. CASE Continue \/ ExitLoop
  BY <1>1, <1>9 DEF Continue, ExitLoop, At
<1>10. CASE CheckInterference
  BY <1>1, <1>2, <1>10 DEF CheckInterference, At
<1>11. CASE ApplyInterference
  BY <1>1, <1>2, <1>11 DEF ApplyInterference, At
<1>12. CASE UNCHANGED vars
  BY <1>1, <1>12 DEF vars
<1> QED
  BY <1>3, <1>4, <1>5, <1>6, <1>7, <1>8, <1>9, <1>10, <1>11, <1>12 DEF Next, Ended

\* As long as no body assigns the result of ecrecover, every address a body
\* can name is below max_sender: mapping accesses stay inside the mapping.
THEOREM AddressesStayInBounds == ~ UsesCrypto => (Spec => []AddressesInBounds)
<1> SUFFICES ASSUME ~ UsesCrypto PROVE Spec => []AddressesInBounds
  OBVIOUS
<1>1. SafeInv /\ [Next]_vars => SafeInv'
  BY SafeNext
<1>2. SafeInv => AddressesInBounds
  BY InScopeParticipant, DomainLayout DEF AddressesInBounds, At
<1> QED
  BY <1>1, <1>2, SafeInit, PTL DEF Spec

-----------------------------------------------------------------------------
\* Once applied, interference leaves only conforming entries, until the next
\* body runs.
ConformInv ==
    (CanInfer /\ Rule /= "none" /\ pc \in {"time", "call"}) =>
        \A k \in Keys : Abstract(k) => data[k] \in InvValues

\* Whatever a transaction wrote and whoever it left in a role, the abstract
\* entries that the next transaction meets satisfy the invariant, for every
\* number of keys, of roles and of clients.
THEOREM NeighbourhoodStaysConforming == Spec => []NeighbourhoodConforms
<1> USE DEF locals, clock
<1>1. Init => ConformInv
  BY DEF Init, ConformInv
<1>2. ConformInv /\ [Next]_vars => ConformInv'
  <2> SUFFICES ASSUME ConformInv, [Next]_vars PROVE ConformInv'
    OBVIOUS
  <2>1. CASE UNCHANGED <<role, data>> /\ (pc' \in {"time", "call"} => pc \in {"time", "call"})
    BY <2>1 DEF ConformInv, Abstract, Expanded, Guard
  <2>2. CASE Prune \/ Fail
    BY <2>1, <2>2 DEF Prune, Fail
  <2>3. CASE pc' \notin {"time", "call"}
    BY <2>3 DEF ConformInv
  <2>4. CASE ApplyInterference
    <3>1. CASE CanInfer /\ ~ Prune
      <4>1. PICK d \in [Keys -> Values] :
               /\ Rule = "none" \/ \A k \in Keys : Abstract(k) => d[k] \in InvValues
               /\ data' = d
               /\ role' = role
        BY <2>4, <3>1 DEF ApplyInterference
      <4>2. \A k \in Keys : Abstract(k)' <=> Abstract(k)
        BY <4>1 DEF Abstract, Expanded, Guard
      <4> QED
        BY <4>1, <4>2 DEF ConformInv
    <3> QED
      BY <2>2, <2>4, <3>1 DEF ApplyInterference, ConformInv
  <2>5. CASE InitTime \/ StepTime
    BY <2>1, <2>2, <2>3, <2>5 DEF InitTime, StepTime, UpdateGlobal, At
  <2>6. CASE BeginConstructor \/ BeginTransaction
    BY <2>2, <2>3, <2>6 DEF BeginConstructor, BeginTransaction
  <2>7. CASE MapConstant \/ AssignAddresses
    BY <2>2, <2>3, <2>7 DEF MapConstant, AssignAddresses, At
  <2>8. CASE AssignRole \/ WriteMap \/ Return \/ RequireFails \/ AssertFails
    BY <2>2, <2>3, <2>8 DEF AssignRole, WriteMap, Return, RequireFails, AssertFails, At
  <2>9. CASE Continue \/ ExitLoop \/ CheckInterference
    BY <2>2, <2>3, <2>9 DEF Continue, ExitLoop, CheckInterference, At
  <2>10. CASE UNCHANGED vars
    BY <2>1, <2>10 DEF vars
  <2> QED
    BY <2>4, <2>5, <2>6, <2>7, <2>8, <2>9, <2>10 DEF Next, Ended
<1>3. ConformInv => NeighbourhoodConforms
  BY DEF ConformInv, NeighbourhoodConforms, At
<1> QED
  BY <1>1, <1>2, <1>3, PTL DEF Spec
-----------------------------------------------------------------------------
(***************************************************************************)
(* What a step may not do.                                                 *)
(***************************************************************************)

\* The clock: both fields advance together in lockstep mode, and neither runs
\* backwards, whatever the bound on time is.
THEOREM ClockAlwaysAdvances == Spec => ClockAdvances
<1> DEFINE Tick == /\ blocknum' >= blocknum
                   /\ timestamp' >= timestamp
                   /\ Lockstep => (blocknum' > blocknum <=> timestamp' > timestamp)
<1>1. ASSUME TypeInv, Next PROVE Tick
  <2> USE DEF locals, clock
  <2>1. blocknum \in Int /\ timestamp \in Int
    BY <1>1, RunAssumption DEF TypeInv, TypeOK, Time
  <2>2. CASE UNCHANGED <<blocknum, timestamp>>
    BY <2>1, <2>2
  <2>3. CASE Prune \/ Fail
    BY <2>2, <2>3 DEF Prune, Fail
  <2>4. CASE InitTime \/ StepTime
    <3>1. CASE \E b \in Increase(blocknum), t \in Increase(timestamp) :
                  blocknum' = b /\ timestamp' = t
      BY <2>1, <3>1, RunAssumption DEF Increase
    <3> QED
      BY <2>2, <2>3, <2>4, <3>1 DEF InitTime, StepTime, UpdateGlobal
  <2>5. CASE MapConstant \/ AssignAddresses \/ BeginConstructor \/ BeginTransaction
    BY <2>2, <2>3, <2>5 DEF MapConstant, AssignAddresses, BeginConstructor, BeginTransaction
  <2>6. CASE AssignRole \/ WriteMap \/ RequireFails \/ AssertFails \/ Return
    BY <2>2, <2>3, <2>6 DEF AssignRole, WriteMap, RequireFails, AssertFails, Return
  <2>7. CASE Continue \/ ExitLoop \/ CheckInterference \/ ApplyInterference
    BY <2>2, <2>3, <2>7 DEF Continue, ExitLoop, CheckInterference, ApplyInterference
  <2>8. CASE Ended
    BY <2>2, <2>8 DEF Ended, vars
  <2> QED
    BY <1>1, <2>4, <2>5, <2>6, <2>7, <2>8 DEF Next
<1>2. TypeInv /\ [Next]_vars => [Tick]_vars
  BY <1>1
<1> QED
  BY <1>2, TypeInit, TypeNext, PTL DEF Spec, ClockAdvances

\* The steps that write the mapping outside of a constructor or a body.
LEMMA DataWriters ==
    ASSUME Next, data' /= data
    PROVE  pc \in {"init_call", "body"} \/ ApplyInterference
<1> USE DEF locals, clock
<1>1. CASE MapConstant \/ AssignAddresses \/ BeginConstructor \/ BeginTransaction
  BY <1>1 DEF MapConstant, AssignAddresses, BeginConstructor, BeginTransaction, Prune, At
<1>2. CASE InitTime \/ StepTime
  BY <1>2 DEF InitTime, StepTime, UpdateGlobal, Prune
<1>3. CASE AssignRole \/ WriteMap \/ RequireFails \/ AssertFails \/ Return
  BY <1>3 DEF AssignRole, WriteMap, RequireFails, AssertFails, Return, At
<1>4. CASE Continue \/ ExitLoop \/ CheckInterference
  BY <1>4 DEF Continue, ExitLoop, CheckInterference, Prune, Fail
<1>5. CASE Ended
  BY <1>5 DEF Ended, vars
<1> QED
  BY <1>1, <1>2, <1>3, <1>4, <1>5 DEF Next

\* An entry whose every key is an implicit address, or a role of a role-based
\* model, is never abstract.
LEMMA DistinguishedConcrete ==
    ASSUME CanInfer, NEW k \in Keys, Distinguished(k)
    PROVE  ~ Abstract(k)
<1>1. \A i \in 1 .. Depth : k[i] \in Int /\ (k[i] \in Implicit => ~ (k[i] >= implicit_count))
  BY DomainLayout, RunAssumption DEF Keys, Addr, Implicit
<1>2. CASE Type = "singleton"
  BY <1>1, <1>2 DEF Distinguished, Abstract, Expanded
<1>3. CASE Type = "rolebased"
  BY <1>1, <1>3 DEF Distinguished, Abstract, Guard
<1> QED
  BY <1>2, <1>3, RunAssumption DEF Distinguished

\* Interference never touches what the contracts know of an implicit address
\* or of the holder of a role.
THEOREM DistinguishedAlwaysStable == Spec => DistinguishedStable
<1> DEFINE Keeps == \A k \in Keys :
                       Distinguished(k) /\ data'[k] /= data[k] => pc \in {"init_call", "body"}
<1>1. ASSUME Next PROVE Keeps
  <2> SUFFICES ASSUME NEW k \in Keys, Distinguished(k), data'[k] /= data[k],
                      ApplyInterference
               PROVE  FALSE
    BY <1>1, DataWriters
  <2>1. CASE CanInfer
    <3>1. ~ Abstract(k)
      BY <2>1, DistinguishedConcrete
    <3> QED
      BY <2>1, <3>1 DEF ApplyInterference, Prune
  <2>2. CASE ~ CanInfer
    BY <2>2 DEF ApplyInterference
  <2> QED
    BY <2>1, <2>2
<1>2. [Next]_vars => [Keeps]_vars
  BY <1>1
<1> QED
  BY <1>2, PTL DEF Spec, DistinguishedStable

\* No body writes an entry of the client that is reserved for the check of the
\* invariant, unless ecrecover makes its address up.
THEOREM WitnessAlwaysUntouched == ~ UsesCrypto => (Spec => WitnessUntouched)
<1> SUFFICES ASSUME ~ UsesCrypto PROVE Spec => WitnessUntouched
  OBVIOUS
<1> DEFINE Keeps == \A k \in Keys :
                       (\E i \in 1 .. Depth : k[i] >= max_sender) /\ data'[k] /= data[k]
                           => pc \in {"init_call", "apply"}
<1>1. ASSUME SafeInv, Next PROVE Keeps
  <2> SUFFICES ASSUME NEW k \in Keys, NEW i \in 1 .. Depth, k[i] >= max_sender,
                      data'[k] /= data[k], pc = "body"
               PROVE  FALSE
    BY <1>1, DataWriters DEF ApplyInterference, At
  <2>1. WriteMap
    BY <1>1 DEF Next, MapConstant, AssignAddresses, InitTime, BeginConstructor,
       AssignRole, RequireFails, AssertFails, Return, Continue, ExitLoop,
       CheckInterference, ApplyInterference, StepTime, BeginTransaction, Ended,
       Prune, Fail, At, vars
  <2>2. PICK w \in [1 .. Depth -> InScope], v \in Values :
           data' = [e \in Keys |-> IF e = w THEN v ELSE data[e]]
    BY <2>1 DEF WriteMap, Fail
  <2>3. k = w
    BY <2>2
  <2>4. k[i] \in RawAddress
    BY <1>1, <2>2, <2>3, InScopeParticipant
  <2> QED
    BY <2>4, DomainLayout
<1>2. SafeInv /\ [Next]_vars => [Keeps]_vars
  BY <1>1
<1>3. SafeInv /\ [Next]_vars => SafeInv'
  BY SafeNext
<1> QED
  BY <1>2, <1>3, SafeInit, PTL DEF Spec, WitnessUntouched
-----------------------------------------------------------------------------
(***************************************************************************)
(* The size of the neighbourhood.                                          *)
(***************************************************************************)

\* The roles hold at most as many addresses as there are role variables.
LEMMA RoleHolders ==
    ASSUME TypeOK, NEW H, H = {role[r] : r \in Roles}
    PROVE  IsFiniteSet(H) /\ Cardinality(H) <= RoleVarCt
<1>1. IsFiniteSet(Roles) /\ Cardinality(Roles) = RoleVarCt
  BY RunAssumption, FS_Interval DEF Roles
<1>2. role \in Surjection(Roles, H)
  BY DEF TypeOK, Surjection
<1>3. IsFiniteSet(H) /\ Cardinality(H) <= Cardinality(Roles)
  BY <1>1, <1>2, FS_Surjection
<1> QED
  BY <1>1, <1>3

\* There is one representative per role and per client.
LEMMA RepresentativeCount ==
    ASSUME ~ Concrete
    PROVE  /\ IsFiniteSet(Representatives)
           /\ Cardinality(Representatives) = RoleDefCt + client_ct
<1>1. /\ implicit_count \in Int
      /\ max_sender - 1 \in Int
      /\ max_sender = implicit_count + (RoleDefCt + client_ct)
      /\ RoleDefCt + client_ct > 0
  BY DomainLayout, DomainAssumption DEF max_sender, interference_count, client_ct
<1>2. ~ (implicit_count > max_sender - 1)
      /\ (max_sender - 1) - implicit_count + 1 = RoleDefCt + client_ct
  BY <1>1, DomainLayout, DomainAssumption DEF client_ct
<1> QED
  BY <1>1, <1>2, FS_Interval DEF Representatives

\* If every role variable has been counted, then a client for the sender and
\* one for each argument remain, apart from whoever the contracts remember.
LEMMA FreeClients ==
    ASSUME TypeOK, ~ Concrete, RoleVarCt <= RoleDefCt
    PROVE  Cardinality(Representatives \ Named) >= client_ct
<1> DEFINE H == {role[r] : r \in Roles}
<1>1. IsFiniteSet(H) /\ Cardinality(H) <= RoleVarCt
  BY RoleHolders
<1>2. /\ IsFiniteSet(Representatives)
      /\ Cardinality(Representatives) = RoleDefCt + client_ct
  BY RepresentativeCount
<1>3. Representatives \cap Named = H \cap Representatives
  <2>1. \A a \in Representatives : a \notin Implicit
    BY DomainLayout DEF Representatives, Implicit
  <2>2. 0 \in Implicit /\ Contracts \subseteq Implicit
    BY DomainLayout, DomainAssumption DEF Contracts, Implicit
  <2>3. \A l \in Literals : lit[l] \in Implicit
    BY DEF TypeOK
  <2> QED
    BY <2>1, <2>2, <2>3 DEF Named
<1>4. /\ Cardinality(H \cap Representatives) <= Cardinality(H)
      /\ IsFiniteSet(H \cap Representatives)
  BY <1>1, FS_Intersection
<1>5. Cardinality(Representatives \ Named)
         = Cardinality(Representatives) - Cardinality(H \cap Representatives)
  BY <1>2, <1>3, FS_Difference
<1>6. Cardinality(H) \in Nat /\ Cardinality(H \cap Representatives) \in Nat
  BY <1>1, <1>4, FS_CardinalityType
<1>7. Cardinality(Representatives \ Named)
         = (RoleDefCt + client_ct) - Cardinality(H \cap Representatives)
  BY <1>2, <1>5
<1>8. Cardinality(H \cap Representatives) <= RoleDefCt
  BY <1>1, <1>4, <1>6, RunAssumption, DomainAssumption
<1>9. client_ct \in Nat /\ RoleDefCt \in Nat
  BY DomainAssumption DEF client_ct
<1> HIDE DEF H
<1> QED
  BY <1>6, <1>7, <1>8, <1>9

\* A bundle in which no contract definition with roles has two instances has a
\* neighbourhood that is large enough for every transaction.
THEOREM FootprintAlwaysFits == RoleVarCt <= RoleDefCt => (Spec => []FootprintFits)
<1> SUFFICES ASSUME RoleVarCt <= RoleDefCt PROVE Spec => []FootprintFits
  OBVIOUS
<1>1. TypeOK => FootprintFits
  BY FreeClients DEF FootprintFits
<1> QED
  BY <1>1, TypeCorrect, PTL
=============================================================================
