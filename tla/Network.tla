------------------------------- MODULE Network -------------------------------
(***************************************************************************)
(* The blockchain that run_model() stands for: a bundle of contracts that  *)
(* is used by any number of accounts.  Constructors and transactions come  *)
(* from any account and name any accounts; nothing interferes with the     *)
(* entries of the mapping but transactions.                                *)
(*                                                                         *)
(* Steps that do not depend on accounts are the ones of RunModel.  The     *)
(* variables of RunModel that hold addresses follow the network: they are  *)
(* history variables here, computed from the network and from name, which  *)
(* gives an address of the model to the accounts that currently matter.    *)
(* They never restrict what the network does.  That every behaviour of     *)
(* this module is one of RunModel is what the size of the address domain,  *)
(* the interference and its check are for.                                 *)
(***************************************************************************)
EXTENDS RunModel

CONSTANTS
    Accounts,     \* any set, as large as one likes
    Nobody,       \* the zero address
    ContractAt,   \* where the contracts of the bundle are
    LiteralAt     \* the other addresses that the program spells out

\* Contracts have different addresses, and so have literals; a literal may be
\* the address of a contract.
NetworkOK ==
    /\ Nobody \in Accounts
    /\ ContractAt \in [Contracts -> Accounts \ {Nobody}]
    /\ LiteralAt \in [Literals -> Accounts \ {Nobody}]
    /\ \A i, j \in Contracts : ContractAt[i] = ContractAt[j] => i = j
    /\ \A l, m \in Literals : LiteralAt[l] = LiteralAt[m] => l = m

\* Entries of the mapping, which are the keys of the model before the accounts
\* are named.
Entries == [1 .. Depth -> Accounts]

VARIABLES
    holder,     \* the address variables of all contracts
    book,       \* the entries of the mapping
    caller,     \* msg.sender of the transaction that comes next, or runs
    params,     \* its address arguments
    name        \* addresses in the model of some accounts

network == <<holder, book, caller, params>>
nvars == <<vars, network, name>>

-----------------------------------------------------------------------------
(***************************************************************************)
(* Names.                                                                  *)
(***************************************************************************)
Deployed == {ContractAt[i] : i \in Contracts}

\* Accounts that the program knows from the start.
Fixed == {Nobody} \cup Deployed \cup {LiteralAt[l] : l \in Literals}

FixedName ==
    [a \in Fixed |->
        IF a = Nobody THEN 0
        ELSE IF a \in Deployed THEN CHOOSE i \in Contracts : ContractAt[i] = a
        ELSE ContractCt + CHOOSE l \in Literals : LiteralAt[l] = a]

\* Addresses of the model in use by the names n.
Taken(n) == {n[a] : a \in DOMAIN n}

\* The names n, and a representative of its own for everybody else in who.
Extended(n, who) ==
    LET new == who \ DOMAIN n
        own == CHOOSE f \in [new -> Representatives \ Taken(n)] :
                   \A a, b \in new : f[a] = f[b] => a = b
    IN  [a \in DOMAIN n \cup who |-> IF a \in DOMAIN n THEN n[a] ELSE own[a]]

Holders == {holder[r] : r \in Roles}

\* Between transactions, the contracts remember the fixed accounts and those
\* in a role; everybody else loses his name.
Remembered == [a \in Fixed \cup Holders |-> name[a]]

Renamed(n, e) == [i \in 1 .. Depth |-> n[e[i]]]

\* An entry that the next transaction may find changed by earlier ones which
\* the model leaves out.
Interfered(e) ==
    \/ Type = "universal"
    \/ \E i \in 1 .. Depth :
           e[i] \notin Fixed /\ (Type = "rolebased" => e[i] \notin Holders)

\* What the model has in its entries once interference has been applied: what
\* the network has for the accounts with the names n.
Refreshed(n) ==
    [k \in Keys |->
        IF ~ Abstract(k) THEN data[k]
        ELSE IF \E e \in [1 .. Depth -> DOMAIN n] : Renamed(n, e) = k
        THEN book[CHOOSE e \in [1 .. Depth -> DOMAIN n] : Renamed(n, e) = k]
        ELSE IF Rule = "none" THEN Zero
        ELSE CHOOSE v \in InvValues : TRUE]

-----------------------------------------------------------------------------
(***************************************************************************)
(* Steps.                                                                  *)
(***************************************************************************)
NInit ==
    /\ pc = "literals"
    /\ status = "run"
    /\ inits = 0
    /\ blocknum \in IF Lockstep THEN Time ELSE {0}
    /\ timestamp \in IF Lockstep THEN Time ELSE {0}
    /\ holder = [r \in Roles |-> Nobody]
    /\ book = [e \in Entries |-> Zero]
    /\ caller = Nobody
    /\ params = <<>>
    /\ name = FixedName
    /\ lits = 0
    /\ lit = [l \in Literals |-> 0]
    /\ role = [r \in Roles |-> 0]
    /\ data = [k \in Keys |-> Zero]
    /\ sender = NoSender
    /\ args = <<>>

\* The model learns the next literal.
LearnLiteral ==
    /\ At("literals")
    /\ lits < NumLit
    /\ lits' = lits + 1
    /\ lit' = [lit EXCEPT ![lits + 1] = name[LiteralAt[lits + 1]]]
    /\ UNCHANGED <<pc, status, inits, role, data, locals, clock, network, name>>

\* The contracts are at their addresses.
Deploy == AssignAddresses /\ UNCHANGED <<network, name>>

\* A transaction comes from an account that is no contract of the bundle.
Arrives(c, p) ==
    /\ c \notin {Nobody} \cup Deployed
    /\ caller' = c
    /\ params' = p

Involved(c, p) == {c} \cup {p[i] : i \in DOMAIN p}

\* A constructor is called.  There is no interference between constructors,
\* so that all accounts keep their names.
Construct ==
    /\ At("init_call")
    /\ \E c \in Accounts, p \in [1 .. CtorArgs -> Accounts] :
          /\ Arrives(c, p)
          /\ name' = Extended(name, Involved(c, p))
          /\ sender' = name'[c]
          /\ args' = [i \in 1 .. CtorArgs |-> name'[p[i]]]
    /\ book' = IF inits = 0 THEN [e \in Entries |-> Zero] ELSE book
    /\ data' = IF inits = 0 THEN [k \in Keys |-> Zero] ELSE data
    /\ pc' = "body"
    /\ UNCHANGED <<status, lits, lit, inits, role, clock, holder>>

\* Accounts that a body can name.
Nameable == Fixed \cup {caller} \cup Holders \cup {params[i] : i \in DOMAIN params}

SetHolder ==
    /\ At("body")
    /\ \E r \in Roles, a \in Nameable :
          /\ holder' = [holder EXCEPT ![r] = a]
          /\ role' = [role EXCEPT ![r] = name[a]]
    /\ UNCHANGED <<pc, status, lits, lit, inits, data, locals, clock,
                   book, caller, params, name>>

WriteBook ==
    /\ At("body")
    /\ \E e \in [1 .. Depth -> Nameable], v \in Values :
          /\ book' = [book EXCEPT ![e] = v]
          /\ data' = [data EXCEPT ![Renamed(name, e)] = v]
    /\ UNCHANGED <<pc, status, lits, lit, inits, role, locals, clock,
                   holder, caller, params, name>>

EndCall ==
    /\ Return
    /\ caller' = Nobody
    /\ params' = <<>>
    /\ UNCHANGED <<holder, book, name>>

\* Steps of RunModel that do not depend on accounts.
SameStep ==
    /\ InitTime \/ StepTime \/ RequireFails \/ AssertFails \/ Continue \/ ExitLoop \/ Ended
    /\ UNCHANGED <<network, name>>

\* Between two transactions the whole network is compared with the invariant
\* that is to be checked.
Audit ==
    /\ At("check")
    /\ IF Rule = "checked" /\ \E e \in Entries : Interfered(e) /\ book[e] \notin InvValues
       THEN Fail
       ELSE /\ pc' = "apply"
            /\ UNCHANGED <<status, lits, lit, inits, role, data, locals, clock>>
    /\ UNCHANGED <<network, name>>

\* The next transaction arrives.  The accounts in it get names, and the model
\* applies the interference that fits them.
NextTransaction ==
    /\ At("apply")
    /\ \E c \in Accounts, p \in [1 .. MethodArgs -> Accounts] :
          /\ Arrives(c, p)
          /\ name' = Extended(Remembered, Involved(c, p))
    /\ data' = Refreshed(name')
    /\ pc' = "time"
    /\ UNCHANGED <<status, lits, lit, inits, role, locals, clock, holder, book>>

\* It is executed.
Execute ==
    /\ At("call")
    /\ sender' = name[caller]
    /\ args' = [i \in DOMAIN params |-> name[params[i]]]
    /\ pc' = "body"
    /\ UNCHANGED <<status, lits, lit, inits, role, data, clock, network, name>>

NNext ==
    \/ LearnLiteral \/ Deploy \/ Construct
    \/ SetHolder \/ WriteBook \/ EndCall
    \/ SameStep
    \/ Audit \/ NextTransaction \/ Execute

NSpec == NInit /\ [][NNext]_nvars
=============================================================================
