------------------------------ MODULE EtherFlow ------------------------------
(***************************************************************************)
(* Ether in a generated model: the balance that every contract keeps, and  *)
(* the code that moves value between balances.                             *)
(*                                                                         *)
(*  - a transaction and an external call pass a value and paid = 1; the    *)
(*    value of a call is taken from the caller by sol_pay;                 *)
(*  - the first block of a payable function (its first modifier, or its    *)
(*    body) adds the value to the balance if paid = 1;                     *)
(*  - internal calls, the next modifier, and constructors get paid = 0;    *)
(*  - send and transfer debit the sender, and run the fallback of the      *)
(*    recipient, which may call and send again.                            *)
(*                                                                         *)
(* The frames of the C stack are explicit, so that calls nest and re-enter.*)
(***************************************************************************)
EXTENDS Integers, Sequences, FiniteSets, Functions

CONSTANTS
    Contracts,        \* addresses of the contracts of the bundle
    Receivers,        \* contracts whose fallback is payable
    Programs,         \* kinds of programs and options to explore
    MaxMods,          \* bound on the modifiers of a function
    MaxDepth,         \* bound on the C stack
    MaxValue,         \* bound on the value of one payment
    MaxIn,            \* bound on the ether that transactions bring in
    Modulus           \* 2^256 in the code

ASSUME EtherAssumption ==
    /\ Contracts \subseteq Nat \ {0} /\ IsFiniteSet(Contracts)
    /\ Receivers \subseteq Contracts
    /\ Programs \subseteq SUBSET {"send", "paid_ctor", "allow_fallbacks"}
    /\ MaxMods \in Nat
    /\ MaxDepth \in Nat
    /\ MaxValue \in Nat
    /\ MaxIn \in Nat
    /\ Modulus \in Nat \ {0}

VARIABLES
    program,   \* fixed when the model is generated: "send" if some function
               \* calls send or transfer, "paid_ctor" if constructors are
               \* payable, "allow_fallbacks" for the option of that name
    status,    \* "run", "pruned" by a require, or "failed" by an assert
    live,      \* contracts that run_model has constructed
    balance,   \* self->model_balance of each contract
    stack,     \* C frames, the running one last
    moved      \* ether paid by transactions (in) and sent to clients (out)

vars == <<program, status, live, balance, stack, moved>>

PaidCtor == "paid_ctor" \in program

ZeroAddress == 0

Client == -1      \* any address that is neither zero nor a contract

Amounts == 0 .. MaxValue

Top == stack[Len(stack)]

Below == SubSeq(stack, 1, Len(stack) - 1)

Running == status = "run" /\ stack /= <<>>

Prune == status' = "pruned" /\ UNCHANGED <<live, balance, stack, moved>>

Fail == status' = "failed" /\ UNCHANGED <<live, balance, stack, moved>>

\* balance += n and balance -= n, in unsigned arithmetic.
Credit(b, c, n) == [b EXCEPT ![c] = (@ + n) % Modulus]

Debit(b, c, n) == [b EXCEPT ![c] = (@ + Modulus - n) % Modulus]

\* A block of a function: its layer-th modifier, or its body if layer = mods.
Block(c, payable, value, paid, mods, layer) ==
    [kind |-> "block", self |-> c, payable |-> payable, value |-> value,
     paid |-> paid, mods |-> mods, layer |-> layer, at |-> "enter"]

Payment(c, dst, amt, nothrow) ==
    [kind |-> "payment", self |-> c, dst |-> dst, amt |-> amt,
     nothrow |-> nothrow, before |-> balance[c], at |-> "debit"]

Init ==
    /\ program \in Programs
    /\ status = "run"
    /\ live = {}
    /\ balance \in [Contracts -> {0, Modulus - 1}]   \* uninitialised memory
    /\ stack = <<>>
    /\ moved = [in |-> 0, out |-> 0]
-----------------------------------------------------------------------------
(***************************************************************************)
(* run_model.                                                              *)
(***************************************************************************)

\* The initializer of a contract sets its balance to zero and then calls the
\* constructor as an internal call.
Construct ==
    /\ status = "run"
    /\ stack = <<>>
    /\ live /= Contracts
    /\ LET c == CHOOSE d \in Contracts \ live : \A e \in Contracts \ live : d <= e
       IN  \E v \in IF PaidCtor THEN Amounts ELSE {0}, m \in 0 .. MaxMods :
              /\ moved.in + v <= MaxIn
              /\ moved' = [moved EXCEPT !.in = @ + v]
              /\ balance' = [balance EXCEPT ![c] = 0]
              /\ live' = live \cup {c}
              /\ stack' = <<Block(c, PaidCtor, v, 0, m, 0)>>
    /\ UNCHANGED status

\* One case of the transaction loop: only payable functions get a value.
Transaction ==
    /\ status = "run"
    /\ stack = <<>>
    /\ live = Contracts
    /\ \E c \in Contracts, payable \in BOOLEAN, m \in 0 .. MaxMods :
          \E v \in IF payable THEN Amounts ELSE {0} :
              /\ moved.in + v <= MaxIn
              /\ moved' = [moved EXCEPT !.in = @ + v]
              /\ stack' = <<Block(c, payable, v, 1, m, 0)>>
    /\ UNCHANGED <<status, live, balance>>
-----------------------------------------------------------------------------
(***************************************************************************)
(* Blocks of a function.                                                   *)
(***************************************************************************)
AtBlock(l) == Running /\ Top.kind = "block" /\ Top.at = l

InBody == AtBlock("run") /\ Top.layer = Top.mods

HasRoom == Len(stack) < MaxDepth

\* Mutant: the value is handled by the body, to which modifiers pass paid = 0.
EnterBlock_body ==
    /\ AtBlock("enter")
    /\ balance' = IF Top.payable /\ Top.layer = Top.mods /\ Top.paid = 1
                  THEN Credit(balance, Top.self, Top.value)
                  ELSE balance
    /\ stack' = [stack EXCEPT ![Len(stack)].at = "run"]
    /\ UNCHANGED <<status, live, moved>>

\* add_value_handler, in the first block of the function only.
EnterBlock ==
    /\ AtBlock("enter")
    /\ balance' = IF Top.payable /\ Top.layer = 0 /\ Top.paid = 1
                  THEN Credit(balance, Top.self, Top.value)
                  ELSE balance
    /\ stack' = [stack EXCEPT ![Len(stack)].at = "run"]
    /\ UNCHANGED <<status, live, moved>>

\* The statement _; of a modifier calls the next block.
Placeholder ==
    /\ AtBlock("run")
    /\ Top.layer < Top.mods
    /\ HasRoom
    /\ stack' = Append(stack, Block(Top.self, Top.payable, Top.value, 0,
                                    Top.mods, Top.layer + 1))
    /\ UNCHANGED <<status, live, balance, moved>>

\* A call of a function of the same contract keeps msg.value.
InternalCall ==
    /\ InBody
    /\ HasRoom
    /\ \E payable \in BOOLEAN, m \in 0 .. MaxMods :
          stack' = Append(stack, Block(Top.self, payable, Top.value, 0, m, 0))
    /\ UNCHANGED <<status, live, balance, moved>>

\* An external call pays its value through sol_pay.
ExternalCall ==
    /\ InBody
    /\ HasRoom
    /\ \E c \in live, payable \in BOOLEAN, m \in 0 .. MaxMods :
          \E v \in IF payable THEN Amounts ELSE {0} :
             IF balance[Top.self] >= v
             THEN /\ balance' = Debit(balance, Top.self, v)
                  /\ stack' = Append(stack, Block(c, payable, v, 1, m, 0))
                  /\ UNCHANGED <<status, live, moved>>
             ELSE Prune

\* A require of the user fails.
RequireFails == InBody /\ Prune

Return ==
    /\ AtBlock("run")
    /\ stack' = Below
    /\ UNCHANGED <<status, live, balance, moved>>
-----------------------------------------------------------------------------
(***************************************************************************)
(* sol_send and sol_transfer.                                              *)
(***************************************************************************)
Pay ==
    /\ "send" \in program
    /\ InBody
    /\ Len(stack) + 1 < MaxDepth      \* room for the fallback, too
    /\ \E dst \in live \cup {ZeroAddress, Client}, amt \in Amounts, nothrow \in BOOLEAN :
          stack' = Append(stack, Payment(Top.self, dst, amt, nothrow))
    /\ UNCHANGED <<status, live, balance, moved>>

AtPayment(l) == Running /\ Top.kind = "payment" /\ Top.at = l

\* The payment returns; transfer requires that it returns true.
Finish(b, ok) ==
    IF ok \/ Top.nothrow
    THEN /\ stack' = Below
         /\ balance' = b
         /\ moved' = IF ok /\ Top.dst = Client THEN [moved EXCEPT !.out = @ + Top.amt] ELSE moved
         /\ UNCHANGED <<status, live>>
    ELSE Prune

\* Mutant: the balance is not tested.
DebitSender_unchecked ==
    /\ AtPayment("debit")
    /\ balance' = Debit(balance, Top.self, Top.amt)
    /\ stack' = [stack EXCEPT ![Len(stack)].at = "dispatch"]
    /\ UNCHANGED <<status, live, moved>>

DebitSender ==
    /\ AtPayment("debit")
    /\ IF balance[Top.self] < Top.amt
       THEN Finish(balance, FALSE)
       ELSE /\ balance' = Debit(balance, Top.self, Top.amt)
            /\ stack' = [stack EXCEPT ![Len(stack)].at = "dispatch"]
            /\ UNCHANGED <<status, live, moved>>

\* The zero address and contracts without a payable fallback refuse.
Refuse ==
    /\ AtPayment("dispatch")
    /\ Top.dst \in {ZeroAddress} \cup (Contracts \ Receivers)
    /\ Finish(balance, FALSE)

\* A fallback that the analysis did not allow is an error of the model.
FallbackNotAllowed ==
    /\ AtPayment("dispatch")
    /\ Top.dst \in Receivers
    /\ "allow_fallbacks" \notin program
    /\ Fail

\* The fallback is an external call, whose value is paid through sol_pay.
CallFallback ==
    /\ AtPayment("dispatch")
    /\ Top.dst \in Receivers
    /\ "allow_fallbacks" \in program
    /\ IF balance[Top.self] >= Top.amt
       THEN /\ balance' = Debit(balance, Top.self, Top.amt)
            /\ stack' = Append([stack EXCEPT ![Len(stack)].at = "return"],
                               Block(Top.dst, TRUE, Top.amt, 1, 0, 0))
            /\ UNCHANGED <<status, live, moved>>
       ELSE Prune

\* Nobody refused: the result is any byte, also after a fallback has run.
Respond ==
    /\ AtPayment("return") \/ (AtPayment("dispatch") /\ Top.dst = Client)
    /\ \E ok \in BOOLEAN : Finish(balance, ok)

\* The path has ended.
Ended == status /= "run" /\ UNCHANGED <<status, live, balance, stack, moved>>

Next ==
    /\ UNCHANGED program
    /\ \/ Construct \/ Transaction
       \/ EnterBlock \/ Placeholder \/ InternalCall \/ ExternalCall
       \/ RequireFails \/ Return
       \/ Pay \/ DebitSender \/ Refuse \/ FallbackNotAllowed \/ CallFallback \/ Respond
       \/ Ended

Spec == Init /\ [][Next]_vars
-----------------------------------------------------------------------------
(***************************************************************************)
(* Properties.                                                             *)
(***************************************************************************)

TotalBalance == FoldFunctionOnSet(+, 0, balance, live)

\* Value that has left its payer and is about to be credited.
Incoming(f) ==
    IF f.kind = "block" /\ f.at = "enter" /\ f.payable /\ f.layer = 0 /\ f.paid = 1
    THEN f.value ELSE 0

InFlight == FoldFunctionOnSet(+, 0, [i \in DOMAIN stack |-> Incoming(stack[i])], DOMAIN stack)

\* As long as nothing is sent and constructors are free, the ether that the
\* transactions brought in is exactly in the balances or on its way there:
\* every payable call is credited once, however many modifiers it has, and a
\* function that is called internally is not credited again.
EtherConserved ==
    program \cap {"send", "paid_ctor"} = {} =>
        (TotalBalance + InFlight) % Modulus = moved.in % Modulus

\* Nobody is ever credited with more than what was brought in and not sent
\* away, also if fallbacks send, call and re-enter in any order.
NoEtherFromNothing == TotalBalance + InFlight + moved.out <= moved.in

\* A payment to the fallback of a contract takes the amount from the sender
\* once.
FallbackPaidOnce ==
    [][(AtPayment("dispatch") /\ Len(stack') > Len(stack))
          => balance'[Top.self] = Top.before - Top.amt]_vars
=============================================================================
