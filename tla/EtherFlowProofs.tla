-------------------------- MODULE EtherFlowProofs --------------------------
(***************************************************************************)
(* Proofs about EtherFlow, for every number of contracts, modifiers and    *)
(* frames and for every modulus.                                           *)
(*                                                                         *)
(* Neither EtherConserved nor NoEtherFromNothing is inductive.  The first  *)
(* needs that a program that cannot send has no payment on its stack.  The *)
(* second needs the amounts that payments have debited and not yet handed  *)
(* over (Pending): only they can pay for what Respond adds to moved.out.   *)
(***************************************************************************)
EXTENDS EtherFlow, ArithmeticLemmas, SequenceTheorems, TLAPS

\* The frames that a stack may hold while the contracts of l are constructed.
BlockFrame(l) ==
    [kind : {"block"}, self : l, payable : BOOLEAN, value : Nat, paid : {0, 1},
     mods : Nat, layer : Nat, at : {"enter", "run"}]

PaymentFrame(l) ==
    [kind : {"payment"}, self : l, dst : l \cup {ZeroAddress, Client}, amt : Nat,
     nothrow : BOOLEAN, before : Nat, at : {"debit", "dispatch", "return"}]

Frame(l) == BlockFrame(l) \cup PaymentFrame(l)

\* The type of the state: among other things, every frame runs in a contract
\* that has been constructed, and balances are numbers below the modulus.
EtherType ==
    /\ live \subseteq Contracts
    /\ balance \in [Contracts -> 0 .. (Modulus - 1)]
    /\ stack \in Seq(Frame(live))
    /\ moved \in [in : Nat, out : Nat]

\* What a payment has taken from its sender and not yet handed over.
Pending(f) == IF f.kind = "payment" /\ f.at /= "debit" THEN f.amt ELSE 0

InFlightOf(s) == SumOn([i \in DOMAIN s |-> Incoming(s[i])], DOMAIN s)

PendingOf(s) == SumOn([i \in DOMAIN s |-> Pending(s[i])], DOMAIN s)

\* Balances, the value on its way to a contract, the value on its way out and
\* the ether sent away are covered by what the transactions brought in.
Covered == SumOn(balance, live) + InFlightOf(stack) + PendingOf(stack) + moved.out <= moved.in

\* Without sends and paid constructors there are no payments, and every value
\* is accounted for.
Closed ==
    program \cap {"send", "paid_ctor"} = {} =>
        /\ \A i \in DOMAIN stack : stack[i].kind = "block"
        /\ (SumOn(balance, live) + InFlightOf(stack)) % Modulus = moved.in % Modulus

EtherInv == EtherType /\ Covered /\ Closed
-----------------------------------------------------------------------------
(***************************************************************************)
(* Sums over the stack.                                                    *)
(***************************************************************************)

\* A sum over 1 .. n+1 ends with its last term.
LEMMA SumLast ==
    ASSUME NEW n \in Nat, NEW f, NEW g, \A i \in 1 .. n : f[i] \in Int /\ g[i] = f[i],
           g[n + 1] \in Int
    PROVE  SumOn(g, 1 .. (n + 1)) = SumOn(f, 1 .. n) + g[n + 1]
<1> DEFINE S == 1 .. n
           R == 1 .. (n + 1)
           a == n + 1
<1>1. IsFiniteSet(S)
  BY FS_Interval
<1>2. a \notin S /\ R = S \cup {a}
  OBVIOUS
<1>3. (\A x \in S : f[x] \in Int /\ g[x] \in Int /\ g[x] = f[x]) /\ g[a] \in Int
  OBVIOUS
<1> HIDE DEF S, R, a
<1>4. SumOn(g, S) = SumOn(f, S) /\ SumOn(f, S) \in Int
  BY <1>1, <1>3, SumExt, SumType
<1>5. SumOn(g, S \cup {a}) = g[a] + SumOn(g, S)
  BY <1>1, <1>2, <1>3, SumAdd
<1>6. SumOn(g, R) = SumOn(f, S) + g[a]
  BY <1>2, <1>3, <1>4, <1>5
<1> QED
  BY <1>6 DEF S, R, a

\* What a frame still brings in and still has to take out are amounts.
LEMMA TermsAreNumbers ==
    ASSUME NEW l, NEW f \in Frame(l)
    PROVE  Incoming(f) \in Nat /\ Pending(f) \in Nat
  BY DEF Incoming, Pending, Frame, BlockFrame, PaymentFrame

\* A new frame adds its terms to the sums over the stack.
LEMMA Pushed ==
    ASSUME NEW l, NEW s \in Seq(Frame(l)), NEW f \in Frame(l)
    PROVE  /\ InFlightOf(Append(s, f)) = InFlightOf(s) + Incoming(f)
           /\ PendingOf(Append(s, f)) = PendingOf(s) + Pending(f)
           /\ InFlightOf(s) \in Int
           /\ PendingOf(s) \in Int
<1> DEFINE n == Len(s)
           t == Append(s, f)
<1>1. /\ n \in Nat /\ DOMAIN s = 1 .. n /\ DOMAIN t = 1 .. (n + 1) /\ t[n + 1] = f
      /\ \A i \in 1 .. n : t[i] = s[i] /\ s[i] \in Frame(l)
  OBVIOUS
<1>2. IsFiniteSet(1 .. n)
  BY <1>1, FS_Interval
<1> HIDE DEF n, t
<1>3. InFlightOf(t) = InFlightOf(s) + Incoming(f) /\ InFlightOf(s) \in Int
  <2> DEFINE F == [i \in DOMAIN s |-> Incoming(s[i])]
             G == [i \in DOMAIN t |-> Incoming(t[i])]
  <2>1. (\A i \in 1 .. n : F[i] \in Int /\ G[i] = F[i]) /\ G[n + 1] \in Int /\ G[n + 1] = Incoming(f)
    BY <1>1, TermsAreNumbers
  <2>2. InFlightOf(t) = SumOn(G, 1 .. (n + 1)) /\ InFlightOf(s) = SumOn(F, 1 .. n)
    BY <1>1 DEF InFlightOf
  <2> HIDE DEF F, G
  <2>3. SumOn(G, 1 .. (n + 1)) = SumOn(F, 1 .. n) + G[n + 1]
    BY <1>1, <2>1, SumLast
  <2>4. SumOn(F, 1 .. n) \in Int
    BY <1>2, <2>1, SumType
  <2> QED
    BY <2>1, <2>2, <2>3, <2>4
<1>4. PendingOf(t) = PendingOf(s) + Pending(f) /\ PendingOf(s) \in Int
  <2> DEFINE F == [i \in DOMAIN s |-> Pending(s[i])]
             G == [i \in DOMAIN t |-> Pending(t[i])]
  <2>1. (\A i \in 1 .. n : F[i] \in Int /\ G[i] = F[i]) /\ G[n + 1] \in Int /\ G[n + 1] = Pending(f)
    BY <1>1, TermsAreNumbers
  <2>2. PendingOf(t) = SumOn(G, 1 .. (n + 1)) /\ PendingOf(s) = SumOn(F, 1 .. n)
    BY <1>1 DEF PendingOf
  <2> HIDE DEF F, G
  <2>3. SumOn(G, 1 .. (n + 1)) = SumOn(F, 1 .. n) + G[n + 1]
    BY <1>1, <2>1, SumLast
  <2>4. SumOn(F, 1 .. n) \in Int
    BY <1>2, <2>1, SumType
  <2> QED
    BY <2>1, <2>2, <2>3, <2>4
<1> QED
  BY <1>3, <1>4 DEF t

\* Without its top, a stack has the sums without the terms of the top.
LEMMA Popped ==
    ASSUME NEW l, NEW s \in Seq(Frame(l)), s /= <<>>
    PROVE  LET b == SubSeq(s, 1, Len(s) - 1)
           IN  /\ b \in Seq(Frame(l))
               /\ s = Append(b, s[Len(s)])
               /\ s[Len(s)] \in Frame(l)
               /\ InFlightOf(b) = InFlightOf(s) - Incoming(s[Len(s)])
               /\ PendingOf(b) = PendingOf(s) - Pending(s[Len(s)])
<1> DEFINE b == SubSeq(s, 1, Len(s) - 1)
           f == s[Len(s)]
<1>1. b \in Seq(Frame(l)) /\ f \in Frame(l) /\ s = Append(b, f)
  OBVIOUS
<1> HIDE DEF b, f
<1>2. Incoming(f) \in Nat /\ Pending(f) \in Nat
  BY <1>1, TermsAreNumbers
<1>3. InFlightOf(b) = InFlightOf(s) - Incoming(f) /\ PendingOf(b) = PendingOf(s) - Pending(f)
  BY <1>1, <1>2, Pushed
<1> QED
  BY <1>1, <1>3 DEF b, f

\* A new top exchanges the terms of the old one.
LEMMA Replaced ==
    ASSUME NEW l, NEW s \in Seq(Frame(l)), s /= <<>>, NEW f \in Frame(l)
    PROVE  LET t == [s EXCEPT ![Len(s)] = f]
           IN  /\ t \in Seq(Frame(l))
               /\ InFlightOf(t) = InFlightOf(s) - Incoming(s[Len(s)]) + Incoming(f)
               /\ PendingOf(t) = PendingOf(s) - Pending(s[Len(s)]) + Pending(f)
<1> DEFINE b == SubSeq(s, 1, Len(s) - 1)
           t == [s EXCEPT ![Len(s)] = f]
<1>1. t \in Seq(Frame(l)) /\ Len(t) = Len(s) /\ Len(s) \in Nat \ {0}
  OBVIOUS
<1>2. /\ b \in Seq(Frame(l)) /\ s = Append(b, s[Len(s)])
      /\ InFlightOf(b) = InFlightOf(s) - Incoming(s[Len(s)])
      /\ PendingOf(b) = PendingOf(s) - Pending(s[Len(s)])
  BY Popped
<1>3. t = Append(b, f)
  <2>1. \A i \in 1 .. Len(t) : t[i] = Append(b, f)[i]
    OBVIOUS
  <2> HIDE DEF b, t
  <2>2. Len(b) = Len(s) - 1
    BY <1>2
  <2>3. Append(b, f) \in Seq(Frame(l)) /\ Len(Append(b, f)) = Len(t)
    BY <1>1, <1>2, <2>2
  <2>4. ASSUME NEW u \in Seq(Frame(l)), NEW w \in Seq(Frame(l)), Len(u) = Len(w),
               \A i \in 1 .. Len(u) : u[i] = w[i]
        PROVE  u = w
    BY <2>4, SeqEqual
  <2> QED
    BY <1>1, <2>1, <2>3, <2>4
<1> HIDE DEF b, t
<1>4. /\ InFlightOf(t) = InFlightOf(b) + Incoming(f)
      /\ PendingOf(t) = PendingOf(b) + Pending(f)
  BY <1>2, <1>3, Pushed
<1> QED
  BY <1>1, <1>2, <1>4 DEF t

\* Nothing is under way on an empty stack.
LEMMA EmptyStack == InFlightOf(<<>>) = 0 /\ PendingOf(<<>>) = 0
<1>1. DOMAIN <<>> = {}
  OBVIOUS
<1> QED
  BY <1>1, SumEmpty DEF InFlightOf, PendingOf

\* The sums over a stack are numbers.
LEMMA StackSums ==
    ASSUME NEW l, NEW s \in Seq(Frame(l))
    PROVE  InFlightOf(s) \in Int /\ PendingOf(s) \in Int
<1>1. CASE s = <<>>
  BY <1>1, EmptyStack
<1>2. CASE s /= <<>>
  BY <1>2, Popped, Pushed
<1> QED
  BY <1>1, <1>2
\* No stack has a negative amount to take out.
LEMMA PendingNotNegative ==
    ASSUME NEW l, NEW s \in Seq(Frame(l))
    PROVE  PendingOf(s) >= 0
<1> DEFINE F == [i \in DOMAIN s |-> Pending(s[i])]
           S == DOMAIN s
<1>1. IsFiniteSet(S)
  BY FS_Interval
<1>2. \A i \in S : F[i] \in Nat
  BY TermsAreNumbers
<1>3. PendingOf(s) = SumOn(F, S)
  BY DEF PendingOf
<1> HIDE DEF F, S
<1> QED
  BY <1>1, <1>2, <1>3, SumNat
-----------------------------------------------------------------------------
(***************************************************************************)
(* Sums over the balances.                                                 *)
(***************************************************************************)
LEMMA LiveSums ==
    ASSUME NEW l \in SUBSET Contracts, NEW b \in [Contracts -> 0 .. (Modulus - 1)]
    PROVE  /\ IsFiniteSet(l)
           /\ Modulus \in Nat \ {0}
           /\ \A c \in l : c \in Contracts /\ b[c] \in 0 .. (Modulus - 1)
           /\ SumOn(b, l) \in Int
<1>1. IsFiniteSet(l) /\ Modulus \in Nat \ {0}
  BY EtherAssumption, FS_Subset
<1>2. \A c \in l : c \in Contracts /\ b[c] \in 0 .. (Modulus - 1)
  OBVIOUS
<1>3. SumOn(b, l) \in Int
  BY <1>1, <1>2, SumType
<1> QED
  BY <1>1, <1>2, <1>3

\* A balance that changes changes the sum.
LEMMA BalanceChange ==
    ASSUME EtherType, NEW c \in live, NEW n \in 0 .. (Modulus - 1)
    PROVE  /\ [balance EXCEPT ![c] = n] \in [Contracts -> 0 .. (Modulus - 1)]
           /\ SumOn([balance EXCEPT ![c] = n], live) = SumOn(balance, live) - balance[c] + n
<1> DEFINE b == [balance EXCEPT ![c] = n]
<1>1. b \in [Contracts -> 0 .. (Modulus - 1)]
  BY DEF EtherType
<1>2. /\ b[c] = n
      /\ \A x \in live : balance[x] \in Int /\ b[x] \in Int
      /\ \A x \in live : x /= c => balance[x] = b[x]
  BY LiveSums DEF EtherType
<1> HIDE DEF b
<1>3. SumOn(b, live) = SumOn(balance, live) - balance[c] + b[c]
  <2>1. ASSUME NEW S, IsFiniteSet(S), NEW f, NEW g, NEW a \in S,
               \A x \in S : f[x] \in Int /\ g[x] \in Int,
               \A x \in S : x /= a => f[x] = g[x]
        PROVE  SumOn(g, S) = SumOn(f, S) - f[a] + g[a]
    BY <2>1, SumChange
  <2>2. IsFiniteSet(live)
    BY LiveSums DEF EtherType
  <2> QED
    BY <1>2, <2>1, <2>2
<1> QED
  BY <1>1, <1>2, <1>3 DEF b

\* A credit adds the value up to a multiple of the modulus, and never more.
LEMMA CreditTotal ==
    ASSUME EtherType, NEW c \in live, NEW v \in Nat
    PROVE  LET b == Credit(balance, c, v)
           IN  /\ b \in [Contracts -> 0 .. (Modulus - 1)]
               /\ SumOn(b, live) \in Int
               /\ SumOn(b, live) <= SumOn(balance, live) + v
               /\ \A k \in Int : (SumOn(b, live) + k) % Modulus = (SumOn(balance, live) + v + k) % Modulus
<1> DEFINE b == Credit(balance, c, v)
           o == balance[c]
           n == (o + v) % Modulus
           T == SumOn(balance, live)
<1>1. o \in Nat /\ T \in Int /\ Modulus \in Nat \ {0}
  <2>1. live \in SUBSET Contracts /\ balance \in [Contracts -> 0 .. (Modulus - 1)]
    BY DEF EtherType
  <2> QED
    BY <2>1, LiveSums
<1>2. n \in 0 .. (Modulus - 1) /\ n <= o + v
  BY <1>1
<1>3. b = [balance EXCEPT ![c] = n]
  BY DEF Credit
<1> HIDE DEF n, T, b
<1>4. b \in [Contracts -> 0 .. (Modulus - 1)] /\ SumOn(b, live) = T - o + n
  BY <1>2, <1>3, BalanceChange DEF T
<1>5. SumOn(b, live) \in Int /\ SumOn(b, live) <= T + v
  BY <1>1, <1>2, <1>4
<1>6. ASSUME NEW k \in Int
      PROVE  (SumOn(b, live) + k) % Modulus = (T + v + k) % Modulus
  <2>1. o + v \in Int /\ T - o + k \in Int
    BY <1>1
  <2>2. (n + (T - o + k)) % Modulus = ((o + v) + (T - o + k)) % Modulus
    BY <1>1, <2>1, ModAdd DEF n
  <2>3. n + (T - o + k) = SumOn(b, live) + k /\ (o + v) + (T - o + k) = T + v + k
    BY <1>1, <1>2, <1>4
  <2> QED
    BY <2>2, <2>3
<1> QED
  BY <1>4, <1>5, <1>6 DEF b, T

\* A debit of what the balance covers takes exactly the value.
LEMMA DebitTotal ==
    ASSUME EtherType, NEW c \in live, NEW v \in Nat, v <= balance[c]
    PROVE  LET b == Debit(balance, c, v)
           IN  /\ b \in [Contracts -> 0 .. (Modulus - 1)]
               /\ SumOn(b, live) = SumOn(balance, live) - v
<1> DEFINE o == balance[c]
           n == (o + Modulus - v) % Modulus
           T == SumOn(balance, live)
<1>1. o \in 0 .. (Modulus - 1) /\ T \in Int /\ Modulus \in Nat \ {0}
  BY LiveSums DEF EtherType
<1>2. n = o - v /\ n \in 0 .. (Modulus - 1)
  <2>1. o - v \in 0 .. (Modulus - 1) /\ o - v \in Int
    BY <1>1
  <2>2. (o - v + Modulus) % Modulus = (o - v) % Modulus
    BY <1>1, <2>1, ModPlus
  <2>3. (o - v) % Modulus = o - v
    BY <1>1, <2>1, ModSmall
  <2>4. o - v + Modulus = o + Modulus - v
    BY <1>1
  <2> QED
    BY <2>1, <2>2, <2>3, <2>4
<1>3. Debit(balance, c, v) = [balance EXCEPT ![c] = n]
  BY DEF Debit
<1> HIDE DEF n, T, o
<1>4. /\ [balance EXCEPT ![c] = n] \in [Contracts -> 0 .. (Modulus - 1)]
      /\ SumOn([balance EXCEPT ![c] = n], live) = T - o + n
  BY <1>2, BalanceChange DEF T, o
<1>5. T - o + n = T - v
  BY <1>1, <1>2
<1> QED
  BY <1>3, <1>4, <1>5 DEF T
-----------------------------------------------------------------------------
(***************************************************************************)
(* The invariant.                                                          *)
(***************************************************************************)

\* What EtherInv says of the sums.
LEMMA Sums ==
    ASSUME EtherInv
    PROVE  /\ SumOn(balance, live) \in Int /\ InFlightOf(stack) \in Int /\ PendingOf(stack) \in Int
           /\ moved.in \in Int /\ moved.out \in Int /\ Modulus \in Nat \ {0}
<1>1. EtherType
  BY DEF EtherInv
<1>2. live \in SUBSET Contracts /\ balance \in [Contracts -> 0 .. (Modulus - 1)]
      /\ stack \in Seq(Frame(live)) /\ moved \in [in : Nat, out : Nat]
  BY <1>1 DEF EtherType
<1>3. SumOn(balance, live) \in Int /\ Modulus \in Nat \ {0}
  BY <1>2, LiveSums
<1>4. InFlightOf(stack) \in Int /\ PendingOf(stack) \in Int
  BY <1>2, StackSums
<1>5. moved.in \in Int /\ moved.out \in Int
  BY <1>2
<1> QED
  BY <1>3, <1>4, <1>5

\* A step that moves value without making any keeps the invariant.
LEMMA Moves ==
    ASSUME EtherInv, EtherType', program' = program,
           SumOn(balance, live)' + InFlightOf(stack)' + PendingOf(stack)' + moved.out' - moved.in'
              <= SumOn(balance, live) + InFlightOf(stack) + PendingOf(stack) + moved.out - moved.in,
           program \cap {"send", "paid_ctor"} = {} =>
              /\ \A i \in DOMAIN stack' : stack'[i].kind = "block"
              /\ (SumOn(balance, live)' + InFlightOf(stack)') % Modulus = moved.in' % Modulus
    PROVE  EtherInv'
<1>1. ASSUME NEW l \in SUBSET Contracts, NEW b \in [Contracts -> 0 .. (Modulus - 1)],
             NEW s \in Seq(Frame(l))
      PROVE  SumOn(b, l) \in Int /\ InFlightOf(s) \in Int /\ PendingOf(s) \in Int
  BY LiveSums, StackSums
<1>2. /\ SumOn(balance, live)' \in Int /\ InFlightOf(stack)' \in Int /\ PendingOf(stack)' \in Int
      /\ moved.out' \in Int /\ moved.in' \in Int
  BY <1>1 DEF EtherType
<1>3. Covered'
  BY <1>2, Sums DEF EtherInv, Covered
<1> QED
  BY <1>3 DEF EtherInv, Closed

\* A frame that carries no value is pushed: the next modifier, an internal
\* call, or a payment that has not been debited.
LEMMA PushStep ==
    ASSUME EtherInv, UNCHANGED <<program, live, balance, moved>>,
           NEW f \in Frame(live), stack' = Append(stack, f),
           Incoming(f) = 0, Pending(f) = 0,
           f.kind = "block" \/ "send" \in program
    PROVE  EtherInv'
<1>1. EtherType
  BY DEF EtherInv
<1>2. stack \in Seq(Frame(live)) /\ stack' \in Seq(Frame(live))
  BY <1>1 DEF EtherType
<1>3. EtherType'
  BY <1>1, <1>2 DEF EtherType
<1>4. InFlightOf(stack') = InFlightOf(stack) /\ PendingOf(stack') = PendingOf(stack)
  <2>1. /\ InFlightOf(stack') = InFlightOf(stack) + 0
        /\ PendingOf(stack') = PendingOf(stack) + 0
    BY <1>2, Pushed
  <2> QED
    BY <2>1, Sums
<1>5. ASSUME program \cap {"send", "paid_ctor"} = {}
      PROVE  \A i \in DOMAIN stack' : stack'[i].kind = "block"
  <2>1. \A i \in DOMAIN stack : stack[i].kind = "block"
    BY <1>5 DEF EtherInv, Closed
  <2> QED
    BY <1>2, <1>5, <2>1
<1> QED
  BY <1>3, <1>4, <1>5, Moves, Sums DEF EtherInv, Closed

\* The running frame returns.
LEMMA PopStep ==
    ASSUME EtherInv, UNCHANGED <<program, live, balance>>,
           stack /= <<>>, stack' = Below, Incoming(Top) = 0,
           moved' \in [in : Nat, out : Nat], moved'.in = moved.in,
           moved'.out <= moved.out + Pending(Top)
    PROVE  EtherInv'
<1>1. EtherType
  BY DEF EtherInv
<1>2. stack \in Seq(Frame(live))
  BY <1>1 DEF EtherType
<1>3. /\ Below \in Seq(Frame(live)) /\ Top \in Frame(live)
      /\ InFlightOf(Below) = InFlightOf(stack) - Incoming(Top)
      /\ PendingOf(Below) = PendingOf(stack) - Pending(Top)
  BY <1>2, Popped DEF Below, Top
<1>4. EtherType'
  BY <1>1, <1>3 DEF EtherType
<1>5. InFlightOf(stack') = InFlightOf(stack) /\ PendingOf(stack') = PendingOf(stack) - Pending(Top)
  BY <1>3, Sums
<1>6. Pending(Top) \in Nat /\ moved'.out \in Int
  BY <1>3, TermsAreNumbers
<1>7. ASSUME program \cap {"send", "paid_ctor"} = {}
      PROVE  \A i \in DOMAIN stack' : stack'[i].kind = "block"
  <2>1. \A i \in DOMAIN stack : stack[i].kind = "block"
    BY <1>7 DEF EtherInv, Closed
  <2> QED
    BY <1>2, <2>1 DEF Below
<1>8. SumOn(balance, live)' + InFlightOf(stack)' + PendingOf(stack)' + moved.out' - moved.in'
         <= SumOn(balance, live) + InFlightOf(stack) + PendingOf(stack) + moved.out - moved.in
  BY <1>5, <1>6, Sums
<1> QED
  BY <1>4, <1>5, <1>7, <1>8, Moves DEF EtherInv, Closed

\* Only a first block that is called with paid = 1 carries value.
LEMMA UnpaidBlock ==
    ASSUME NEW l, NEW c \in l, NEW payable \in BOOLEAN, NEW v \in Nat, NEW m \in Nat, NEW k \in Nat
    PROVE  LET f == Block(c, payable, v, 0, m, k)
           IN  /\ f \in Frame(l) /\ f.kind = "block"
               /\ Incoming(f) = 0 /\ Pending(f) = 0
  BY DEF Block, Frame, BlockFrame, Incoming, Pending

\* The first block of a call that was paid brings in its value.
LEMMA PaidBlock ==
    ASSUME NEW l, NEW c \in l, NEW payable \in BOOLEAN, NEW v \in Nat, NEW m \in Nat,
           ~ payable => v = 0
    PROVE  LET f == Block(c, payable, v, 1, m, 0)
           IN  /\ f \in Frame(l) /\ f.kind = "block"
               /\ Incoming(f) = v /\ Pending(f) = 0
  BY DEF Block, Frame, BlockFrame, Incoming, Pending

\* A running program has a frame on top, of one of the two kinds.
LEMMA TopTyped ==
    ASSUME EtherInv, Running
    PROVE  /\ stack /= <<>>
           /\ Top \in Frame(live)
           /\ Top.kind = "block" => Top \in BlockFrame(live)
           /\ Top.kind = "payment" => Top \in PaymentFrame(live)
<1>1. stack \in Seq(Frame(live)) /\ stack /= <<>>
  BY DEF EtherInv, EtherType, Running
<1>2. Top \in Frame(live)
  BY <1>1 DEF Top
<1> QED
  BY <1>1, <1>2 DEF Frame, BlockFrame, PaymentFrame

\* A transaction, or a constructor, starts on an empty stack.
LEMMA StartStep ==
    ASSUME EtherInv, stack = <<>>, program' = program, EtherType',
           NEW f \in Frame(live'), f.kind = "block", stack' = <<f>>,
           NEW v \in Nat, moved' = [moved EXCEPT !.in = @ + v],
           Incoming(f) <= v, Pending(f) = 0,
           program \cap {"send", "paid_ctor"} = {} => Incoming(f) = v,
           SumOn(balance, live)' = SumOn(balance, live)
    PROVE  EtherInv'
<1>1. /\ InFlightOf(stack') = Incoming(f) /\ PendingOf(stack') = 0
      /\ InFlightOf(stack) = 0 /\ PendingOf(stack) = 0
      /\ Incoming(f) \in Nat
  <2>1. <<>> \in Seq(Frame(live')) /\ stack' = Append(<<>>, f)
    OBVIOUS
  <2>2. Incoming(f) \in Nat
    BY TermsAreNumbers
  <2>3. /\ InFlightOf(stack') = InFlightOf(<<>>) + Incoming(f)
        /\ PendingOf(stack') = PendingOf(<<>>) + Pending(f)
    <3>1. ASSUME NEW l, NEW s \in Seq(Frame(l)), NEW g \in Frame(l)
          PROVE  /\ InFlightOf(Append(s, g)) = InFlightOf(s) + Incoming(g)
                 /\ PendingOf(Append(s, g)) = PendingOf(s) + Pending(g)
      BY Pushed
    <3> QED
      BY <2>1, <3>1
  <2> QED
    BY <2>2, <2>3, EmptyStack
<1>2. moved \in [in : Nat, out : Nat]
  BY DEF EtherInv, EtherType
<1>3. moved.in' = moved.in + v /\ moved.out' = moved.out
  BY <1>2
<1>4. SumOn(balance, live)' + InFlightOf(stack)' + PendingOf(stack)' + moved.out' - moved.in'
         <= SumOn(balance, live) + InFlightOf(stack) + PendingOf(stack) + moved.out - moved.in
  BY <1>1, <1>3, Sums
<1>5. ASSUME program \cap {"send", "paid_ctor"} = {}
      PROVE  (SumOn(balance, live)' + InFlightOf(stack)') % Modulus = moved.in' % Modulus
  <2> DEFINE T == SumOn(balance, live)
             i == moved.in
  <2>1. T % Modulus = i % Modulus
    <3>1. (T + 0) % Modulus = i % Modulus
      BY <1>1, <1>5 DEF EtherInv, Closed
    <3> QED
      BY <3>1, Sums
  <2>2. T \in Int /\ i \in Int /\ Modulus \in Nat \ {0}
    BY Sums
  <2>3. SumOn(balance, live)' + InFlightOf(stack)' = T + v /\ moved.in' = i + v
    BY <1>1, <1>3, <1>5
  <2> HIDE DEF T, i
  <2>4. ((T % Modulus) + v) % Modulus = (T + v) % Modulus
    BY <2>2, ModAdd
  <2>5. ((i % Modulus) + v) % Modulus = (i + v) % Modulus
    BY <2>2, ModAdd
  <2> QED
    BY <2>1, <2>3, <2>4, <2>5
<1>6. \A i \in DOMAIN stack' : stack'[i].kind = "block"
  OBVIOUS
<1> QED
  BY <1>4, <1>5, <1>6, Moves

\* A constructor keeps the invariant.
LEMMA ConstructStep == ASSUME EtherInv, program' = program, Construct PROVE EtherInv'
<1>1. EtherType
  BY DEF EtherInv
<1>2. PICK c : c = CHOOSE d \in Contracts \ live : \A e \in Contracts \ live : d <= e
  OBVIOUS
<1>3. c \in Contracts \ live
  <2>1. Contracts \ live /= {} /\ Contracts \ live \in SUBSET Nat
    BY <1>1, EtherAssumption DEF Construct, EtherType
  <2> QED
    BY <1>2, <2>1, HasMin
<1>4. PICK v \in IF PaidCtor THEN Amounts ELSE {0}, m \in 0 .. MaxMods :
              /\ moved' = [moved EXCEPT !.in = @ + v]
              /\ balance' = [balance EXCEPT ![c] = 0]
              /\ live' = live \cup {c}
              /\ stack' = <<Block(c, PaidCtor, v, 0, m, 0)>>
  BY <1>2 DEF Construct
<1>5. v \in Nat /\ m \in Nat /\ (~ PaidCtor => v = 0)
  BY EtherAssumption DEF Amounts
<1> DEFINE f == Block(c, PaidCtor, v, 0, m, 0)
<1>6. f \in Frame(live') /\ f.kind = "block" /\ Incoming(f) = 0 /\ Pending(f) = 0
  <2>1. PaidCtor \in BOOLEAN /\ c \in live'
    BY <1>4 DEF PaidCtor
  <2>2. ASSUME NEW l, NEW x \in l, NEW p \in BOOLEAN, NEW w \in Nat, NEW n \in Nat
        PROVE  LET g == Block(x, p, w, 0, n, 0)
               IN  g \in Frame(l) /\ g.kind = "block" /\ Incoming(g) = 0 /\ Pending(g) = 0
    BY UnpaidBlock
  <2> QED
    BY <1>5, <2>1, <2>2
<1> HIDE DEF f
<1>7. EtherType'
  <2>1. stack' \in Seq(Frame(live'))
    BY <1>4, <1>6 DEF f
  <2>2. balance' \in [Contracts -> 0 .. (Modulus - 1)]
    <3>1. 0 \in 0 .. (Modulus - 1)
      BY EtherAssumption
    <3> QED
      BY <1>1, <1>4, <3>1 DEF EtherType
  <2> QED
    BY <1>1, <1>3, <1>4, <1>5, <2>1, <2>2 DEF EtherType
<1>8. SumOn(balance, live)' = SumOn(balance, live)
  <2>1. IsFiniteSet(live) /\ \A x \in live : balance[x] \in Int
    BY <1>1, LiveSums DEF EtherType
  <2>2. balance'[c] = 0 /\ \A x \in live : balance'[x] = balance[x]
    BY <1>1, <1>3, <1>4 DEF EtherType
  <2>3. ASSUME NEW S, IsFiniteSet(S), NEW b, NEW g, NEW a, a \notin S,
               \A x \in S : b[x] \in Int /\ g[x] = b[x], g[a] = 0
        PROVE  SumOn(g, S \cup {a}) = SumOn(b, S)
    <3>1. SumOn(g, S) = SumOn(b, S) /\ SumOn(b, S) \in Int
      BY <2>3, SumExt, SumType
    <3>2. SumOn(g, S \cup {a}) = g[a] + SumOn(g, S)
      BY <2>3, SumAdd
    <3> QED
      BY <2>3, <3>1, <3>2
  <2>4. SumOn(balance', live \cup {c}) = SumOn(balance, live)
    BY <1>3, <2>1, <2>2, <2>3
  <2> QED
    BY <1>4, <2>4
<1>9. program \cap {"send", "paid_ctor"} = {} => Incoming(f) = v
  BY <1>5, <1>6 DEF PaidCtor
<1>10. Incoming(f) <= v
  BY <1>5, <1>6
<1>11. stack = <<>> /\ stack' = <<f>> /\ moved' = [moved EXCEPT !.in = @ + v]
  BY <1>4 DEF Construct, f
<1> QED
  BY <1>5, <1>6, <1>7, <1>8, <1>9, <1>10, <1>11, StartStep

\* The start of a transaction keeps the invariant.
LEMMA TransactionStep == ASSUME EtherInv, program' = program, Transaction PROVE EtherInv'
<1>1. EtherType
  BY DEF EtherInv
<1>2. PICK c \in Contracts, payable \in BOOLEAN, m \in 0 .. MaxMods :
          \E v \in IF payable THEN Amounts ELSE {0} :
              /\ moved' = [moved EXCEPT !.in = @ + v]
              /\ stack' = <<Block(c, payable, v, 1, m, 0)>>
  BY DEF Transaction
<1>3. PICK v \in IF payable THEN Amounts ELSE {0} :
              /\ moved' = [moved EXCEPT !.in = @ + v]
              /\ stack' = <<Block(c, payable, v, 1, m, 0)>>
  BY <1>2
<1>4. v \in Nat /\ m \in Nat /\ (~ payable => v = 0)
  BY EtherAssumption DEF Amounts
<1> DEFINE f == Block(c, payable, v, 1, m, 0)
<1>5. f \in Frame(live') /\ f.kind = "block" /\ Incoming(f) = v /\ Pending(f) = 0
  <2>1. c \in live'
    BY DEF Transaction
  <2> QED
    BY <1>4, <2>1, PaidBlock
<1>6. stack = <<>> /\ stack' = <<f>> /\ live' = live /\ balance' = balance
  BY <1>3 DEF Transaction
<1> HIDE DEF f
<1>7. EtherType'
  <2>1. stack' \in Seq(Frame(live'))
    BY <1>5, <1>6
  <2> QED
    BY <1>1, <1>3, <1>4, <1>6, <2>1 DEF EtherType
<1> QED
  BY <1>3, <1>4, <1>5, <1>6, <1>7, StartStep

\* The value of a payable function is credited to its contract.
LEMMA EnterStep == ASSUME EtherInv, program' = program, EnterBlock PROVE EtherInv'
<1>1. EtherType
  BY DEF EtherInv
<1>2. stack /= <<>> /\ Top \in BlockFrame(live) /\ Top.at = "enter" /\ Top.kind = "block"
  BY TopTyped DEF EnterBlock, AtBlock
<1> DEFINE f == [Top EXCEPT !.at = "run"]
           s == [stack EXCEPT ![Len(stack)] = f]
           v == Incoming(Top)
<1>3. f \in Frame(live) /\ f.kind = "block" /\ Incoming(f) = 0 /\ Pending(f) = 0 /\ Pending(Top) = 0
  BY <1>2 DEF Frame, BlockFrame, Incoming, Pending
<1>4. stack' = s
  BY DEF EnterBlock, Top
<1>5. stack \in Seq(Frame(live))
  BY <1>1 DEF EtherType
<1> HIDE DEF f
<1>6. /\ s \in Seq(Frame(live))
      /\ InFlightOf(s) = InFlightOf(stack) - v + 0
      /\ PendingOf(s) = PendingOf(stack) - 0 + 0
  BY <1>2, <1>3, <1>5, Replaced DEF Top
<1>7. v \in Nat
  BY <1>2, TermsAreNumbers DEF Frame
<1>8. /\ balance' \in [Contracts -> 0 .. (Modulus - 1)]
      /\ SumOn(balance', live) \in Int
      /\ SumOn(balance', live) <= SumOn(balance, live) + v
      /\ \A k \in Int : (SumOn(balance', live) + k) % Modulus = (SumOn(balance, live) + v + k) % Modulus
  <2>1. CASE Top.payable /\ Top.layer = 0 /\ Top.paid = 1
    <3>1. v = Top.value /\ Top.self \in live /\ balance' = Credit(balance, Top.self, v)
      BY <1>2, <2>1 DEF Incoming, EnterBlock, BlockFrame
    <3> HIDE DEF v
    <3> QED
      BY <1>1, <1>7, <3>1, CreditTotal
  <2>2. CASE ~ (Top.payable /\ Top.layer = 0 /\ Top.paid = 1)
    <3>1. v = 0 /\ balance' = balance
      BY <1>2, <2>2 DEF Incoming, EnterBlock
    <3> QED
      BY <1>1, <3>1, Sums DEF EtherType
  <2> QED
    BY <2>1, <2>2
<1> HIDE DEF v, s
<1>9. live' = live /\ moved' = moved
  BY DEF EnterBlock
<1>10. EtherType'
  BY <1>1, <1>4, <1>6, <1>8, <1>9 DEF EtherType
<1>11. InFlightOf(stack') = InFlightOf(stack) - v /\ PendingOf(stack') = PendingOf(stack)
  BY <1>4, <1>6, <1>7, Sums
<1>12. SumOn(balance, live)' + InFlightOf(stack)' + PendingOf(stack)' + moved.out' - moved.in'
         <= SumOn(balance, live) + InFlightOf(stack) + PendingOf(stack) + moved.out - moved.in
  BY <1>7, <1>8, <1>9, <1>11, Sums
<1>13. ASSUME program \cap {"send", "paid_ctor"} = {}
       PROVE  /\ \A i \in DOMAIN stack' : stack'[i].kind = "block"
              /\ (SumOn(balance, live)' + InFlightOf(stack)') % Modulus = moved.in' % Modulus
  <2>1. /\ \A i \in DOMAIN stack : stack[i].kind = "block"
        /\ (SumOn(balance, live) + InFlightOf(stack)) % Modulus = moved.in % Modulus
    BY <1>13 DEF EtherInv, Closed
  <2>2. \A i \in DOMAIN stack' : stack'[i].kind = "block"
    BY <1>3, <1>4, <2>1 DEF s
  <2>3. InFlightOf(stack) - v \in Int
    BY <1>7, Sums
  <2>4. (SumOn(balance', live) + (InFlightOf(stack) - v)) % Modulus
          = (SumOn(balance, live) + v + (InFlightOf(stack) - v)) % Modulus
    BY <1>8, <2>3
  <2>5. SumOn(balance, live) + v + (InFlightOf(stack) - v) = SumOn(balance, live) + InFlightOf(stack)
    BY <1>7, Sums
  <2> QED
    BY <1>9, <1>11, <2>1, <2>2, <2>4, <2>5
<1> QED
  BY <1>10, <1>12, <1>13, Moves

\* The value of an external call is on its way as soon as it is debited.
LEMMA ExternalStep ==
    ASSUME EtherInv, program' = program, NEW c \in live, NEW payable \in BOOLEAN,
           NEW m \in Nat, NEW v \in Nat, ~ payable => v = 0,
           NEW p \in live, balance[p] >= v, balance' = Debit(balance, p, v),
           NEW s \in Seq(Frame(live)), InFlightOf(s) = InFlightOf(stack),
           PendingOf(s) = PendingOf(stack),
           (\A i \in DOMAIN stack : stack[i].kind = "block")
              => \A i \in DOMAIN s : s[i].kind = "block",
           stack' = Append(s, Block(c, payable, v, 1, m, 0)),
           UNCHANGED <<live, moved>>
    PROVE  EtherInv'
<1>1. EtherType
  BY DEF EtherInv
<1> DEFINE f == Block(c, payable, v, 1, m, 0)
<1>2. f \in Frame(live) /\ f.kind = "block" /\ Incoming(f) = v /\ Pending(f) = 0
  <2>1. ASSUME NEW l, NEW x \in l
        PROVE  /\ f.kind = "block" /\ Incoming(f) = v /\ Pending(f) = 0
               /\ Block(x, payable, v, 1, m, 0) \in Frame(l)
    BY PaidBlock
  <2> QED
    BY <2>1
<1>3. balance[p] \in Int
  BY <1>1, LiveSums DEF EtherType
<1>4. /\ balance' \in [Contracts -> 0 .. (Modulus - 1)]
      /\ SumOn(balance', live) = SumOn(balance, live) - v
  BY <1>1, <1>3, DebitTotal
<1> HIDE DEF f
<1>5. stack' = Append(s, f)
  BY DEF f
<1>6. InFlightOf(stack') = InFlightOf(stack) + v /\ PendingOf(stack') = PendingOf(stack)
  <2>1. /\ InFlightOf(stack') = InFlightOf(stack) + v
        /\ PendingOf(stack') = PendingOf(stack) + 0
    BY <1>2, <1>5, Pushed
  <2> QED
    BY <2>1, Sums
<1>7. EtherType'
  <2>1. stack' \in Seq(Frame(live))
    BY <1>2, <1>5
  <2> QED
    BY <1>1, <1>4, <2>1 DEF EtherType
<1>8. SumOn(balance, live)' = SumOn(balance, live) - v
  BY <1>4
<1>9. SumOn(balance, live)' + InFlightOf(stack)' + PendingOf(stack)' + moved.out' - moved.in'
         <= SumOn(balance, live) + InFlightOf(stack) + PendingOf(stack) + moved.out - moved.in
  BY <1>6, <1>8, Sums
<1>10. SumOn(balance, live)' + InFlightOf(stack)' = SumOn(balance, live) + InFlightOf(stack)
  BY <1>6, <1>8, Sums
<1>11. ASSUME program \cap {"send", "paid_ctor"} = {}
       PROVE  \A i \in DOMAIN stack' : stack'[i].kind = "block"
  <2>1. \A i \in DOMAIN s : s[i].kind = "block"
    BY <1>11 DEF EtherInv, Closed
  <2> QED
    BY <1>2, <1>5, <2>1
<1> QED
  BY <1>7, <1>9, <1>10, <1>11, Moves DEF EtherInv, Closed

\* The sender of a payment is debited; the amount is pending.
LEMMA DebitStep ==
    ASSUME EtherInv, program' = program, DebitSender, ~ balance[Top.self] < Top.amt
    PROVE  EtherInv'
<1>1. EtherType
  BY DEF EtherInv
<1>2. stack /= <<>> /\ Top \in PaymentFrame(live) /\ Top.at = "debit" /\ Top.kind = "payment"
  BY TopTyped DEF DebitSender, AtPayment
<1> DEFINE f == [Top EXCEPT !.at = "dispatch"]
           v == Top.amt
           s == [stack EXCEPT ![Len(stack)] = f]
<1>3. /\ f \in Frame(live) /\ Incoming(f) = 0 /\ Pending(f) = v
      /\ Incoming(Top) = 0 /\ Pending(Top) = 0 /\ v \in Nat /\ Top.self \in live
  BY <1>2 DEF Frame, PaymentFrame, Incoming, Pending
<1>4. /\ stack' = s /\ live' = live /\ moved' = moved /\ stack \in Seq(Frame(live))
      /\ balance' = Debit(balance, Top.self, v)
  BY <1>1 DEF Top, EtherType, DebitSender
<1>5. balance[Top.self] \in Int
  BY <1>1, <1>3, LiveSums DEF EtherType
<1> HIDE DEF f, v
<1>6. /\ balance' \in [Contracts -> 0 .. (Modulus - 1)]
      /\ SumOn(balance', live) = SumOn(balance, live) - v
  BY <1>1, <1>3, <1>4, <1>5, DebitTotal DEF v
<1>7. /\ s \in Seq(Frame(live))
      /\ InFlightOf(s) = InFlightOf(stack) - Incoming(Top) + Incoming(f)
      /\ PendingOf(s) = PendingOf(stack) - Pending(Top) + Pending(f)
  BY <1>2, <1>3, <1>4, Replaced DEF Top
<1> HIDE DEF s
<1>8. InFlightOf(stack') = InFlightOf(stack) /\ PendingOf(stack') = PendingOf(stack) + v
  BY <1>3, <1>4, <1>7, Sums
<1>9. EtherType'
  BY <1>1, <1>4, <1>6, <1>7 DEF EtherType
<1>10. SumOn(balance, live)' + InFlightOf(stack)' + PendingOf(stack)' + moved.out' - moved.in'
         <= SumOn(balance, live) + InFlightOf(stack) + PendingOf(stack) + moved.out - moved.in
  BY <1>3, <1>4, <1>6, <1>8, Sums
<1>11. program \cap {"send", "paid_ctor"} /= {}
  <2>1. Len(stack) \in DOMAIN stack /\ stack[Len(stack)].kind /= "block"
    BY <1>2, <1>4 DEF Top
  <2> QED
    BY <2>1 DEF EtherInv, Closed
<1> QED
  BY <1>9, <1>10, <1>11, Moves

\* A step that moves no ether keeps the invariant.
LEMMA UnchangedStep ==
    ASSUME EtherInv, UNCHANGED <<program, live, balance, stack, moved>>
    PROVE  EtherInv'
  BY DEF EtherInv, EtherType, Covered, Closed

\* A payment returns: what it hands over was pending.
LEMMA FinishStep ==
    ASSUME EtherInv, program' = program, Running, Top.kind = "payment",
           NEW ok \in BOOLEAN, ok => Top.at /= "debit", Finish(balance, ok)
    PROVE  EtherInv'
<1>1. CASE ok \/ Top.nothrow
  <2>1. stack /= <<>> /\ Top \in PaymentFrame(live) /\ moved \in [in : Nat, out : Nat]
    BY TopTyped DEF EtherInv, EtherType
  <2>2. Incoming(Top) = 0 /\ Pending(Top) \in Nat /\ Top.amt \in Nat /\ (ok => Pending(Top) = Top.amt)
    BY <2>1 DEF Incoming, Pending, PaymentFrame
  <2>3. /\ stack' = Below /\ balance' = balance /\ live' = live
        /\ moved' = IF ok /\ Top.dst = Client THEN [moved EXCEPT !.out = @ + Top.amt] ELSE moved
    BY <1>1 DEF Finish
  <2>4. /\ moved' \in [in : Nat, out : Nat] /\ moved'.in = moved.in
        /\ moved'.out <= moved.out + Pending(Top)
    BY <2>1, <2>2, <2>3
  <2> QED
    BY <2>1, <2>2, <2>3, <2>4, PopStep
<1>2. CASE ~ (ok \/ Top.nothrow)
  BY <1>2, UnchangedStep DEF Finish, Prune
<1> QED
  BY <1>1, <1>2

\* The steps between the blocks of one function keep the invariant.
LEMMA BlocksStep ==
    ASSUME EtherInv, program' = program, Placeholder \/ InternalCall \/ Return
    PROVE  EtherInv'
<1>1. /\ stack /= <<>> /\ Top \in BlockFrame(live) /\ Top.at = "run" /\ Top.kind = "block"
      /\ live' = live /\ balance' = balance /\ moved' = moved
  BY TopTyped DEF Placeholder, InternalCall, Return, InBody, AtBlock
<1>2. Top.self \in live /\ Top.payable \in BOOLEAN /\ Top.value \in Nat /\ Top.mods \in Nat /\ Top.layer \in Nat
  BY <1>1 DEF BlockFrame
<1>3. ASSUME NEW payable \in BOOLEAN, NEW m \in Nat, NEW k \in Nat,
             stack' = Append(stack, Block(Top.self, payable, Top.value, 0, m, k))
      PROVE  EtherInv'
  <2> DEFINE c == Top.self
             w == Top.value
             f == Block(c, payable, w, 0, m, k)
  <2>1. c \in live /\ w \in Nat
    BY <1>2
  <2> HIDE DEF c, w
  <2>2. f \in Frame(live) /\ f.kind = "block" /\ Incoming(f) = 0 /\ Pending(f) = 0
    BY <2>1, UnpaidBlock
  <2> HIDE DEF f
  <2>3. stack' = Append(stack, f)
    BY <1>3 DEF f, c, w
  <2> QED
    BY <1>1, <2>2, <2>3, PushStep
<1>4. CASE Placeholder
  <2>1. /\ Top.layer + 1 \in Nat
        /\ stack' = Append(stack, Block(Top.self, Top.payable, Top.value, 0, Top.mods, Top.layer + 1))
    BY <1>2, <1>4 DEF Placeholder
  <2> QED
    BY <1>2, <1>3, <2>1
<1>5. CASE InternalCall
  <2>1. PICK payable \in BOOLEAN, m \in 0 .. MaxMods :
               stack' = Append(stack, Block(Top.self, payable, Top.value, 0, m, 0))
    BY <1>5 DEF InternalCall
  <2>2. m \in Nat /\ 0 \in Nat
    BY EtherAssumption
  <2> QED
    BY <1>3, <2>1, <2>2
<1>6. CASE Return
  <2>1. Incoming(Top) = 0 /\ Pending(Top) = 0
    BY <1>1 DEF Incoming, Pending
  <2>2. stack' = Below /\ moved' \in [in : Nat, out : Nat] /\ moved.out \in Nat
    BY <1>1, <1>6 DEF Return, EtherInv, EtherType
  <2>3. moved'.in = moved.in /\ moved'.out <= moved.out + Pending(Top)
    BY <1>1, <2>1, <2>2
  <2> QED
    BY <1>1, <2>1, <2>2, <2>3, PopStep
<1> QED
  BY <1>4, <1>5, <1>6

\* An external call, which debits the caller, keeps the invariant.
LEMMA ExternalCallStep == ASSUME EtherInv, program' = program, ExternalCall PROVE EtherInv'
<1>1. stack /= <<>> /\ Top \in BlockFrame(live) /\ stack \in Seq(Frame(live))
  BY TopTyped DEF ExternalCall, InBody, AtBlock, EtherInv, EtherType
<1>2. PICK c \in live, payable \in BOOLEAN, m \in 0 .. MaxMods :
          \E v \in IF payable THEN Amounts ELSE {0} :
             IF balance[Top.self] >= v
             THEN /\ balance' = Debit(balance, Top.self, v)
                  /\ stack' = Append(stack, Block(c, payable, v, 1, m, 0))
                  /\ UNCHANGED <<status, live, moved>>
             ELSE Prune
  BY DEF ExternalCall
<1>3. PICK v \in IF payable THEN Amounts ELSE {0} :
             IF balance[Top.self] >= v
             THEN /\ balance' = Debit(balance, Top.self, v)
                  /\ stack' = Append(stack, Block(c, payable, v, 1, m, 0))
                  /\ UNCHANGED <<status, live, moved>>
             ELSE Prune
  BY <1>2
<1>4. v \in Nat /\ m \in Nat /\ (~ payable => v = 0) /\ Top.self \in live
  BY <1>1, EtherAssumption DEF Amounts, BlockFrame
<1>5. CASE balance[Top.self] >= v
  <2>1. /\ balance' = Debit(balance, Top.self, v)
        /\ stack' = Append(stack, Block(c, payable, v, 1, m, 0))
        /\ UNCHANGED <<live, moved>>
    BY <1>3, <1>5
  <2> QED
    BY <1>1, <1>4, <1>5, <2>1, ExternalStep
<1>6. CASE ~ balance[Top.self] >= v
  BY <1>3, <1>6, UnchangedStep DEF Prune
<1> QED
  BY <1>5, <1>6

\* The debit of a payment keeps the invariant.
LEMMA PayStep == ASSUME EtherInv, program' = program, Pay PROVE EtherInv'
<1>1. stack /= <<>> /\ Top \in BlockFrame(live)
  BY TopTyped DEF Pay, InBody, AtBlock
<1>2. PICK dst \in live \cup {ZeroAddress, Client}, amt \in Amounts, nothrow \in BOOLEAN :
          stack' = Append(stack, Payment(Top.self, dst, amt, nothrow))
  BY DEF Pay
<1>3. amt \in Nat /\ Top.self \in live /\ balance[Top.self] \in Nat
  <2>1. amt \in Nat /\ Top.self \in live
    BY <1>1, EtherAssumption DEF Amounts, BlockFrame
  <2>2. balance \in [Contracts -> 0 .. (Modulus - 1)] /\ live \subseteq Contracts
    BY DEF EtherInv, EtherType
  <2>3. balance[Top.self] \in 0 .. (Modulus - 1)
    BY <2>1, <2>2
  <2> QED
    BY <2>1, <2>3, EtherAssumption
<1> DEFINE f == Payment(Top.self, dst, amt, nothrow)
<1>4. f \in Frame(live) /\ Incoming(f) = 0 /\ Pending(f) = 0
  BY <1>3 DEF Payment, Frame, PaymentFrame, Incoming, Pending
<1> HIDE DEF f
<1>5. stack' = Append(stack, f) /\ "send" \in program /\ UNCHANGED <<program, live, balance, moved>>
  BY <1>2 DEF Pay, f
<1> QED
  BY <1>4, <1>5, PushStep

\* The dispatch of a payment to a fallback keeps the invariant.
LEMMA CallFallbackStep == ASSUME EtherInv, program' = program, CallFallback PROVE EtherInv'
<1>1. /\ stack /= <<>> /\ Top \in PaymentFrame(live) /\ stack \in Seq(Frame(live))
      /\ Top.at = "dispatch" /\ Top.kind = "payment" /\ Top.dst \in Receivers
  BY TopTyped DEF CallFallback, AtPayment, EtherInv, EtherType
<1>2. CASE balance[Top.self] >= Top.amt
  <2> DEFINE f == [Top EXCEPT !.at = "return"]
             s == [stack EXCEPT ![Len(stack)] = f]
             v == Top.amt
  <2>1. /\ f \in Frame(live) /\ Incoming(f) = 0 /\ Pending(f) = v
        /\ Incoming(Top) = 0 /\ Pending(Top) = v /\ v \in Nat /\ Top.self \in live
    BY <1>1 DEF Frame, PaymentFrame, Incoming, Pending
  <2>2. Top.dst \in live
    BY <1>1, EtherAssumption DEF PaymentFrame, ZeroAddress, Client
  <2>3. /\ balance' = Debit(balance, Top.self, v)
        /\ stack' = Append(s, Block(Top.dst, TRUE, v, 1, 0, 0))
        /\ UNCHANGED <<live, moved>>
    BY <1>2 DEF CallFallback, Top
  <2> HIDE DEF f, v
  <2>4. /\ s \in Seq(Frame(live))
        /\ InFlightOf(s) = InFlightOf(stack) - 0 + 0
        /\ PendingOf(s) = PendingOf(stack) - v + v
    BY <1>1, <2>1, Replaced DEF Top
  <2>5. ~ \A i \in DOMAIN stack : stack[i].kind = "block"
    <3>1. Len(stack) \in DOMAIN stack /\ stack[Len(stack)].kind /= "block"
      BY <1>1 DEF Top
    <3> QED
      BY <3>1
  <2> HIDE DEF s
  <2>6. InFlightOf(s) = InFlightOf(stack) /\ PendingOf(s) = PendingOf(stack)
    BY <2>1, <2>4, Sums
  <2>7. balance[Top.self] >= v /\ TRUE \in BOOLEAN /\ 0 \in Nat
    BY <1>2 DEF v
  <2> QED
    BY <2>1, <2>2, <2>3, <2>4, <2>5, <2>6, <2>7, ExternalStep
<1>3. CASE ~ balance[Top.self] >= Top.amt
  BY <1>3, UnchangedStep DEF CallFallback, Prune
<1> QED
  BY <1>2, <1>3

\* The invariant holds when the program starts.
LEMMA EtherInit == Init => EtherInv
<1> SUFFICES ASSUME Init PROVE EtherInv
  OBVIOUS
<1>1. EtherType
  <2>1. {0, Modulus - 1} \subseteq 0 .. (Modulus - 1)
    BY EtherAssumption
  <2>2. <<>> \in Seq(Frame(live))
    OBVIOUS
  <2> QED
    BY <2>1, <2>2 DEF Init, EtherType
<1>2. SumOn(balance, live) = 0
  BY SumEmpty DEF Init
<1>3. stack = <<>> /\ InFlightOf(stack) = 0 /\ PendingOf(stack) = 0
  BY EmptyStack DEF Init
<1>4. Covered /\ Closed
  BY <1>2, <1>3, EtherAssumption DEF Init, Covered, Closed
<1> QED
  BY <1>1, <1>4 DEF EtherInv

\* Every step keeps the invariant.
LEMMA EtherNext == EtherInv /\ [Next]_vars => EtherInv'
<1> SUFFICES ASSUME EtherInv, [Next]_vars PROVE EtherInv'
  OBVIOUS
<1>1. CASE UNCHANGED vars
  BY <1>1, UnchangedStep DEF vars
<1>2. CASE Next
  <2>1. program' = program
    BY <1>2 DEF Next
  <2>2. CASE Construct
    BY <2>1, <2>2, ConstructStep
  <2>3. CASE Transaction
    BY <2>1, <2>3, TransactionStep
  <2>4. CASE EnterBlock
    BY <2>1, <2>4, EnterStep
  <2>5. CASE Placeholder \/ InternalCall \/ Return
    BY <2>1, <2>5, BlocksStep
  <2>6. CASE ExternalCall
    BY <2>1, <2>6, ExternalCallStep
  <2>7. CASE RequireFails \/ FallbackNotAllowed \/ Ended
    BY <2>1, <2>7, UnchangedStep DEF RequireFails, FallbackNotAllowed, Ended, Prune, Fail
  <2>8. CASE Pay
    BY <2>1, <2>8, PayStep
  <2>9. CASE DebitSender
    <3>1. CASE balance[Top.self] < Top.amt
      <4>1. Running /\ Top.kind = "payment" /\ Finish(balance, FALSE)
        BY <2>9, <3>1 DEF DebitSender, AtPayment
      <4> QED
        BY <2>1, <4>1, FinishStep
    <3>2. CASE ~ balance[Top.self] < Top.amt
      BY <2>1, <2>9, <3>2, DebitStep
    <3> QED
      BY <3>1, <3>2
  <2>10. CASE Refuse
    <3>1. Running /\ Top.kind = "payment" /\ Finish(balance, FALSE)
      BY <2>10 DEF Refuse, AtPayment
    <3> QED
      BY <2>1, <3>1, FinishStep
  <2>11. CASE CallFallback
    BY <2>1, <2>11, CallFallbackStep
  <2>12. CASE Respond
    <3>1. Running /\ Top.kind = "payment" /\ Top.at /= "debit" /\ \E ok \in BOOLEAN : Finish(balance, ok)
      BY <2>12 DEF Respond, AtPayment
    <3> QED
      BY <2>1, <3>1, FinishStep
  <2> QED
    BY <1>2, <2>2, <2>3, <2>4, <2>5, <2>6, <2>7, <2>8, <2>9, <2>10, <2>11, <2>12 DEF Next
<1> QED
  BY <1>1, <1>2

\* As long as nothing is sent and constructors are free, balances and the value
\* on its way to them are, in the arithmetic of the balances, what the
\* transactions brought in, for all contracts, modifiers, nestings of calls and
\* every width of a balance.
THEOREM EtherIsConserved == Spec => []EtherConserved
<1>1. EtherInv => EtherConserved
  BY DEF EtherInv, Closed, EtherConserved, TotalBalance, InFlight, InFlightOf, SumOn
<1> QED
  BY <1>1, EtherInit, EtherNext, PTL DEF Spec

\* Nobody is credited with ether that no transaction brought in or that has been
\* sent away, however payments, fallbacks and calls nest and re-enter.
THEOREM NoEtherIsMade == Spec => []NoEtherFromNothing
<1>1. EtherInv => NoEtherFromNothing
  <2> SUFFICES ASSUME EtherInv PROVE NoEtherFromNothing
    OBVIOUS
  <2>1. stack \in Seq(Frame(live))
    BY DEF EtherInv, EtherType
  <2>2. PendingOf(stack) >= 0
    BY <2>1, PendingNotNegative
  <2>3. SumOn(balance, live) + InFlightOf(stack) + moved.out <= moved.in
    BY <2>2, Sums DEF EtherInv, Covered
  <2> QED
    BY <2>3 DEF NoEtherFromNothing, TotalBalance, InFlight, InFlightOf, SumOn
<1> QED
  BY <1>1, EtherInit, EtherNext, PTL DEF Spec
=============================================================================
