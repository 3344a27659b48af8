------------------------------- MODULE RuleList -------------------------------
(***************************************************************************)
(* The simplification rules of RuleList.h, which both optimisers use.  A   *)
(* pattern is a tree of instructions over the placeholders A, B, C (for    *)
(* constants), X, Y (for anything) and numbers.  An action is a pattern,   *)
(* too, in which Calc computes a number from the constants that matched.   *)
(* A rule of the code whose action depends on a condition is written as    *)
(* several rules with that condition, in the same place of the list.       *)
(***************************************************************************)
EXTENDS Instructions, SequencesExt

\* FoldLeft of SequencesExt, in linear time.  The sets of one element make TLC
\* evaluate the fold of the elements before n first, which saves stack.
FoldAlong(op(_, _), base, seq) ==
    LET f[n \in 0 .. Len(seq)] ==
            IF n = 0 THEN base ELSE CHOOSE r \in {op(p, seq[n]) : p \in {f[n - 1]}} : TRUE
    IN  f[Len(seq)]

Const(g) == [k |-> "const", g |-> g]

Anything(g) == [k |-> "any", g |-> g]

Num(n) == [k |-> "num", n |-> n]

Ins(op, a) == [k |-> "ins", op |-> op, args |-> a]

\* A number computed from constants when the action is built.
Calc(op, a) == [k |-> "calc", op |-> op, args |-> a]

A == Const("A")
B == Const("B")
C == Const("C")
X == Anything("X")
Y == Anything("Y")
Zero == Num(0)
One == Num(1)
Ones == Num(MaxWord)

RuleIf(pattern, action, removes, feasible) ==
    [pattern |-> pattern, action |-> action, removesNonConstants |-> removes,
     feasible |-> feasible]

Rule(pattern, action, removes) == RuleIf(pattern, action, removes, One)
-----------------------------------------------------------------------------
(***************************************************************************)
(* What the actions compute at compile time, on u256 and bigint.           *)
(***************************************************************************)

\* The shift amount is tested before it is narrowed to unsigned.
FoldShift(op, n, x) ==
    IF n > WordBits - 1 THEN 0
    ELSE IF op = "shl" THEN AndTable[(x * 2 ^ n) % Modulus, MaxWord] ELSE x \div 2 ^ n

FoldSignExtend(n, x) ==
    IF n >= WordBytes - 1 THEN x
    ELSE LET testBit == n * ByteBits + (ByteBits - 1)
             mask == 2 ^ testBit - 1
         IN  IF (x \div 2 ^ testBit) % 2 = 1
             THEN OrTable[x, MaxWord - mask]
             ELSE AndTable[x, mask]

\* Mutant: the remainder takes the sign of the divisor.
Fold_floor(op, a) ==
    CASE op \in {"shl", "shr"} -> FoldShift(op, a[1], a[2])
      [] op = "signextend" -> FoldSignExtend(a[1], a[2])
      [] op = "smod" -> IF a[2] = 0 THEN 0
                        ELSE IF u2s(a[2]) > 0 THEN s2u(u2s(a[1]) % u2s(a[2]))
                        ELSE s2u(0 - ((0 - u2s(a[1])) % (0 - u2s(a[2]))))
      [] op = "sum" -> a[1] + a[2]
      [] op = "ge" -> Truth(a[1] >= a[2])
      [] op = "both" -> Truth(a[1] /= 0 /\ a[2] /= 0)
      [] OTHER -> Compute(op, a)

\* The remaining lambdas are the operators of u256 and bigint.
Fold(op, a) ==
    CASE op \in {"shl", "shr"} -> FoldShift(op, a[1], a[2])
      [] op = "signextend" -> FoldSignExtend(a[1], a[2])
      [] op = "sum" -> a[1] + a[2]              \* of type bigint
      [] op = "ge" -> Truth(a[1] >= a[2])
      [] op = "both" -> Truth(a[1] /= 0 /\ a[2] /= 0)
      [] OTHER -> Compute(op, a)
-----------------------------------------------------------------------------
\* Arithmetic on constants.
simplificationRuleListPart1 ==
    [i \in 1 .. 25 |->
        LET op == <<"add", "mul", "sub", "div", "sdiv", "mod", "smod", "exp", "not", "lt",
                    "gt", "slt", "sgt", "eq", "iszero", "and", "or", "xor", "byte",
                    "addmod", "mulmod", "mulmod", "signextend", "shl", "shr">>[i]
            a == SubSeq(<<A, B, C>>, 1, args(op))
        IN  \* the second rule for mulmod forgets the modulus
            Rule(Ins(op, a), IF i = 22 THEN Calc("mul", <<A, B>>) ELSE Calc(op, a), FALSE)]

\* Invariants involving known constants.
simplificationRuleListPart2 ==
    LET R2(op, a, b, action, removes) == Rule(Ins(op, <<a, b>>), action, removes)
        IsZero(e) == Ins("iszero", <<e>>)
    IN  <<R2("add", X, Zero, X, FALSE),
          R2("add", Zero, X, X, FALSE),
          R2("sub", X, Zero, X, FALSE),
          R2("mul", X, Zero, Zero, TRUE),
          R2("mul", Zero, X, Zero, TRUE),
          R2("mul", X, One, X, FALSE),
          R2("mul", One, X, X, FALSE),
          R2("mul", X, Ones, Ins("sub", <<Zero, X>>), FALSE),
          R2("mul", Ones, X, Ins("sub", <<Zero, X>>), FALSE),
          R2("div", X, Zero, Zero, TRUE),
          R2("div", Zero, X, Zero, TRUE),
          R2("div", X, One, X, FALSE),
          R2("sdiv", X, Zero, Zero, TRUE),
          R2("sdiv", Zero, X, Zero, TRUE),
          R2("sdiv", X, One, X, FALSE),
          R2("and", X, Ones, X, FALSE),
          R2("and", Ones, X, X, FALSE),
          R2("and", X, Zero, Zero, TRUE),
          R2("and", Zero, X, Zero, TRUE),
          R2("or", X, Zero, X, FALSE),
          R2("or", Zero, X, X, FALSE),
          R2("or", X, Ones, Ones, TRUE),
          R2("or", Ones, X, Ones, TRUE),
          R2("xor", X, Zero, X, FALSE),
          R2("xor", Zero, X, X, FALSE),
          R2("mod", X, Zero, Zero, TRUE),
          R2("mod", Zero, X, Zero, TRUE),
          R2("eq", X, Zero, IsZero(X), FALSE),
          R2("eq", Zero, X, IsZero(X), FALSE),
          R2("shl", Zero, X, X, FALSE),
          R2("shr", Zero, X, X, FALSE),
          R2("shl", X, Zero, Zero, TRUE),
          R2("shr", X, Zero, Zero, TRUE),
          R2("gt", X, Zero, IsZero(IsZero(X)), FALSE),
          R2("lt", Zero, X, IsZero(IsZero(X)), FALSE),
          R2("gt", X, Ones, Zero, TRUE),
          R2("lt", Ones, X, Zero, TRUE),
          R2("gt", Zero, X, Zero, TRUE),
          R2("lt", X, Zero, Zero, TRUE),
          R2("and", Ins("byte", <<X, Y>>), Num(ByteMask), Ins("byte", <<X, Y>>), FALSE),
          R2("byte", Num(WordBytes - 1), X, Ins("and", <<X, Num(ByteMask)>>), FALSE)>>

\* Operations involving an expression and itself.
simplificationRuleListPart3 ==
    [i \in 1 .. 10 |->
        LET op == <<"and", "or", "xor", "sub", "eq", "lt", "slt", "gt", "sgt", "mod">>[i]
        IN  Rule(Ins(op, <<X, X>>), IF i <= 2 THEN X ELSE IF op = "eq" THEN One ELSE Zero,
                 TRUE)]

\* Combinations of logical instructions.
simplificationRuleListPart4 ==
    LET Neg(e) == Ins("not", <<e>>)
        \* the four ways to write op(X, inner(X, Y))
        Absorb(op, inner, action) ==
            <<Rule(Ins(op, <<X, Ins(inner, <<X, Y>>)>>), action, TRUE),
              Rule(Ins(op, <<X, Ins(inner, <<Y, X>>)>>), action, TRUE),
              Rule(Ins(op, <<Ins(inner, <<X, Y>>), X>>), action, TRUE),
              Rule(Ins(op, <<Ins(inner, <<Y, X>>), X>>), action, TRUE)>>
    IN  <<Rule(Neg(Neg(X)), X, FALSE)>>
            \o Absorb("xor", "xor", Y) \o Absorb("or", "and", X) \o Absorb("and", "or", X)
            \o <<Rule(Ins("and", <<X, Neg(X)>>), Zero, TRUE),
                 Rule(Ins("and", <<Neg(X), X>>), Zero, TRUE),
                 Rule(Ins("or", <<X, Neg(X)>>), Ones, TRUE),
                 Rule(Ins("or", <<Neg(X), X>>), Ones, TRUE)>>

\* Remainders of powers of two, shifts out of the word, masks of addresses.  The
\* patterns for create and create2 have no arguments: they match no expression.
simplificationRuleListPart5 ==
    LET Out(op) == RuleIf(Ins(op, <<A, X>>), Zero, TRUE, Calc("ge", <<A, Num(WordBits)>>))
        Masked(op) == LET e == Ins(op, <<>>)
                      IN  <<Rule(Ins("and", <<e, Num(AddressMask)>>), e, FALSE),
                            Rule(Ins("and", <<Num(AddressMask), e>>), e, FALSE)>>
    IN  [i \in 1 .. WordBits |->
            Rule(Ins("mod", <<X, Num(2 ^ (i - 1))>>),
                 Ins("and", <<X, Num(2 ^ (i - 1) - 1)>>), FALSE)]
          \o <<Out("shl"), Out("shr")>>
          \o Masked("address") \o Masked("caller") \o Masked("origin") \o Masked("coinbase")
          \o Masked("create") \o Masked("create2")

\* Double negation of opcodes with boolean result.
simplificationRuleListPart6 ==
    LET IsZero(e) == Ins("iszero", <<e>>)
    IN  [i \in 1 .. 5 |->
            LET e == Ins(<<"eq", "lt", "slt", "gt", "sgt">>[i], <<X, Y>>)
            IN  Rule(IsZero(IsZero(e)), e, FALSE)]
          \o <<Rule(IsZero(IsZero(IsZero(X))), IsZero(X), FALSE),
               Rule(IsZero(Ins("xor", <<X, Y>>)), Ins("eq", <<X, Y>>), FALSE)>>

\* Constants move out of associative operations; shifts are combined.
simplificationRuleListPart7 ==
    LET Assoc(op, xa) ==
            LET in == Ins(op, xa)
            IN  <<Rule(Ins(op, <<in, B>>), Ins(op, <<X, Calc(op, <<A, B>>)>>), FALSE),
                  Rule(Ins(op, <<in, Y>>), Ins(op, <<Ins(op, <<X, Y>>), A>>), FALSE),
                  Rule(Ins(op, <<B, in>>), Ins(op, <<X, Calc(op, <<A, B>>)>>), FALSE),
                  Rule(Ins(op, <<Y, in>>), Ins(op, <<Ins(op, <<Y, X>>), A>>), FALSE)>>
        sum == Calc("sum", <<A, B>>)
        \* SHL(B, SHL(A, X)) and SHR(B, SHR(A, X))
        Twice(op) ==
            LET p == Ins(op, <<B, Ins(op, <<A, X>>)>>)
            IN  <<RuleIf(p, Ins("and", <<X, Zero>>), FALSE, Calc("ge", <<sum, Num(WordBits)>>)),
                  Rule(p, Ins(op, <<sum, X>>), FALSE)>>
        small(e) == Calc("gt", <<Num(WordBits), e>>)
        \* out(B, in(A, X)) for the two shifts in and out
        Across(out, in, mask) ==
            LET p == Ins(out, <<B, Ins(in, <<A, X>>)>>)
                ok(c) == Calc("both", <<Calc("both", <<small(A), small(B)>>), c>>)
            IN  <<RuleIf(p, Ins("and", <<Ins(in, <<Calc("sub", <<A, B>>), X>>), mask>>),
                         FALSE, ok(Calc("gt", <<A, B>>))),
                  RuleIf(p, Ins("and", <<Ins(out, <<Calc("sub", <<B, A>>), X>>), mask>>),
                         FALSE, ok(Calc("gt", <<B, A>>))),
                  RuleIf(p, Ins("and", <<X, mask>>), FALSE, ok(One))>>
        MoveMask(op) ==
            LET r == Ins("and", <<Ins(op, <<B, X>>), Calc(op, <<B, A>>)>>)
            IN  <<RuleIf(Ins(op, <<B, Ins("and", <<X, A>>)>>), r, FALSE, small(B)),
                  RuleIf(Ins(op, <<B, Ins("and", <<A, X>>)>>), r, FALSE, small(B))>>
        shrB == Ins("shr", <<B, X>>)
        low == Calc("shr", <<B, Ones>>)
        covers == Calc("both", <<Calc("ge", <<Num(WordBits), B>>),
                                 Calc("eq", <<Calc("and", <<A, low>>), low>>)>>)
    IN  FlattenSeq([i \in 1 .. 5 |->
            LET op == <<"add", "mul", "and", "or", "xor">>[i]
            IN  Assoc(op, <<X, A>>) \o Assoc(op, <<A, X>>)])
        \o Twice("shl") \o Twice("shr")
        \o Across("shr", "shl", Calc("shr", <<B, Calc("shl", <<A, Ones>>)>>))
        \o Across("shl", "shr", Calc("shl", <<B, Calc("shr", <<A, Ones>>)>>))
        \o MoveMask("shl") \o MoveMask("shr")
        \o <<Rule(Ins("mul", <<X, Ins("shl", <<Y, One>>)>>), Ins("shl", <<Y, X>>), FALSE),
             Rule(Ins("mul", <<Ins("shl", <<X, One>>), Y>>), Ins("shl", <<X, Y>>), FALSE),
             Rule(Ins("div", <<X, Ins("shl", <<Y, One>>)>>), Ins("shr", <<Y, X>>), FALSE),
             RuleIf(Ins("and", <<A, shrB>>), shrB, FALSE, covers),
             RuleIf(Ins("and", <<shrB, A>>), shrB, FALSE, covers)>>

\* Constants move across subtractions.
simplificationRuleListPart8 ==
    LET Sub(e, f) == Ins("sub", <<e, f>>)
        Add(e, f) == Ins("add", <<e, f>>)
        minusA == Calc("sub", <<Zero, A>>)
    IN  <<Rule(Sub(X, A), Add(X, minusA), FALSE),
          Rule(Sub(Add(X, A), Y), Add(Sub(X, Y), A), FALSE),
          Rule(Sub(Add(A, X), Y), Add(Sub(X, Y), A), FALSE),
          Rule(Sub(X, Add(Y, A)), Add(Sub(X, Y), minusA), FALSE),
          Rule(Sub(X, Add(A, Y)), Add(Sub(X, Y), minusA), FALSE)>>

simplificationRuleList ==
    simplificationRuleListPart1 \o simplificationRuleListPart2
        \o simplificationRuleListPart3 \o simplificationRuleListPart4
        \o simplificationRuleListPart5 \o simplificationRuleListPart6
        \o simplificationRuleListPart7 \o simplificationRuleListPart8

\* The rules are kept by the instruction at their root.
RulesFor == [op \in {simplificationRuleList[i].pattern.op :
                        i \in DOMAIN simplificationRuleList} |->
                SelectSeq(simplificationRuleList, LAMBDA r : r.pattern.op = op)]

\* The number that an action computes; m maps A, B, C to what they matched.
RECURSIVE CalcValue(_, _)
CalcValue(p, m) ==
    CASE p.k = "num" -> p.n
      [] p.k = "const" -> m[p.g]
      [] p.k = "calc" -> Fold(p.op, [i \in DOMAIN p.args |-> CalcValue(p.args[i], m)])
=============================================================================
