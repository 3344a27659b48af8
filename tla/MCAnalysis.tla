------------------------------ MODULE MCAnalysis ------------------------------
(***************************************************************************)
(* Small Solidity programs for module AnalysisStack.                       *)
(***************************************************************************)
EXTENDS AnalysisStack, FiniteSetsExt

CONSTANTS Bits, Width, SmallBits, ByteBits, WordBytes, AddressBits

INSTANCE SolSyntax

\* The stages for one program.
Of(p) == INSTANCE Stages WITH prog <- p
By(p) == INSTANCE FrontEnd WITH prog <- p

MCCompiled(stage, p, st) == LET r == By(p)!StageResult(stage, st) IN r
MCTransacted(p, t) == LET r == By(p)!Transact(t) IN r
MCMeant(p, lins) == LET r == By(p)!Meanings(lins) IN r
MCOrders(p, c, lins) == LET r == By(p)!Orders(c, lins) IN r

MCResults(stage, p, st) == LET r == Of(p)!ResultsOf(stage, st) IN r
MCExecutions(p, st, t) == LET r == Of(p)!Execution(st, t) IN r
MCUntainted(p, st, t) == LET r == Of(p)!UntaintedOutcomes(st, t) IN r
MCPlaced(p, b) == LET r == Of(p)!Places(b, Of(p)!Root) IN r
MCInstanced(p, b) == LET r == Of(p)!Instances(b) IN r
MCPrimitives(p, defs) == LET r == Of(p)!UsedPrimitives(defs) IN r

SmallSizes == [uint |-> 4, bool |-> 2, address |-> 4]

Sizes == [uint |-> 16, byte |-> 8, bool |-> 2, address |-> 16]

-----------------------------------------------------------------------------
(***************************************************************************)
(* Abbreviations.                                                          *)
(***************************************************************************)
Id(d) == Identifier(d)
Num(n) == Literal("int", n)
Bin(l, op, r) == BinaryOperation(op, l, r)
Set(l, r) == Assignment(l, "=", r)
Sender == MemberAccess(Literal("magic", "msg"), "sender", None)
State(n, cat) == VariableDeclaration(n, cat, None, "state", FALSE, <<>>)
Param(n, cat) == VariableDeclaration(n, cat, None, "param", FALSE, <<>>)
Ret(n, cat) == VariableDeclaration(n, cat, None, "ret", FALSE, <<>>)
LocalVar(n, cat) == VariableDeclaration(n, cat, None, "local", FALSE, <<>>)
Call(f, as) == FunctionCall("Internal", f, None, Identifier(f), as)
Super(f, as) == FunctionCall("Internal", f, None, MemberAccess(Identifier("super"), "f", f), as)
Method(n, scope, ps, rs, ms, body) ==
    FunctionDefinition(n, "function", TRUE, FALSE, scope, ps, rs, ms, body)
Internal(n, scope, ps, rs, body) ==
    FunctionDefinition(n, "function", FALSE, FALSE, scope, ps, rs, <<>>, body)
Constructor(scope, ps, ms, body) ==
    FunctionDefinition("", "constructor", TRUE, FALSE, scope, ps, <<>>, ms, body)
Contract(lin, bases, funs, vs, ms) == ContractDefinition("contract", lin, bases, funs, vs, ms, <<>>)
Program(id, con, fn, mod, var, model) ==
    [id |-> id, con |-> con, fn |-> fn, mod |-> mod, var |-> var, model |-> model, escalate |-> FALSE,
     order |-> SetToSortSeq(DOMAIN con, LAMBDA c, d : Len(con[c].lin) < Len(con[d].lin)),
     mutability |-> <<>>, smt |-> FALSE, typed |-> None]
Tx(f, init, as, sender, value) ==
    [fn |-> f, init |-> init, args |-> as, sender |-> sender, value |-> value]

-----------------------------------------------------------------------------
(***************************************************************************)
(* A diamond: D is B, C, which are A.  over are the contracts besides A    *)
(* that override f, sup the ones that call super.f in it; where the        *)
(* argument of A is given is at.                                           *)
(***************************************************************************)
DiamondBody(c, sup, w) ==
    Block((IF c \in sup THEN <<Super("A.f", <<>>)>> ELSE <<>>)
          \o <<Set(Id("t"), Bin(Bin(Id("t"), "*", Num(2)), "+", Num(w)))>>)

Diamond(over, sup, at) ==
    LET funs(c) == <<c \o ".c">> \o (IF c \in over THEN <<c \o ".f">> ELSE <<>>)
        give    == <<Num(3)>>
        spec(c) == InheritanceSpecifier("A", IF at = c THEN give ELSE None)
        mark(w) == Block(<<Set(Id("u"), Bin(Bin(Id("u"), "*", Num(2)), "+", Num(w)))>>)
        cs      == {"B", "C", "D"}
        weight  == [c \in cs |-> IF c = "D" THEN 1 ELSE IF c = "C" THEN 0 ELSE 1]
    IN  Program("diamond",
          "A" :> Contract(<<"A">>, <<>>, <<"A.c", "A.f", "A.g">>, <<"t", "u">>, <<>>)
          @@ "B" :> Contract(<<"B", "A">>, <<spec("B")>>, funs("B"), <<>>, <<>>)
          @@ "C" :> Contract(<<"C", "A">>, <<spec("C")>>, funs("C"), <<>>, <<>>)
          @@ "D" :> Contract(<<"D", "C", "B", "A">>, <<InheritanceSpecifier("B", None),
                             InheritanceSpecifier("C", None)>>, funs("D"), <<>>, <<>>),
          "A.c" :> Constructor("A", <<"p">>, <<>>, Block(<<Set(Id("u"), Id("p"))>>))
          @@ "A.f" :> Method("f", "A", <<>>, <<>>, <<>>, DiamondBody("A", sup, 1))
          @@ "A.g" :> Method("g", "A", <<>>, <<>>, <<>>, Block(<<Call("A.f", <<>>)>>))
          @@ [f \in {c \o ".c" : c \in cs} |->
                LET c == CHOOSE c \in cs : c \o ".c" = f
                IN  Constructor(c, <<>>, IF at = "ctor" /\ c = "D" THEN <<ModifierInvocation("A", give)>> ELSE <<>>,
                                mark(weight[c]))]
          @@ [f \in {c \o ".f" : c \in over} |->
                LET c == CHOOSE c \in cs : c \o ".f" = f
                IN  Method("f", c, <<>>, <<>>, <<>>, DiamondBody(c, sup, weight[c]))],
          <<>>,
          "t" :> State("t", "uint") @@ "u" :> State("u", "uint") @@ "p" :> Param("p", "uint"),
          <<"D">>)

Diamonds == {Diamond(over, sup, at) : over \in {{}, {"D"}, {"C", "B"}, {"B", "C", "D"}},
                                      sup \in SUBSET {"B", "C", "D"}, at \in {"B", "ctor"}}

-----------------------------------------------------------------------------
(***************************************************************************)
(* A contract T with one method f(p, q), whose body is one of Bodies; it   *)
(* has a child c of type K, a library L, a structure S, mappings and       *)
(* modifiers.                                                              *)
(***************************************************************************)
Stmts(ss) == Block(ss)
Inc(e) == UnaryOperation("++", e, FALSE)
Dec(e) == UnaryOperation("--", e, FALSE)
Add(l, r) == Assignment(l, "+", r)
At(m, k) == IndexAccess(Id(m), k)
If(c, t) == IfStatement(c, t, <<>>)
Require(e) == FunctionCall("Require", None, None, Identifier("require"), <<e>>)
Assertion(e) == FunctionCall("Assert", None, None, Identifier("assert"), <<e>>)
Let(d, e) == VariableDeclarationStatement(d, <<e>>)
Extern(f, as) == FunctionCall("External", f, None, MemberAccess(Id("c"), f, f), as)
Paid(f, v, as) ==
    FunctionCall("External", f, None,
        FunctionCall("SetValue", None, None, MemberAccess(MemberAccess(Id("c"), f, f), "value", None), <<v>>), as)
SField(b, f) == MemberAccess(b, f, f)

Bodies ==
    [arith |-> <<Set(Id("x"), Bin(Id("p"), "+", Bin(Id("q"), "*", Num(7)))),
                 Set(Id("z"), Bin(Bin(Id("p"), "-", Id("q")), "/", Num(2)))>>,
     branch |-> <<IfStatement(Bin(Id("p"), ">", Id("q")), Stmts(<<Set(Id("x"), Id("p"))>>),
                              <<Stmts(<<Set(Id("x"), Conditional(Bin(Id("q"), "==", Num(2)), Id("q"), Num(9)))>>)>>),
                  Return(<<>>)>>,
     while |-> <<WhileStatement(Bin(Id("p"), ">", Num(0)),
                    Stmts(<<Dec(Id("p")), Add(Id("x"), Id("q")),
                            If(Bin(Id("x"), "==", Num(4)), Stmts(<<Break>>))>>), FALSE)>>,
     dowhile |-> <<WhileStatement(Bin(Id("x"), "<", Id("p")), Stmts(<<Inc(Id("x"))>>), TRUE)>>,
     for |-> <<ForStatement(<<Let("i", Num(0))>>, <<Bin(Id("i"), "<", Id("p"))>>, <<Inc(Id("i"))>>,
                    Stmts(<<If(Bin(Id("i"), "==", Id("q")), Stmts(<<Continue>>)), Add(Id("x"), Id("i"))>>))>>,
     swap |-> <<Set(Id("x"), Id("p")), Set(Id("z"), Id("q")),
                Set(TupleExpression(<<Id("x"), Id("z")>>), TupleExpression(<<Id("z"), Id("x")>>))>>,
     pair |-> <<Set(TupleExpression(<<Id("x"), Id("z")>>), Call("pair", <<Id("p"), Id("q")>>))>>,
     maps |-> <<Set(At("m", Sender), Id("p")), Add(At("m", Sender), Id("q")),
                Set(IndexAccess(At("n", Sender), Id("a")), At("m", Sender)),
                Set(Id("x"), IndexAccess(At("n", Id("a")), Sender))>>,
     struct |-> <<Set(Id("s"), StructConstructorCall(<<"s1", "s2">>, <<Id("p"), Id("q")>>)),
                  Let("r", Id("s")), Set(SField(Id("r"), "s1"), Id("q")), Add(Id("x"), SField(Id("s"), "s1"))>>,
     checks |-> <<Set(Id("x"), Num(1)), Require(Bin(Id("p"), ">", Id("q"))), Assertion(Bin(Id("p"), "!=", Num(2)))>>,
     shadow |-> <<Let("lx", Id("p")), Stmts(<<Let("ly", Id("q")), Inc(Id("ly")), Set(Id("z"), Id("ly"))>>),
                  Add(Id("z"), Id("lx"))>>,
     lib |-> <<Set(Id("x"), FunctionCall("Internal", "L.add", None, MemberAccess(Id("L"), "add", "L.add"),
                                        <<Id("p"), Id("q")>>)),
               Set(Id("z"), FunctionCall("Internal", "L.add", None, MemberAccess(Id("x"), "add", "L.add"), <<Id("p")>>))>>,
     child |-> <<Extern("set", <<Id("p")>>), Set(Id("x"), Extern("get", <<>>)),
                 Set(Id("a"), Id("a"))>>,
     caller |-> <<Extern("who", <<>>), Set(Id("x"), MemberAccess(Id("c"), "kv", "kv"))>>,
     pays |-> <<Paid("pay", Id("p"), <<>>), Set(Id("x"), Extern("get", <<>>))>>,
     logic |-> <<If(Bin(Bin(Id("p"), ">", Num(0)), "&&", Bin(Call("tick", <<>>), ">", Num(1))), Set(Id("z"), Num(3))),
                 If(Bin(Bin(Id("q"), ">", Num(0)), "||", Bin(Call("tick", <<>>), ">", Num(1))), Inc(Id("z")))>>,
     emit |-> <<EmitStatement(<<Assignment(Id("x"), "=", Id("q"))>>), Set(Id("sender"), Sender)>>,
     string |-> <<Set(Id("str"), Literal("string", "hi")), If(Bin(Id("p"), "==", Num(1)), Set(Id("str"), Literal("string", "")))>>]

\* mods are the modifiers of f.
Translated1(name, mods) ==
    LET body == Stmts(Bodies[name])
        nums == VariableDeclaration("m", "mapping", [keys |-> <<"address">>, value |-> "mv"], "state", FALSE, <<>>)
        nest == VariableDeclaration("n", "mapping", [keys |-> <<"address", "address">>, value |-> "mv"], "state", FALSE, <<>>)
    IN  Program(name,
          "T" :> ContractDefinition("contract", <<"T">>, <<>>, <<"T.c", "T.f", "pair", "tick">>,
                          <<"x", "z", "m", "n", "s", "a", "c", "sender", "str">>, <<"once", "guard">>, <<<<"s1", "s2">>>>)
          @@ "K" :> Contract(<<"K">>, <<>>, <<"set", "get", "who", "pay">>, <<"kx", "kv">>, <<>>)
          @@ "L" :> ContractDefinition("library", <<"L">>, <<>>, <<"L.add">>, <<>>, <<>>, <<>>),
          "T.c" :> FunctionDefinition("", "constructor", TRUE, TRUE, "T", <<"w">>, <<>>, <<>>,
                      Block(<<Set(Id("c"), FunctionCall("Creation", None, "K", Identifier("K"), <<>>)), Set(Id("z"), Id("w"))>>))
          @@ "T.f" :> FunctionDefinition("f", "function", TRUE, TRUE, "T", <<"p", "q">>, <<>>, mods, body)
          @@ "pair" :> Internal("pair", "T", <<"p1", "p2">>, <<"r1", "r2">>,
                          Block(<<Return(<<TupleExpression(<<Bin(Id("p2"), "+", Num(1)), Id("p1")>>)>>)>>))
          @@ "tick" :> Internal("tick", "T", <<>>, <<"r3">>, Block(<<Inc(Id("x")), Return(<<Id("x")>>)>>))
          @@ "set" :> Method("set", "K", <<"p1">>, <<>>, <<>>, Block(<<Set(Id("kx"), Bin(Id("p1"), "+", Num(1)))>>))
          @@ "get" :> Method("get", "K", <<>>, <<"r3">>, <<>>, Block(<<Return(<<Id("kx")>>)>>))
          @@ "who" :> Method("who", "K", <<>>, <<>>, <<>>, Block(<<If(Bin(Sender, "==", Num(1)), Set(Id("kv"), Num(7)))>>))
          @@ "pay" :> FunctionDefinition("pay", "function", TRUE, TRUE, "K", <<>>, <<>>, <<>>, Block(<<Inc(Id("kx"))>>))
          @@ "L.add" :> Internal("add", "L", <<"p1", "p2">>, <<"r3">>,
                           Block(<<Return(<<Bin(Id("p1"), "+", Id("p2"))>>)>>)),
          "once" :> ModifierDefinition("once", <<>>, Block(<<Require(Bin(Id("z"), "<", Num(9))), PlaceholderStatement, Inc(Id("z"))>>))
          @@ "guard" :> ModifierDefinition("guard", <<"v">>,
                           Block(<<Add(Id("z"), Id("v")), If(Bin(Id("v"), "!=", Num(3)), Stmts(<<PlaceholderStatement>>)), Dec(Id("v"))>>)),
          [d \in {"x", "z", "kx"} |-> State(d, "uint")]
          @@ "kv" :> VariableDeclaration("kv", "uint", None, "state", TRUE, <<>>)
          @@ [d \in {"a", "sender"} |-> State(d, "address")]
          @@ "str" :> State("str", "string")
          @@ "m" :> nums @@ "n" :> nest
          @@ "mv" :> VariableDeclaration("", "uint", None, "field", FALSE, <<>>)
          @@ "s" :> VariableDeclaration("s", "struct", <<"s1", "s2">>, "state", FALSE, <<>>)
          @@ [d \in {"s1", "s2"} |-> VariableDeclaration(d, "uint", None, "field", FALSE, <<>>)]
          @@ "r" :> VariableDeclaration("r", "struct", <<"s1", "s2">>, "storage", FALSE, <<>>)
          @@ "c" :> VariableDeclaration("c", "contract", "K", "state", FALSE, <<>>)
          @@ [d \in {"p", "q", "w", "p1", "p2", "v"} |-> Param(d, "uint")]
          @@ [d \in {"r1", "r2", "r3"} |-> Ret("", "uint")]
          @@ "i" :> LocalVar("i", "uint") @@ "lx" :> LocalVar("x", "uint") @@ "ly" :> LocalVar("x", "uint"),
          <<"T">>)

Modifiers == {<<>>, <<ModifierInvocation("once", None), ModifierInvocation("guard", <<Bin(Id("p"), "+", Id("q"))>>)>>}

Translations == {Translated1(n, ms) : n \in DOMAIN Bodies, ms \in Modifiers}

-----------------------------------------------------------------------------
(***************************************************************************)
(* Addresses that flow through a loop: f(a, b) repeats three assignments.  *)
(***************************************************************************)
Flows ==
    [xa |-> Set(Id("x"), Id("a")), xb |-> Set(Id("x"), Id("b")), yx |-> Set(Id("y"), Id("x")),
     sy |-> Set(Id("s"), Id("y")), my |-> Set(At("m", Id("y")), Num(1)),
     eq |-> If(Bin(Id("y"), "==", Sender), Set(Id("k"), Num(2))),
     swap |-> Set(TupleExpression(<<Id("x"), Id("y")>>), TupleExpression(<<Id("y"), Id("x")>>))]

Flow(three) ==
    Program("flow",
        "T" :> Contract(<<"T">>, <<>>, <<"T.f">>, <<"s", "k", "m">>, <<>>),
        "T.f" :> Method("f", "T", <<"a", "b">>, <<>>, <<>>,
            Block(<<Let("x", Sender), Let("y", Sender), Let("i", Num(0)),
                    WhileStatement(Bin(Id("i"), "<", Num(3)),
                        Block(<<Inc(Id("i"))>> \o [j \in DOMAIN three |-> Flows[three[j]]]), FALSE)>>)),
        <<>>,
        "s" :> State("s", "address") @@ "k" :> State("k", "uint")
        @@ "m" :> VariableDeclaration("m", "mapping", [keys |-> <<"address">>, value |-> "mv"], "state", FALSE, <<>>)
        @@ "mv" :> VariableDeclaration("", "uint", None, "field", FALSE, <<>>)
        @@ "a" :> Param("a", "address") @@ "b" :> Param("b", "address")
        @@ "x" :> LocalVar("x", "address") @@ "y" :> LocalVar("y", "address") @@ "i" :> LocalVar("i", "uint"),
        <<"T">>)

FlowPrograms == {Flow(three) : three \in {<<f, g, h>> : f, g, h \in DOMAIN Flows}}

-----------------------------------------------------------------------------
(***************************************************************************)
(* Allocations: P may allocate a K in its constructor, a Q, which          *)
(* allocates another K, and a K in a method or in a function it calls.     *)
(***************************************************************************)
New(d, c) == Set(Id(d), FunctionCall("Creation", None, c, Identifier(c), <<>>))

Alloc(ctor, where) ==
    LET news == [none |-> <<>>, k |-> <<New("c", "K")>>, kq |-> <<New("c", "K"), New("d", "Q")>>,
                 qk |-> <<New("d", "Q"), New("c", "K")>>]
        late(w) == IF where = w THEN <<New("e", "K")>> ELSE <<>>
    IN  Program("alloc",
          "P" :> Contract(<<"P">>, <<>>, <<"P.c", "P.f", "P.h">>, <<"c", "d", "e">>, <<>>)
          @@ "Q" :> Contract(<<"Q">>, <<>>, <<"Q.c">>, <<"k">>, <<>>)
          @@ "K" :> Contract(<<"K">>, <<>>, <<>>, <<"x">>, <<>>),
          "P.c" :> Constructor("P", <<>>, <<>>, Block(news[ctor] \o late("ctor")))
          @@ "P.f" :> Method("f", "P", <<>>, <<>>, <<>>, Block(<<Call("P.h", <<>>)>> \o late("method")))
          @@ "P.h" :> Internal("h", "P", <<>>, <<>>, Block(late("helper")))
          @@ "Q.c" :> Constructor("Q", <<>>, <<>>, Block(<<New("k", "K")>>)),
          <<>>,
          [v \in {"c", "e", "k"} |-> VariableDeclaration(v, "contract", "K", "state", FALSE, <<>>)]
          @@ "d" :> VariableDeclaration("d", "contract", "Q", "state", FALSE, <<>>)
          @@ "x" :> State("x", "uint"),
          <<"P">>)

Allocs == {Alloc(c, w) : c \in {"none", "k", "kq", "qk"}, w \in {"no", "ctor", "method", "helper"}}

-----------------------------------------------------------------------------
(***************************************************************************)
(* Programs that are compiled and executed, without a model.  T has a      *)
(* method f(p, q), an internal function g(a) that writes x, h() that       *)
(* counts x, w() that reads it, and modifiers.  The body of f and the      *)
(* functions that T has vary.                                              *)
(***************************************************************************)
NumMap(n) == VariableDeclaration(n, "mapping", [keys |-> <<"bool">>, value |-> "mv"], "state", FALSE, <<>>)
Pointer(n) == VariableDeclaration(n, "struct", <<"s1">>, "storage", FALSE, <<>>)
Truth == Literal("bool", 1)

Plain(id, vs, funs, body, mods, mutability, smt) ==
    LET all ==
          "f" :> Method("f", "T", <<"p", "q">>, <<>>, mods, Block(body))
          @@ "g" :> Internal("g", "T", <<"a">>, <<"r">>, Block(<<Set(Id("x"), Id("a")), Return(<<Id("a")>>)>>))
          @@ "h" :> Internal("h", "T", <<>>, <<"r2">>, Block(<<Inc(Id("x")), Return(<<Bin(Id("x"), "==", Num(2))>>)>>))
          @@ "w" :> Internal("w", "T", <<>>, <<"r">>, Block(<<Return(<<Id("x")>>)>>))
        ms  ==
          "guard" :> ModifierDefinition("guard", <<"v">>, Block(<<Require(Bin(Id("v"), "<", Num(3))), PlaceholderStatement,
                                                                  Assertion(Bin(Id("x"), "<", Num(3)))>>))
          @@ "bump" :> ModifierDefinition("bump", <<>>, Block(<<Inc(Id("x")), PlaceholderStatement>>))
          @@ "peek" :> ModifierDefinition("peek", <<>>, Block(<<Require(Bin(Id("x"), ">", Num(0))), PlaceholderStatement>>))
        has == {m \in DOMAIN ms : \E i \in DOMAIN mods : mods[i].of = m}
    IN  [Program(id,
           "T" :> ContractDefinition("contract", <<"T">>, <<>>, funs, vs, SetToSeq(has), <<<<"s1">>>>),
           [f \in ToSet(funs) |-> all[f]],
           [m \in has |-> ms[m]],
           "x" :> State("x", "uint") @@ "m" :> NumMap("m") @@ "n" :> NumMap("n")
           @@ "mv" :> VariableDeclaration("", "uint", None, "field", FALSE, <<>>)
           @@ "s" :> VariableDeclaration("s", "struct", <<"s1">>, "state", FALSE, <<>>)
           @@ "s1" :> VariableDeclaration("s1", "uint", None, "field", FALSE, <<>>)
           @@ "r0" :> Pointer("r0") @@ "r1" :> Pointer("r1")
           @@ [d \in {"p", "q", "a", "v"} |-> Param(d, "uint")]
           @@ "r" :> Ret("", "uint") @@ "r2" :> Ret("", "bool")
           @@ "i" :> LocalVar("i", "uint")
           @@ "k1" :> VariableDeclaration("k1", "uint", None, "constant", FALSE, <<Num(1)>>),
           <<>>) EXCEPT !.mutability = mutability, !.smt = smt]

PlainTx(f, as, mem) == [fn |-> f, args |-> as, mem |-> mem]

-----------------------------------------------------------------------------
(***************************************************************************)
(* Assertions and divisions for the SMT checker.  It goes on behind a      *)
(* return, break or continue as if that were not there, and excludes a     *)
(* zero divisor, and what ++ or -- take out of range, on every path.  So   *)
(* no assertion here that is reached after a jump depends on what the jump *)
(* skips, no division is in a branch that an assertion follows, and no     *)
(* requirement is about a variable after ++ or --.                         *)
(***************************************************************************)
Sets(d, e) == Set(Id(d), e)
AtMost(d, e) == Bin(Bin(Id(d), "<", Id(e)), "||", Bin(Id(d), "==", Id(e)))

SmtBodies ==
    <<<<Require(Bin(Id("p"), "<", Num(3))), Sets("x", Bin(Id("p"), "+", Num(1))), Assertion(Bin(Id("x"), ">", Num(0)))>>,
      <<Sets("x", Bin(Id("p"), "+", Num(1))), Assertion(Bin(Id("x"), ">", Num(0)))>>,
      <<Sets("x", Num(0)),
        IfStatement(Bin(Id("p"), ">", Id("q")), Block(<<Sets("x", Id("p"))>>), <<Block(<<Sets("x", Id("q"))>>)>>),
        Assertion(Bin(Bin(Id("x"), "==", Id("p")), "||", Bin(Id("x"), "==", Id("q"))))>>,
      <<Sets("x", Num(0)), If(Bin(Id("p"), ">", Id("q")), Block(<<Sets("x", Num(1))>>)), Assertion(Bin(Id("x"), "==", Num(0)))>>,
      <<Sets("x", Num(1)),
        WhileStatement(Bin(Id("p"), ">", Num(0)),
            Block(<<Sets("p", Bin(Id("p"), "-", Num(1))), Sets("x", Num(2))>>), FALSE),
        Assertion(Bin(Id("x"), ">", Num(0)))>>,
      <<Sets("x", Num(1)),
        WhileStatement(Bin(Id("p"), ">", Num(0)),
            Block(<<Dec(Id("p")), Sets("x", Id("q")), Sets("q", Num(0))>>), FALSE),
        Assertion(Bin(Bin(Id("x"), "==", Id("q")), "||", Bin(Id("x"), ">", Num(0))))>>,
      <<Sets("x", Num(0)), Sets("q", Num(0)),
        WhileStatement(Bin(Id("p"), ">", Id("x")), Block(<<Sets("x", Id("q")), Sets("q", Id("p"))>>), FALSE),
        Assertion(Bin(Id("x"), "==", Num(0)))>>,
      <<Sets("q", Num(2)), Require(Bin(Call("g", <<Id("q")>>), ">", Id("p"))), Assertion(Bin(Id("x"), "==", Num(2)))>>,
      <<Sets("x", Num(0)), If(Bin(Id("p"), ">", Id("q")), Block(<<Call("g", <<Id("p")>>)>>)), Assertion(Bin(Id("x"), "==", Num(0)))>>,
      <<Sets("x", Num(0)), If(Bin(Bin(Id("p"), ">", Num(1)), "||", Bin(Call("g", <<Num(3)>>), ">", Id("q"))), Block(<<Sets("q", Num(0))>>)),
        Assertion(Bin(Id("x"), "!=", Num(1)))>>,
      <<Sets("x", Num(0)),
        If(Bin(Bin(Id("p"), ">", Num(0)), "&&", Call("h", <<>>)), Block(<<Sets("x", Num(1))>>)),
        Assertion(Bin(Id("x"), "<", Num(2)))>>,
      <<ForStatement(<<Let("i", Num(0))>>, <<Bin(Id("i"), "<", Id("p"))>>, <<Inc(Id("i"))>>, Block(<<Sets("x", Num(1))>>)),
        Assertion(Bin(Id("x"), "<", Num(3)))>>,
      <<Sets("x", Num(0)), WhileStatement(Bin(Id("p"), ">", Num(2)), Block(<<Sets("p", Num(0))>>), TRUE),
        Assertion(Bin(Id("p"), "<", Num(3)))>>,
      <<Sets("x", Bin(Id("p"), "/", Id("q"))), Assertion(AtMost("x", "p"))>>,
      <<Require(Bin(Id("q"), ">", Num(0))), Sets("x", Bin(Id("p"), "/", Id("q"))), Assertion(AtMost("x", "p"))>>,
      <<Sets("x", Bin(Id("p"), "%", Num(3))), Assertion(Bin(Id("x"), "<", Num(3)))>>,
      <<Require(Bin(Id("q"), ">", Id("p"))), Sets("x", Bin(Num(3), "%", Bin(Id("q"), "-", Id("p")))), Assertion(Bin(Id("x"), "<", Id("q")))>>,
      <<Call("g", <<Id("q")>>), Assignment(Id("p"), "/", Id("x")), Assertion(Bin(Id("x"), "==", Id("q")))>>>>

\* Jumps, in functions without a modifier that goes on behind them.
JumpBodies ==
    <<<<If(Bin(Id("q"), ">", Num(0)), Block(<<Sets("x", Bin(Id("p"), "/", Id("q"))), Assertion(AtMost("x", "p")), Return(<<>>)>>))>>,
      <<If(Bin(Id("p"), ">", Id("q")), Block(<<Sets("x", Num(1)), Return(<<>>)>>)), Sets("x", Id("q")), Assertion(Bin(Id("x"), "==", Id("q")))>>,
      <<If(Bin(Id("q"), "==", Num(0)), Block(<<Return(<<>>)>>)), Sets("x", Bin(Id("p"), "/", Id("q"))), Assertion(AtMost("x", "p"))>>,
      <<Sets("x", Num(1)),
        WhileStatement(Bin(Id("p"), ">", Num(0)),
            Block(<<Sets("p", Bin(Id("p"), "-", Num(1))), Sets("x", Num(2)), If(Bin(Id("q"), ">", Num(1)), Block(<<Break>>))>>), FALSE),
        Assertion(Bin(Id("x"), ">", Num(0)))>>,
      <<Sets("x", Num(0)),
        ForStatement(<<Let("i", Num(0))>>, <<Bin(Id("i"), "<", Id("p"))>>, <<Inc(Id("i"))>>,
            Block(<<If(Bin(Id("i"), "==", Id("q")), Block(<<Continue>>)), Sets("x", Id("i")), Assertion(Bin(Id("x"), "<", Id("p")))>>))>>>>

AliasBody ==
    <<Set(At("m", Truth), Id("p")), Set(At("n", Truth), Id("q")), Assertion(Bin(At("m", Truth), "==", Id("p")))>>

SmtPrograms ==
    {Plain("smt", <<"x">>, <<"f", "g", "h">>, SmtBodies[i], ms, <<>>, TRUE) :
        i \in DOMAIN SmtBodies, ms \in {<<>>, <<ModifierInvocation("guard", <<Id("q")>>)>>}}
    \cup {Plain("smt", <<"x">>, <<"f">>, JumpBodies[i], <<>>, <<>>, TRUE) : i \in DOMAIN JumpBodies}
    \cup {Plain("smt", <<"m", "n">>, <<"f">>, AliasBody, <<>>, <<>>, TRUE)}

-----------------------------------------------------------------------------
(***************************************************************************)
(* Functions that are declared pure or view, with two statements each.     *)
(***************************************************************************)
ViewStmts ==
    {Sets("p", Id("x")), Sets("x", Id("p")), Inc(Id("x")), Sets("p", Bin(Id("q"), "+", Id("k1"))),
     Set(TupleExpression(<<Id("p"), Id("x")>>), TupleExpression(<<Id("q"), Id("p")>>)),
     Set(At("m", Truth), Id("p")), Sets("p", At("m", Truth)),
     Set(SField(Id("s"), "s1"), Id("q")), Let("r0", Id("s")), Sets("p", Call("g", <<Id("q")>>)), Sets("p", Call("w", <<>>)),
     If(Bin(Id("p"), ">", Num(1)), Block(<<Dec(SField(Id("s"), "s1"))>>))}

ViewPrograms ==
    {Plain("view", <<"x", "m", "s", "k1">>, <<"f", "g", "w">>, <<u, v>>, ms, "w" :> 1 @@ "f" :> level, FALSE) :
        u \in ViewStmts, v \in {Set(SField(Id("r0"), "s1"), Num(1)), Sets("q", Id("p")), Return(<<>>)},
        ms \in {<<>>, <<ModifierInvocation("bump", None)>>, <<ModifierInvocation("peek", None)>>}, level \in {0, 1}}

\* g of A is declared with one mutability and overridden with another.
Override(base, over, level) ==
    [Program("view",
        "A" :> Contract(<<"A">>, <<>>, <<"f", "A.g">>, <<"x">>, <<>>)
        @@ "T" :> Contract(<<"T", "A">>, <<InheritanceSpecifier("A", None)>>, <<"T.g">>, <<>>, <<>>),
        "f" :> Method("f", "A", <<>>, <<>>, <<>>, Block(<<Call("A.g", <<>>)>>))
        @@ "A.g" :> Internal("g", "A", <<>>, <<>>, Block(<<>>))
        @@ "T.g" :> Internal("g", "T", <<>>, <<>>, Block(<<Inc(Id("x"))>>)),
        <<>>, "x" :> State("x", "uint"), <<>>)
     EXCEPT !.mutability = (IF base < 2 THEN "A.g" :> base ELSE <<>>) @@ (IF over < 2 THEN "T.g" :> over ELSE <<>>)
                           @@ ("f" :> level)]

Overrides == {Override(b, o, l) : b \in 0 .. 2, o \in 0 .. 2, l \in {0, 1}}

-----------------------------------------------------------------------------
(***************************************************************************)
(* A storage pointer that is declared first and assigned or not on the     *)
(* paths of a function; with late, after a branch.                         *)
(***************************************************************************)
Point == Sets("r0", Id("s"))
Use == Sets("x", SField(Id("r0"), "s1"))
Low == Bin(Id("p"), "<", Num(1))
Step == Sets("p", Num(0))

PointerParts ==
    {Point, If(Low, Block(<<Point>>)), IfStatement(Low, Block(<<Point>>), <<Block(<<Return(<<>>)>>)>>),
     If(Low, Block(<<Use>>)), Require(Low),
     IfStatement(Low, Block(<<Point>>), <<Block(<<Require(Low), Use>>)>>),
     WhileStatement(Bin(Id("p"), ">", Num(0)), Block(<<Step, Point>>), FALSE),
     WhileStatement(Bin(Id("p"), ">", Num(0)), Block(<<Step, If(Bin(Id("q"), ">", Num(1)), Block(<<Break>>)), Point>>), TRUE),
     WhileStatement(Bin(Id("p"), ">", Num(0)), Block(<<If(Bin(Id("q"), ">", Num(1)), Block(<<Use>>)), Step, Sets("q", Num(2))>>), FALSE),
     ForStatement(<<Let("i", Num(0))>>, <<Bin(Id("i"), "<", Id("p"))>>, <<Point>>,
                  Block(<<Inc(Id("i")), If(Bin(Id("q"), ">", Num(1)), Block(<<Continue>>))>>)),
     ForStatement(<<Let("i", Num(0))>>, <<Bin(Id("i"), "<", Id("p"))>>, <<Inc(Id("i"))>>,
                  Block(<<If(Bin(Id("i"), "==", Num(1)), Block(<<Use, Return(<<>>)>>)), If(Bin(Id("q"), ">", Num(0)), Block(<<Point>>))>>))}

PointerProgram(body) == Plain("pointer", <<"x", "s">>, <<"f">>, body, <<>>, <<>>, FALSE)

PointerPrograms == {PointerProgram(<<VariableDeclarationStatement("r0", <<>>), a, b, Use>>) : a, b \in PointerParts}

MCLatePointers ==
    {PointerProgram(<<If(Low, Block(<<Step>>)), VariableDeclarationStatement("r0", <<>>), a, Use>>) : a \in PointerParts}

\* Constants k0, k1 and k2, each defined by the constants in deps.
ConstProgram(deps) ==
    LET cs == {"k0", "k1", "k2"}
        val(c) == FoldSet(LAMBDA d, e : Bin(e, "+", Id(d)), Num(1), deps[c])
    IN  Program("const",
          "T" :> Contract(<<"T">>, <<>>, <<"f">>, <<"x", "k0", "k1", "k2">>, <<>>),
          "f" :> Method("f", "T", <<>>, <<>>, <<>>, Block(<<Sets("x", Id("k0"))>>)), <<>>,
          "x" :> State("x", "uint")
          @@ [c \in cs |-> VariableDeclaration(c, "uint", None, "constant", FALSE, <<val(c)>>)],
          <<>>)

ConstPrograms == {ConstProgram("k0" :> a @@ "k1" :> b @@ "k2" :> c) : a, b, c \in SUBSET {"k0", "k1", "k2"}}

-----------------------------------------------------------------------------
(***************************************************************************)
(* Names: up to four statements that declare or use y, in nested scopes.   *)
(***************************************************************************)
Seen == Sets("x", Id("y1"))

ScopeParts ==
    {Let("y1", Num(1)), Let("y2", Id("y1")), Seen, Block(<<Let("y2", Num(2)), Seen>>), Block(<<Let("z", Num(4)), Seen, Let("y3", Num(3)), Seen>>),
     ForStatement(<<Let("y3", Num(0))>>, <<Bin(Id("y1"), "<", Num(2))>>, <<Inc(Id("y1"))>>, Block(<<Seen, Let("y1", Id("y1"))>>))}

\* Parameter or state variable of the same name: y0.
ScopeProgram(body, where) ==
    Program("scope",
        "T" :> Contract(<<"T">>, <<>>, <<"f">>, <<"x">> \o (IF where = "state" THEN <<"y0">> ELSE <<>>), <<>>),
        "f" :> Method("f", "T", IF where = "param" THEN <<"y0">> ELSE <<>>, <<>>, <<>>, Block(body)), <<>>,
        "x" :> State("x", "uint") @@ [d \in {"y1", "y2", "y3"} |-> LocalVar("y", "uint")] @@ "z" :> LocalVar("z", "uint")
        @@ "y0" :> IF where = "state" THEN State("y", "uint") ELSE Param("y", "uint"),
        <<>>)

ScopePrograms == {ScopeProgram(<<a, b, c>>, w) : a, b, c \in ScopeParts, w \in {"none", "param", "state"}}

-----------------------------------------------------------------------------
(***************************************************************************)
(* Contracts A, B, C and D, each with any list of bases before it.  Their  *)
(* linearisation is not given: only names are resolved.                    *)
(***************************************************************************)
Lists(cs) == {<<>>} \cup {<<c>> : c \in cs} \cup {l \in cs \X cs : l[1] /= l[2]} 

TreeProgram(b, c, d) ==
    LET con(l) == Contract(<<>>, [i \in DOMAIN l |-> InheritanceSpecifier(l[i], None)], <<>>, <<>>, <<>>)
    IN  [Program("tree", "A" :> con(<<>>) @@ "B" :> con(b) @@ "C" :> con(c) @@ "D" :> con(d), <<>>, <<>>, <<>>, <<>>)
         EXCEPT !.order = <<"A", "B", "C", "D">>]

TreePrograms ==
    {TreeProgram(b, c, d) : b \in Lists({"A"}), c \in Lists({"A", "B"}), d \in Lists({"A", "B", "C"}) \cup {<<"A", "B", "C">>, <<"C", "B", "A">>, <<"B", "C", "A">>}}

-----------------------------------------------------------------------------
(***************************************************************************)
(* Programs with types: a contract with a list of state variables and a    *)
(* function of a few expressions.                                          *)
(***************************************************************************)
Ty(p) == INSTANCE SolTypes WITH typed <- p

U(n) == Ty(None)!IntegerType(n, FALSE)
I(n) == Ty(None)!IntegerType(n, TRUE)
B(n) == Ty(None)!FixedBytesType(n)
Color == Ty(None)!EnumType("Color", 3)
Addr == Ty(None)!AddressType(TRUE)
Owner == Ty(None)!ContractType("Owner", {"Owner"}, TRUE)

Category(t) ==
    CASE t.cat = "Array" -> "array" [] t.cat = "Struct" -> "struct" [] t.cat = "Mapping" -> "mapping" [] OTHER -> "uint"

TypedProgram(id, layout, body) ==
    LET vs == [i \in DOMAIN layout |-> layout[i][1]]
        type == [d \in ToSet(vs) |-> layout[CHOOSE i \in DOMAIN vs : vs[i] = d][2]]
    IN  [Program(id, "T" :> Contract(<<"T">>, <<>>, <<"f">>, vs, <<>>),
                 "f" :> Method("f", "T", <<>>, <<>>, <<>>, Block(body)), <<>>,
                 [d \in ToSet(vs) |-> State(d, Category(type[d]))], <<>>)
         EXCEPT !.typed = [vars |-> vs, type |-> type]]

Cast(t, e) == Conversion(t, None, e)
Hex(v, n) == Literal("hex", <<v, n>>)
Neg(e) == UnaryOperation("-", e, TRUE)
Not(e) == UnaryOperation("~", e, TRUE)
Delete(e) == UnaryOperation("delete", e, TRUE)
LengthOf(e) == MemberAccess(e, "length", None)
PushTo(e, v) == FunctionCall("ArrayPush", None, None, MemberAccess(e, "push", None), <<v>>)
PopFrom(e) == FunctionCall("ArrayPop", None, None, MemberAccess(e, "pop", None), <<>>)
Field(e, n) == MemberAccess(e, n, None)
Whole(n) == IF n < 0 THEN Neg(Num(- n)) ELSE Num(n)

\* Values that share slots.
Scalars ==
    <<<<"u1", U(1)>>, <<"i1", I(1)>>, <<"u2", U(2)>>, <<"i2", I(2)>>, <<"b1", B(1)>>, <<"t", Ty(None)!BoolType>>,
      <<"w", U(4)>>, <<"b2", B(2)>>, <<"en", Color>>, <<"ad", Addr>>, <<"v1", U(1)>>, <<"j1", I(1)>>,
      <<"iw", I(4)>>, <<"ow", Owner>>, <<"j2", I(2)>>, <<"v2", U(2)>>, <<"c2", B(2)>>>>

\* A result is put into a wide variable, and a value of one byte beside others.
Wide(e) == <<Set(Id("w"), e), Set(Id("u1"), Cast(U(1), e))>>
WideInt(e) == <<Set(Id("iw"), e), Set(Id("i1"), Cast(I(1), e))>>
Bool(e) == <<Set(Id("t"), e)>>

Sum1 == Bin(Id("u1"), "+", Id("v1"))
Diff1 == Bin(Id("i1"), "-", Id("j1"))

ScalarBodies ==
    {Wide(Bin(Id(l), op, Id(r))) : l \in {"u1", "u2"}, r \in {"v1", "v2"}, op \in {"+", "-", "*", "/", "%", "**", "&", "^"}}
    \cup {Wide(Bin(Sum1, op, Id("v1"))) : op \in {"/", "%", "**", "|", ">>", "<<"}}
    \cup {WideInt(Bin(Id("i2"), op, Id(r))) : r \in {"j1", "j2"}, op \in {"+", "-", "*", "/", "%", "|", "^"}}
    \cup {WideInt(Bin(Diff1, op, Id("j1"))) : op \in {"/", "%", "&"}}
    \cup {WideInt(Bin(e, op, Id(n))) : e \in {Diff1, Id("i2")}, n \in {"u1", "i1"}, op \in {"<<", ">>"}}
    \cup {Bool(Bin(e, op, Id("u2"))) : e \in {Sum1, Not(Id("u1"))}, op \in {"==", "!=", "<", ">", "<=", ">="}}
    \cup {Bool(Bin(Diff1, op, Neg(Id("j1")))) : op \in {"==", "!=", "<", ">", "<=", ">="}}
    \cup {Bool(Bin(Bin(Id("b2"), sh, Id("u1")), op, Bin(Id("c2"), "|", Id("b1")))) : sh \in {"<<", ">>"}, op \in {"==", "<", ">="}}
    \cup {Bool(Bin(UnaryOperation("!", Id("t"), TRUE), op, Bin(Id("u1"), ">", Id("v1")))) : op \in {"&&", "||", "=="}}
    \cup {<<Assignment(Id("u1"), op, Id("v1"))>> : op \in {"+", "-", "*", "/", "%", "<<", ">>", "&"}}
    \cup {<<Assignment(Id("i2"), op, Id("j1"))>> : op \in {"+", "-", "*", "/", "%", "<<", ">>", "^"}}
    \cup {<<Assignment(Id("b2"), op, Id("b1"))>> : op \in {"&", "|", "^"}}
    \cup {Wide(UnaryOperation(op, Id("v1"), pre)) \o WideInt(UnaryOperation(op, Id("j1"), pre)) : op \in {"++", "--"}, pre \in BOOLEAN}

ConversionBodies ==
    {Wide(Cast(U(1), Id(v))) : v \in {"u2", "i2", "w", "iw", "ad", "en"}}
    \cup {WideInt(Cast(I(1), Id(v))) : v \in {"u2", "i2", "w", "iw"}}
    \cup {Wide(Cast(U(2), Cast(I(2), e))) : e \in {Id("i1"), Diff1, Neg(Id("j1"))}}
    \cup {<<Set(Id("ad"), Cast(Addr, e)), Set(Id("ow"), Cast(Owner, e))>> : e \in {Id("u2"), Id("w"), Sum1}}
    \cup {<<Set(Id("en"), Cast(Color, e))>> : e \in {Sum1, Diff1, Id("u2"), Num(2)}}
    \cup {<<Set(Id("t"), Bin(Id("en"), ">", Cast(Color, Num(0)))), Set(Id("t"), Bin(Cast(Addr, Id("ow")), "==", Id("ad")))>>,
          <<Set(Id("b2"), Cast(B(2), Bin(Id("b1"), ">>", Id("v1"))))>>,
          <<Set(Id("b1"), Cast(B(1), Bin(Id("b2"), "<<", Id("v1"))))>>,
          <<Set(Id("b2"), Cast(B(2), Bin(Id("u2"), "*", Id("v1"))))>>,
          <<Set(Id("u2"), Cast(U(2), UnaryOperation("~", Id("b2"), TRUE)))>>,
          <<Set(Id("b2"), Bin(Id("b1"), "|", Hex(2, 1))), Set(Id("c2"), Literal("string", <<6, 3>>))>>,
          <<Set(Id("b1"), IndexAccess(Bin(Id("b2"), ">>", Num(1)), Id("v1")))>>,
          <<Set(Id("b1"), IndexAccess(Id("c2"), Num(1))), Set(Id("u1"), LengthOf(Id("c2")))>>,
          <<Set(Id("i2"), Conditional(Id("t"), Id("j1"), Bin(Id("i2"), "*", Id("j2")))),
            Set(Id("w"), Conditional(Id("t"), Num(300), Num(5)))>>,
          <<Set(Id("w"), Bin(Bin(Num(7), "/", Num(2)), "*", Num(4))), Set(Id("i1"), Bin(Neg(Num(5)), ">>", Num(1))),
            Set(Id("u2"), Bin(Bin(Num(2), "**", Num(5)), "|", Num(3))), Set(Id("t"), Bin(Num(3), "<", Num(20)))>>,
          <<Delete(Id("i1")), Delete(Id("b2")), Delete(Id("en")), Delete(Id("j2")), Set(Id("iw"), Neg(Num(2048)))>>,
          <<Set(Id("u1"), Id("u2"))>>, <<Set(Id("i1"), Id("u1"))>>, <<Set(Id("u1"), Num(8))>>, <<Set(Id("b2"), Num(9))>>}

\* All variables, from two numbers below 8.
ScalarSetup(a, b) ==
    <<Set(Id("u1"), Num(a)), Set(Id("v1"), Num(b)), Set(Id("i1"), Whole(a - 4)), Set(Id("j1"), Whole(b - 4)),
      Set(Id("u2"), Num(9 * a)), Set(Id("v2"), Num(b + 1)), Set(Id("i2"), Whole(9 * b - 32)), Set(Id("j2"), Whole(a - 3)),
      Set(Id("w"), Num(500 * a + 77)), Set(Id("iw"), Whole(500 * b - 1999)), Set(Id("b1"), Hex(b, 1)), Set(Id("b2"), Hex(9 * a, 2)),
      Set(Id("c2"), Hex(8 * b + a, 2)), Set(Id("t"), Literal("bool", Ty(None)!Truth(a > b))), Set(Id("en"), Cast(Color, Num(a % 3))),
      Set(Id("ad"), Literal("address", 9 * b)), Set(Id("ow"), Cast(Owner, Literal("address", 63 - a)))>>

\* A byte array, from short to long and back.
ByteLayout == <<<<"k", U(2)>>, <<"bs", Ty(None)!ByteArray>>, <<"n", U(1)>>>>

ByteParts ==
    {PushTo(Id("bs"), Hex(6, 1)), PopFrom(Id("bs")), Delete(Id("bs")), Delete(At("bs", Num(1))), Set(At("bs", Id("n")), Hex(5, 1)),
     Set(Id("n"), Cast(U(1), LengthOf(Id("bs"))))} \cup {Set(LengthOf(Id("bs")), Num(n)) : n \in {2, 4, 6}}

\* An array whose elements share slots, two in each.  A cut within a slot leaves
\* old elements behind, so the array does not grow by its length after one.
ArrayLayout == <<<<"k", U(2)>>, <<"ga", Ty(None)!ArrayType(I(2), None)>>, <<"n", U(1)>>, <<"fa", Ty(None)!ArrayType(U(1), 5)>>, <<"z", I(1)>>>>

Resize(n) == Set(LengthOf(Id("ga")), Num(n))

ArrayParts ==
    {PushTo(Id("ga"), Neg(Num(7))), PopFrom(Id("ga")), Delete(Id("ga")), Delete(At("ga", Num(0))), Delete(At("fa", Num(3))),
     Inc(At("ga", Id("n"))), Set(At("fa", Id("n")), Cast(U(1), LengthOf(Id("fa")))), Delete(Id("fa"))}

\* Structures, mappings and arrays in each other.
Inner == Ty(None)!StructType("Inner", <<<<"a", U(1)>>, <<"b", I(2)>>, <<"m", Ty(None)!MappingType(U(1), I(1))>>, <<"c", I(1)>>, <<"d", U(4)>>>>)

NestedLayout ==
    <<<<"n", U(1)>>, <<"st", Inner>>, <<"k", U(1)>>, <<"mp", Ty(None)!MappingType(I(1), Inner)>>, <<"sa", Ty(None)!ArrayType(Inner, None)>>,
      <<"aa", Ty(None)!ArrayType(Ty(None)!ArrayType(U(1), None), 2)>>, <<"ba", Ty(None)!MappingType(B(1), Ty(None)!ByteArray)>>>>

NestedParts ==
    LET places == {Id("st"), At("mp", Neg(Num(2))), At("sa", Id("n"))}
    IN  {Set(Field(p, f), Bin(Field(p, f), "+", Num(3))) : p \in places, f \in {"a", "c", "d"}}
        \cup {Set(IndexAccess(Field(p, "m"), Id("n")), Neg(Num(3))) : p \in places} \cup {Delete(p) : p \in places}
        \cup {Set(LengthOf(Id("sa")), Num(2)), PopFrom(Id("sa")), Delete(Id("sa")), PushTo(At("aa", Id("n")), Num(5)), Delete(Id("aa")),
              PushTo(At("ba", Hex(3, 1)), Hex(7, 1)), Delete(At("ba", Hex(3, 1)))}

TypedPrograms ==
    {TypedProgram("scalar", Scalars, b) : b \in ScalarBodies \cup ConversionBodies}
    \cup {TypedProgram("bytes", ByteLayout, <<a, b, Set(LengthOf(Id("bs")), Num(8))>>) : a, b \in ByteParts}
    \cup {TypedProgram("array", ArrayLayout, <<a, b, Resize(4)>>) : a, b \in ArrayParts \cup {Resize(2), Resize(4)}}
    \cup {TypedProgram("array", ArrayLayout, <<a, Resize(n)>>) : a \in ArrayParts \cup {Resize(2), Resize(4)}, n \in {1, 3}}
    \cup {TypedProgram("array", ArrayLayout, <<Resize(n), a>>) : a \in ArrayParts, n \in {1, 3}}
    \cup {TypedProgram("nested", NestedLayout, <<a, b>>) : a, b \in NestedParts}

-----------------------------------------------------------------------------
MCPrograms ==
    Diamonds \cup Translations \cup FlowPrograms \cup Allocs \cup SmtPrograms \cup ViewPrograms \cup Overrides
    \cup PointerPrograms \cup ConstPrograms \cup ScopePrograms \cup TreePrograms \cup TypedPrograms

MCStorages == {"x" :> v : v \in 0 .. 3}

Pairs == {<<a, b>> : a, b \in 0 .. 3}

MCTransactions ==
    ("diamond" :> {Tx(f, <<>>, <<>>, 5, 0) : f \in {"A.f", "A.g"}})
    @@ ("alloc" :> {Tx("P.f", <<>>, <<>>, 5, 0)})
    @@ ("flow" :> {Tx("T.f", <<>>, <<6, 1>>, 5, 0)})
    @@ ("smt" :> {PlainTx("f", as, "x" :> v) : as \in Pairs, v \in 0 .. 3})
    @@ ("view" :> {PlainTx("f", as, "x" :> v) : as \in {<<1, 2>>, <<3, 0>>}, v \in {0, 2}})
    @@ ("pointer" :> {PlainTx("f", as, <<>>) : as \in {<<a, b>> : a \in 0 .. 2, b \in 0 .. 2}})
    @@ ("const" :> {PlainTx("f", <<>>, <<>>)})
    @@ ("scope" :> {})
    @@ ("tree" :> {})
    @@ ("scalar" :> {PlainTx("f", <<>>, ScalarSetup(a, b)) : a \in {0, 1, 5, 7}, b \in {0, 3, 6}})
    @@ ("bytes" :> {PlainTx("f", <<>>, <<Set(Id("k"), Num(63)), Set(Id("n"), Num(1))>>
                                       \o [i \in 1 .. n |-> PushTo(Id("bs"), Hex(8 - i, 1))]) : n \in {0, 2, 3, 4, 5}})
    @@ ("array" :> {PlainTx("f", <<>>, <<Set(Id("k"), Num(63)), Set(Id("n"), Num(1)), Set(Id("z"), Neg(Num(1)))>>
                                       \o [i \in 1 .. 5 |-> Set(At("fa", Num(i - 1)), Num(8 - i))]
                                       \o [i \in 1 .. n |-> PushTo(Id("ga"), Neg(Num(i)))]) : n \in {0, 1, 2, 3}})
    @@ ("nested" :> {PlainTx("f", <<>>, <<Set(Id("k"), Num(7)), Set(Id("n"), Num(1)), Set(Field(Id("st"), "d"), Num(99)),
                                          Set(IndexAccess(Field(Id("st"), "m"), Num(1)), Num(2)), Set(Field(Id("st"), "b"), Neg(Num(9))),
                                          Set(Field(At("mp", Neg(Num(2))), "c"), Neg(Num(4)))>>
                                        \o [i \in 1 .. n |-> PushTo(At("aa", Num(i % 2)), Num(i))]) : n \in {0, 6}})
    @@ [n \in DOMAIN Bodies |-> {Tx("T.f", <<2>>, <<p, q>>, 5, v) : p \in 0 .. 2, q \in 0 .. 2, v \in {0, 2}}]
=============================================================================
