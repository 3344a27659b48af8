----------------------------- MODULE MCBackend -----------------------------
(***************************************************************************)
(* The back end for TLC.  The steps of the suite and of the passes over    *)
(* the assembly are given to Backend as constants.                         *)
(***************************************************************************)
EXTENDS Backend, YulCodegen, AsmAssembly

-----------------------------------------------------------------------------
(***************************************************************************)
(* The Yul programs that the runs compile, with abbreviations to write     *)
(* them.                                                                   *)
(***************************************************************************)
N(x) == <<x>>
V(x) == Id(N(x))
I(op, a) == Ins(op, a)
S(op, a) == ExprStmt(Ins(op, a))
F(f, a) == Call(N(f), a)
L(x, e) == Let(<<N(x)>>, <<e>>)
Set(x, e) == Assign(<<N(x)>>, e)
Arg(i) == I("calldataload", <<Lit(i)>>)
Put(k, e) == S("sstore", <<k, e>>)
\* a loop with break and continue, in a function
P1 == <<
  Function(N("sum"), <<N("n")>>, <<N("r")>>, <<
     For(<<L("i", Lit(0))>>, I("lt", <<V("i"), V("n")>>), <<Set("i", I("add", <<V("i"), Lit(1)>>))>>, <<
        If(I("eq", <<V("i"), Lit(2)>>), <<Continue>>),
        If(I("gt", <<V("i"), Lit(4)>>), <<Break>>),
        Set("r", I("add", <<V("r"), V("i")>>)) >>) >>),
  L("x", F("sum", <<Arg(0)>>)),
  Put(Lit(1), V("x")),
  Put(Lit(2), F("sum", <<I("and", <<Arg(2), Lit(15)>>)>>)) >>
\* switch, nested functions, shadowed names in disjoint scopes

P2 == <<
  Function(N("f"), <<N("a"), N("b")>>, <<N("c"), N("d")>>, <<
     Switch(V("a"), <<Case(<<Lit(0)>>, <<Set("c", V("b"))>>),
                      Case(<<Lit(1)>>, <<Set("d", I("mul", <<V("b"), Lit(3)>>)), L("t", V("d")), Set("c", V("t"))>>),
                      Case(<<>>, <<Set("c", F("g", <<V("a")>>))>>)>>) >>),
  Function(N("g"), <<N("a")>>, <<N("c")>>, <<Set("c", I("add", <<V("a"), I("sload", <<Lit(0)>>)>>))>>),
  Block(<<L("x", Arg(0)), Put(Lit(0), V("x"))>>),
  Block(<<L("x", Arg(1)), Let(<<N("p"), N("q")>>, <<F("f", <<V("x"), Arg(0)>>)>>),
          Put(V("p"), V("q")), If(I("iszero", <<I("sub", <<V("p"), V("q")>>)>>), <<S("revert", <<Lit(0), Lit(2)>>)>>)>>),
  S("mstore", <<Lit(0), I("mload", <<Lit(1)>>)>>),
  S("return", <<Lit(0), Lit(2)>>) >>
P3 == <<
  L("a", Arg(0)), L("b", V("a")), Set("a", I("add", <<V("b"), Lit(1)>>)),
  If(V("b"), <<Set("a", Lit(3)), Let(<<N("z")>>, <<>>), Put(V("z"), V("a"))>>),
  Put(Lit(1), V("a")), Put(Lit(2), V("b")),
  S("log1", <<Lit(0), Lit(1), I("mul", <<V("a"), Lit(0)>>)>>),
  Function(N("h"), <<>>, <<N("r")>>, <<Put(Lit(3), Lit(9)), Set("r", I("sload", <<Lit(3)>>))>>),
  Function(N("h2"), <<>>, <<N("rr")>>, <<Put(Lit(3), Lit(9)), Set("rr", I("sload", <<Lit(3)>>))>>),
  Put(F("h", <<>>), F("h2", <<>>)),
  Put(Lit(5), I("add", <<I("sload", <<Lit(3)>>), I("sub", <<V("a"), Lit(1)>>)>>)) >>
\* A function with a loop that is called twice, and inlined; its variable z is
\* not initialised.
P4 == <<
  Function(N("f"), <<N("a")>>, <<N("r")>>, <<
     Let(<<N("z")>>, <<>>),
     For(<<>>, V("a"), <<Set("a", I("sub", <<V("a"), Lit(1)>>))>>, <<
        Set("z", I("add", <<V("z"), V("a")>>)),
        If(I("gt", <<V("z"), Lit(6)>>), <<Break>>)>>),
     Set("r", I("add", <<V("r"), V("z")>>)) >>),
  For(<<L("i", Lit(0))>>, I("lt", <<V("i"), Lit(2)>>), <<Set("i", I("add", <<V("i"), Lit(1)>>))>>, <<
     Put(V("i"), F("f", <<I("and", <<Arg(1), Lit(3)>>)>>)) >>),
  Put(Lit(7), I("keccak256", <<Lit(0), Lit(2)>>)),
  S("stop", <<>>),
  Put(Lit(8), Lit(1)) >>

\* More variables than the stack gives access to, all of them needed at the end.
P5 == <<
  L("a", Arg(0)), L("b", I("caller", <<>>)), L("c", I("not", <<V("b")>>)), L("d", Arg(1)),
  L("e", I("mul", <<V("a"), V("d")>>)), L("g", I("sload", <<V("a")>>)), L("h", I("sload", <<V("d")>>)),
  L("x", Lit(1)),
  Put(V("x"), V("c")), Put(V("b"), V("e")), Put(V("e"), V("g")), Put(V("h"), V("d")),
  Set("x", I("or", <<V("a"), V("d")>>)),
  Put(V("g"), V("h")), Put(V("c"), V("x")), Put(V("a"), V("b")) >>

\* A switch in a loop, with branches that leave it; a mapping slot.
P6 == <<
  For(<<L("i", Lit(0)), L("s", Lit(1))>>, Lit(1), <<Set("i", I("add", <<V("i"), Lit(1)>>))>>, <<
     Switch(I("mod", <<V("i"), Lit(3)>>),
            <<Case(<<Lit(0)>>, <<If(I("eq", <<V("i"), Arg(0)>>), <<Set("s", Lit(5)), Continue>>)>>),
              Case(<<Lit(2)>>, <<S("mstore", <<Lit(0), V("s")>>), Put(I("keccak256", <<Lit(0), Lit(2)>>), V("i")), Break>>)>>),
     Set("s", I("shl", <<Lit(1), V("s")>>)) >>),
  S("mstore", <<Lit(0), I("signextend", <<Lit(0), Arg(1)>>)>>),
  S("log2", <<Lit(0), Lit(2), I("smod", <<Arg(0), Lit(3)>>), I("sar", <<Lit(1), Arg(1)>>)>>),
  S("revert", <<I("mload", <<Lit(0)>>), Lit(1)>>) >>

Programs == {P1, P2, P3, P4, P5, P6}

\* x is assigned under a condition, and read unless the loop is left before.
LostAssignment == <<
  For(<<>>, Lit(1), <<>>, <<
     L("x", Lit(1)),
     If(Arg(0), <<Set("x", Lit(2))>>),
     If(Arg(1), <<Break>>),
     Put(Lit(0), V("x")),
     S("stop", <<>>) >>) >>
-----------------------------------------------------------------------------
(***************************************************************************)
(* The steps, on a program.                                                *)
(***************************************************************************)

MCApply(step, b, d, opt) ==
    LET new == CASE step = "ExpressionSplitter" -> SplitBlock(b, d)
                 [] step = "SSATransform" -> SSATransform(b, d)
                 [] step = "FullInliner" -> FullInliner(b, d)
                 [] OTHER ->
                      [b |-> CASE step = "Disambiguator" -> Disambiguator(b)
                               [] step = "VarDeclInitializer" -> VarDeclInitializer(b)
                               [] step = "FunctionHoister" -> FunctionHoister(b)
                               [] step = "BlockFlattener" -> BlockFlattener(b)
                               [] step = "ForLoopInitRewriter" -> ForLoopInitRewriter(b)
                               [] step = "DeadCodeEliminator" -> DeadCodeEliminator(b)
                               [] step = "FunctionGrouper" -> FunctionGrouper(b)
                               [] step = "EquivalentFunctionCombiner" -> EquivalentFunctionCombiner(b)
                               [] step = "UnusedPruner" -> UnusedPruner(b)
                               [] step = "ControlFlowSimplifier" -> ControlFlowSimplifier(b)
                               [] step = "StructuralSimplifier" -> StructuralSimplifier(b)
                               [] step = "RedundantAssignEliminator" -> RedundantAssignEliminator(b)
                               [] step = "ExpressionSimplifier" -> ExpressionSimplifier(b)
                               [] step = "CommonSubexpressionEliminator" -> CommonSubexpressionEliminator(b)
                               [] step = "SSAReverser" -> SSAReverser(b)
                               [] step = "ExpressionJoiner" -> ExpressionJoiner(b)
                               [] step = "ExpressionInliner" -> ExpressionInliner(b)
                               [] step = "Rematerialiser" -> Rematerialiser(b, {})
                               [] step = "VarNameCleaner" -> VarNameCleaner(b)
                               [] OTHER -> StackCompressor(b, opt, 16),
                       st |-> d]
    IN  new

MCNewNames(b) == LET d == Dispenser(Names(b)) IN d

MCNamesOf(b) == LET xs == Names(b) IN xs

MCSizeOf(b) == LET n == codeSizeIncludingFunctions(b) IN n

MCAccepted(b) == LET ok == AsmAnalyzer(b) IN ok

LoopLeft == {LostAssignment}

\* Calldata of six bytes: words that are zero, small, and large at 0 and at 1.
Inputs ==
    {<<0, 0, 0, 0, 0, 0>>, <<0, 0, 0, 0, 1, 0>>, <<0, 0, 0, 1, 0, 1>>, <<0, 0, 0, 1, 1, 1>>,
     <<1, 0, 1, 0, 1, 1>>, <<1, 0, 0, 0, 0, 0>>, <<0, 0, 0, 0, 0, 1>>}

MCMeaning(b) == LET m == [i \in Inputs |-> Interpret(b, i)] IN m

OptimiserSettings ==
    [jumpdest |-> TRUE, peephole |-> TRUE, deduplicate |-> TRUE, cse |-> TRUE, constants |-> TRUE,
     isCreation |-> FALSE, runs |-> 200, shl |-> TRUE]

MCGenerate(b, opt) ==
    LET g == CodeTransform(b, opt) IN [a |-> Assembly(g.items), bytes |-> <<>>, ok |-> g.errs = <<>>]

MCOptimise(c) ==
    LET a == optimise(c.a, OptimiserSettings) IN IF c.ok THEN [c EXCEPT !.a = a] ELSE c

MCAssemble(c) ==
    LET r == assemble(c.a) IN IF c.ok THEN [c EXCEPT !.bytes = r.code, !.ok = r.ok] ELSE c

MCRuns(c) ==
    LET m == [i \in Inputs |-> IF c.bytes = <<>> THEN Execute(c.a.items, i) ELSE ExecuteCode(c.bytes, i)] IN m
-----------------------------------------------------------------------------
(***************************************************************************)
(* Pieces of assembly, run on a few stacks with a storage and a memory     *)
(* that tell words apart.                                                  *)
(***************************************************************************)
Items ==
    {Push(0), Push(1), DupItem(1), DupItem(2), SwapItem(1), SwapItem(2), PopItem, Op("sub"),
     Op("mstore"), Op("mload"), Op("sstore"), Op("sload"), Op("iszero")}

\* Loads and stores at places that may or may not be the same, or overlap.
Accesses ==
    {<<DupItem(2), DupItem(2), Op("sstore")>>,
     <<DupItem(3), DupItem(3), Op("sstore")>>,
     <<DupItem(1), Op("sload")>>,
     <<DupItem(2), Op("sload"), SwapItem(1)>>,
     <<Push(3), DupItem(2), Op("mstore")>>,
     <<DupItem(2), Push(1), DupItem(3), Op("add"), Op("mstore")>>,
     <<DupItem(2), Op("mload"), SwapItem(1)>>,
     <<Push(2), DupItem(2), Op("mstore8")>>,
     <<Push(WordBytes), DupItem(2), Op("keccak256")>>,
     <<SwapItem(2)>>}

MCPhrases == [items |-> {<<i>> : i \in Items}, accesses |-> Accesses]

SomeWorld ==
    [World(<<1, 0, 1>>) EXCEPT !.sto = [x \in Word |-> (7 * x) % Modulus],
                               !.mem = [x \in Word |-> (3 * x + 1) % (ByteMask + 1)]]

Stacks == {<<1, 2, 3, 4, 5, 1, 2>>, <<1, 1, 1, 1, 1, 1, 1>>, <<3, 0, 2, 0, 1, 3, 0>>, <<0, 1, 0, 2, 0, 1, 2>>}

MCEffect(items) ==
    LET e == [st \in Stacks |->
                LET r == RunItems(items, [pc |-> 1, stk |-> st, w |-> SomeWorld], 6) IN [stk |-> r.stk, w |-> r.w]]
    IN  e

MCOptimisedPiece(items) == LET o == optimiseItems(items, {}, OptimiserSettings) IN o
-----------------------------------------------------------------------------
(***************************************************************************)
(* The rules, on expressions of their form.                                *)
(***************************************************************************)
RECURSIVE Groups(_, _)
Groups(p, k) ==
    CASE p.k = k -> {p.g}
      [] p.k \in {"ins", "calc"} -> UNION {Groups(p.args[i], k) : i \in DOMAIN p.args}
      [] OTHER -> {}

\* The pattern with m for its constants, and variables.
RECURSIVE Instance(_, _)
Instance(p, m) ==
    CASE p.k = "const" -> Lit(m[p.g])
      [] p.k = "any" -> Id(<<p.g>>)
      [] p.k = "num" -> Lit(p.n)
      [] OTHER -> Ins(p.op, Each(p.args, LAMBDA q : Instance(q, m)))

\* Two rules are for instructions without their arguments, and never match.
RECURSIVE Complete(_)
Complete(e) == e.k = "ins" => Len(e.args) = args(e.op) /\ \A i \in DOMAIN e.args : Complete(e.args[i])

RECURSIVE ValueOf(_, _)
ValueOf(e, m) ==
    CASE IsLit(e) -> e.v
      [] IsId(e) -> m[e.name[1]]
      [] e.k = "ins" /\ e.op \in Pure -> Compute(e.op, Each(e.args, LAMBDA a : ValueOf(a, m)))
      [] OTHER -> Environment[e.op]

\* The constants that rules meet at their limits.
Limits == {0, 1, 2, WordBits - 1, WordBits, WordBits + 1, MaxWord - 1, MaxWord}

MCRuleSound(i) ==
    LET p == simplificationRuleList[i].pattern
        sound == \A m \in [Groups(p, "const") -> Limits] :
                    LET e == Instance(p, m)
                    IN  Complete(e) => LET f == SimplifyAll(e, <<>>)
                                       IN  \A v \in [Groups(p, "any") -> Word] : ValueOf(e, v) = ValueOf(f, v)
    IN  i \in DOMAIN simplificationRuleList => sound
-----------------------------------------------------------------------------
(***************************************************************************)
(* Constants, by every method and for several prices.                      *)
(***************************************************************************)
Parameters ==
    {[runs |-> r, multiplicity |-> m, isCreation |-> c, shl |-> s] :
        r \in {1, 200}, m \in {1, 3}, c \in BOOLEAN, s \in BOOLEAN}

Computes(items, v) == RunItems(items, [pc |-> 1, stk |-> <<>>, w |-> SomeWorld], 5).stk = <<v>>

Copies(v) ==
    LET a == assemble([items |-> copyRoutine(v), data |-> v :> toBigEndian(v, WordBytes), subs |-> <<>>])
        r == RunBytes(a.code, [pc |-> 1, stk |-> <<>>, w |-> SomeWorld], 5)
    IN  r.stk = <<v>> /\ r.w.mem = SomeWorld.mem

MCConstantExact(v) ==
    LET exact == /\ \A p \in Parameters :
                        /\ Computes(findRepresentation(p, v), v)
                        /\ \A bits \in ByteBits + 1 .. WordBits - 1 :
                              LET d == Decomposition(v, bits)
                              IN  d /= <<>> => Computes(Routine(p, d[1], bits), v)
                 /\ Copies(v)
    IN  v \in Word => exact
=============================================================================
