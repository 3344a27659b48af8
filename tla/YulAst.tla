------------------------------- MODULE YulAst -------------------------------
(***************************************************************************)
(* The syntax tree of Yul (AsmData.h) and the questions that optimiser and *)
(* code generator ask of it: the names a piece of code declares, refers to *)
(* and assigns, whether an expression can be moved or removed, how large   *)
(* it is, and whether two pieces are the same up to names; when a program  *)
(* is well formed; and what it means.                                      *)
(*                                                                         *)
(* A block is a sequence of statements.  A name is its base followed by    *)
(* the numbers that NameDispenser has appended: "x_1_2" is <<"x", 1, 2>>.  *)
(***************************************************************************)
EXTENDS RuleList, FiniteSets, Functions

Lit(n) == [k |-> "lit", v |-> n]

Id(x) == [k |-> "id", name |-> x]

Call(f, a) == [k |-> "call", f |-> f, args |-> a]

ExprStmt(e) == [k |-> "exp", e |-> e]

\* value is empty, or has one element.
Let(xs, value) == [k |-> "let", vars |-> xs, value |-> value]

Assign(xs, e) == [k |-> "set", vars |-> xs, e |-> e]

If(e, b) == [k |-> "if", e |-> e, body |-> b]

\* The value of a case is empty for the default case.
Case(value, b) == [value |-> value, body |-> b]

Switch(e, cases) == [k |-> "switch", e |-> e, cases |-> cases]

For(pre, e, post, b) == [k |-> "for", pre |-> pre, e |-> e, post |-> post, body |-> b]

Break == [k |-> "break"]

Continue == [k |-> "continue"]

Function(f, ps, rs, b) == [k |-> "fun", name |-> f, params |-> ps, rets |-> rs, body |-> b]

Block(b) == [k |-> "block", body |-> b]

Pop(e) == ExprStmt(Ins("pop", <<e>>))

IsId(e) == e.k = "id"

IsLit(e) == e.k = "lit"
-----------------------------------------------------------------------------
(***************************************************************************)
(* ASTWalker: the blocks and the expressions right below a node.           *)
(***************************************************************************)
\* The sequence of the F(x) for the elements x of s, and their concatenation.
Each(s, F(_)) == FoldAlong(LAMBDA acc, x : Append(acc, F(x)), <<>>, s)

\* iterateReplacing: every statement is replaced by a sequence of statements.
Replacing(s, F(_)) == FoldAlong(LAMBDA acc, x : acc \o F(x), <<>>, s)

\* The elements of a set in the given order.
InOrder(S, Before(_, _)) ==
    [n \in 1 .. Cardinality(S) |-> CHOOSE x \in S : Cardinality({y \in S : Before(y, x)}) = n - 1]

Union(s) == UNION {s[i] : i \in DOMAIN s}

Sum(s) == FoldFunctionOnSet(+, 0, s, DOMAIN s)

\* The order is the one of ASTWalker; ASTModifier visits the post block of a
\* loop before its body.
SubBlocks(s) ==
    CASE s.k \in {"if", "fun", "block"} -> <<s.body>>
      [] s.k = "switch" -> [i \in DOMAIN s.cases |-> s.cases[i].body]
      [] s.k = "for" -> <<s.pre, s.body, s.post>>
      [] OTHER -> <<>>

\* The expression of a statement, if it has one.
OwnExpr(s) ==
    CASE s.k \in {"exp", "set", "if", "switch", "for"} -> <<s.e>>
      [] s.k = "let" -> s.value
      [] OTHER -> <<>>

\* The order of ASTModifier, and the statement with other blocks.
ModBlocks(s) == IF s.k = "for" THEN <<s.pre, s.post, s.body>> ELSE SubBlocks(s)

WithBlocks(s, bs) ==
    CASE s.k \in {"if", "fun", "block"} -> [s EXCEPT !.body = bs[1]]
      [] s.k = "switch" -> [s EXCEPT !.cases = [i \in DOMAIN @ |-> Case(@[i].value, bs[i])]]
      [] s.k = "for" -> [s EXCEPT !.pre = bs[1], !.post = bs[2], !.body = bs[3]]
      [] OTHER -> s

WithExpr(s, e) == IF s.k = "let" THEN [s EXCEPT !.value = <<e>>] ELSE [s EXCEPT !.e = e]

\* Blocks of a statement are rewritten one after the other; F maps a block and a
\* state to a record of both.
ThreadBlocks(s, st, F(_, _)) ==
    LET r == FoldAlong(LAMBDA acc, b : LET x == F(b, acc.st)
                                      IN  [bs |-> Append(acc.bs, x.b), st |-> x.st],
                      [bs |-> <<>>, st |-> st], ModBlocks(s))
    IN  [s |-> WithBlocks(s, r.bs), st |-> r.st]

\* Statements are replaced one after the other; F maps a statement and a state to
\* a sequence b and a state.
ThreadStatements(b, st, F(_, _)) ==
    FoldAlong(LAMBDA acc, s : LET x == F(s, acc.st)
                             IN  [b |-> acc.b \o x.b, st |-> x.st],
             [b |-> <<>>, st |-> st], b)

\* The statement with its blocks replaced.
MapBlocks(s, F(_)) ==
    CASE s.k \in {"if", "fun", "block"} -> [s EXCEPT !.body = F(@)]
      [] s.k = "switch" -> [s EXCEPT !.cases = Each(@, LAMBDA c : Case(c.value, F(c.body)))]
      [] s.k = "for" -> [s EXCEPT !.pre = F(@), !.post = F(@), !.body = F(@)]
      [] OTHER -> s

removeEmptyBlocks(b) == SelectSeq(b, LAMBDA s : ~ (s.k = "block" /\ s.body = <<>>))

Subterms(e) == IF e.k \in {"ins", "call"} THEN e.args ELSE <<>>
-----------------------------------------------------------------------------
(***************************************************************************)
(* NameCollector, ReferencesCounter, Assignments, AssignmentCounter.       *)
(***************************************************************************)
RECURSIVE Names(_)
Names(b) ==
    UNION {(CASE b[i].k = "let" -> Range(b[i].vars)
              [] b[i].k = "fun" -> {b[i].name} \cup Range(b[i].params) \cup Range(b[i].rets)
              [] OTHER -> {})
             \cup Union([j \in DOMAIN SubBlocks(b[i]) |-> Names(SubBlocks(b[i])[j])]) :
           i \in DOMAIN b}

\* The names that an expression and a block refer to, with repetitions.  Assigned
\* variables are references, too.
RECURSIVE ExprRefs(_)
ExprRefs(e) ==
    (CASE IsId(e) -> <<e.name>> [] e.k = "call" -> <<e.f>> [] OTHER -> <<>>)
        \o Replacing(Subterms(e), ExprRefs)

RECURSIVE BlockRefs(_)
BlockRefs(b) ==
    Replacing(b, LAMBDA s : (IF s.k = "set" THEN s.vars ELSE <<>>)
                              \o Replacing(OwnExpr(s), ExprRefs) \o Replacing(SubBlocks(s), BlockRefs))

\* The counts of names, changed by n for every reference.
AddReferences(count, refs, n) ==
    FoldAlong(LAMBDA acc, x : IF x \in DOMAIN acc THEN (x :> acc[x] + n) @@ acc ELSE acc, count, refs)

\* How often each of the names xs occurs.
countReferences(refs, xs) == AddReferences([x \in xs |-> 0], refs, 1)

RECURSIVE referencedVariables(_)
referencedVariables(e) ==
    (IF IsId(e) THEN {e.name} ELSE {})
        \cup Union([i \in DOMAIN Subterms(e) |-> referencedVariables(Subterms(e)[i])])

RECURSIVE Assignments(_)
Assignments(b) ==
    UNION {(IF b[i].k = "set" THEN Range(b[i].vars) ELSE {})
             \cup Union([j \in DOMAIN SubBlocks(b[i]) |-> Assignments(SubBlocks(b[i])[j])]) :
           i \in DOMAIN b}

RECURSIVE assignmentCount(_, _)
assignmentCount(b, x) ==
    Sum([i \in DOMAIN b |->
          (IF b[i].k = "set" THEN Cardinality({j \in DOMAIN b[i].vars : b[i].vars[j] = x}) ELSE 0)
        + Sum([j \in DOMAIN SubBlocks(b[i]) |-> assignmentCount(SubBlocks(b[i])[j], x)])])

\* AssignmentsSinceContinue: what is assigned after the first continue of this
\* loop, in the order of the text; f is whether it was found.
RECURSIVE SinceContinue(_, _)
SinceContinue(b, st) ==
    IF b = <<>> THEN st
    ELSE LET s == Head(b)
             inner == FoldAlong(LAMBDA acc, c : SinceContinue(c, acc),
                               [st EXCEPT !.depth = @ + Truth(s.k = "for")], SubBlocks(s))
             after == [inner EXCEPT
                         !.depth = st.depth,
                         !.found = @ \/ (s.k = "continue" /\ st.depth = 0),
                         !.names = IF s.k = "set" /\ st.found THEN @ \cup Range(s.vars) ELSE @]
         IN  SinceContinue(Tail(b), after)

AssignmentsSinceContinue(b) ==
    SinceContinue(b, [depth |-> 0, found |-> FALSE, names |-> {}]).names

\* The functions that a block defines.
FunctionsOf(b) == {b[i] : i \in {j \in DOMAIN b : b[j].k = "fun"}}
-----------------------------------------------------------------------------
(***************************************************************************)
(* Dialect, MovableChecker and TerminationFinder.                          *)
(***************************************************************************)

\* The builtins of EVMDialect that are functions and not instructions: what
\* describes the data of the object.
Builtins == {<<"datasize">>, <<"dataoffset">>}

literalArguments(f) == f \in Builtins

RECURSIVE Movable(_)
Movable(e) ==
    /\ e.k = "ins" => movable(e.op)
    /\ e.k = "call" => e.f \in Builtins
    /\ \A i \in DOMAIN Subterms(e) : Movable(Subterms(e)[i])

RECURSIVE SideEffectFree(_)
SideEffectFree(e) ==
    /\ e.k = "ins" => sideEffectFree(e.op)
    /\ e.k = "call" => e.f \in Builtins
    /\ \A i \in DOMAIN Subterms(e) : SideEffectFree(Subterms(e)[i])

controlFlowKind(s) ==
    CASE s.k = "exp" /\ s.e.k = "ins" -> IF terminatesControlFlow(s.e.op) THEN "terminate" ELSE "flowout"
      [] s.k \in {"break", "continue"} -> s.k
      [] OTHER -> "flowout"
-----------------------------------------------------------------------------
(***************************************************************************)
(* Metrics.                                                                *)
(***************************************************************************)
RECURSIVE ExprSize(_)
ExprSize(e) ==
    Truth(~ IsId(e)) + Sum([i \in DOMAIN Subterms(e) |-> ExprSize(Subterms(e)[i])])

RECURSIVE CodeSize(_, _)
CodeSize(b, ignoreFunctions) ==
    Sum([i \in DOMAIN b |->
          LET s == b[i]
          IN  IF s.k = "fun" /\ ignoreFunctions THEN 0
              ELSE (CASE s.k \in {"if", "break", "continue"} -> 2
                      [] s.k = "for" -> 3
                      [] s.k = "switch" ->      \* the literals of the cases are not visited
                            1 + 2 * Len(s.cases)
                      [] s.k = "fun" -> 1
                      [] OTHER -> 0)
                   + Sum([j \in DOMAIN OwnExpr(s) |-> ExprSize(OwnExpr(s)[j])])
                   + Sum([j \in DOMAIN SubBlocks(s) |-> CodeSize(SubBlocks(s)[j], ignoreFunctions)])])

codeSize(b) == CodeSize(b, TRUE)

codeSizeIncludingFunctions(b) == CodeSize(b, FALSE)

\* The bytes of a literal beyond the first.
LiteralCost(n) == CHOOSE c \in 0 .. WordBytes : n < 2 ^ (ByteBits * (c + 1))
                                               /\ \A d \in 0 .. (c - 1) : n >= 2 ^ (ByteBits * (d + 1))

RECURSIVE codeCost(_)
codeCost(e) ==
    1 + (CASE e.k = "call" -> 49
           [] IsLit(e) -> LiteralCost(e.v)
           [] e.k = "ins" -> (CASE gasPriceTier(e.op) \in {"zero", "base"} -> -1
                                [] gasPriceTier(e.op) \in {"verylow", "low", "mid"} -> 1
                                [] OTHER -> 49)
           [] OTHER -> 0)
      + Sum([i \in DOMAIN Subterms(e) |-> codeCost(Subterms(e)[i])])
-----------------------------------------------------------------------------
(***************************************************************************)
(* SyntacticallyEqual.  st maps the names declared on both sides to the    *)
(* same number; a comparison that fails has ok = FALSE.                    *)
(***************************************************************************)
EqualNames(x, y, st) ==
    \/ x \notin DOMAIN st.l /\ y \notin DOMAIN st.r /\ x = y
    \/ x \in DOMAIN st.l /\ y \in DOMAIN st.r /\ st.l[x] = st.r[y]

RECURSIVE EqualExprs(_, _, _)
EqualExprs(e, f, st) ==
    /\ e.k = f.k
    /\ CASE IsId(e) -> EqualNames(e.name, f.name, st)
         [] IsLit(e) -> e.v = f.v
         [] OTHER -> /\ IF e.k = "ins" THEN e.op = f.op ELSE EqualNames(e.f, f.f, st)
                     /\ Len(e.args) = Len(f.args)
                     /\ \A i \in DOMAIN e.args : EqualExprs(e.args[i], f.args[i], st)

Differ(st) == [st EXCEPT !.ok = FALSE]

\* visitDeclaration, for all the names of a declaration.
DeclareBoth(xs, ys, st) ==
    IF Len(xs) /= Len(ys) THEN Differ(st)
    ELSE FoldAlong(LAMBDA acc, i : [acc EXCEPT !.l = (xs[i] :> acc.n) @@ @,
                                              !.r = (ys[i] :> acc.n) @@ @,
                                              !.n = @ + 1],
                  st, [i \in DOMAIN xs |-> i])

\* Cases are compared in the order of their values; the default comes first.
CaseOrder(cases) ==
    SortSeq(cases, LAMBDA c, d : /\ d.value /= <<>>
                                 /\ c.value = <<>> \/ c.value[1].v < d.value[1].v)

RECURSIVE EqualBlocks(_, _, _)
EqualBlocks(b, c, st) ==
    IF Len(b) /= Len(c) THEN Differ(st)
    ELSE FoldAlong(
        LAMBDA acc, i :
            LET s == b[i]
                t == c[i]
                oe == OwnExpr(s)
                of == OwnExpr(t)
                exprs == Len(oe) = Len(of) /\ \A j \in DOMAIN oe : EqualExprs(oe[j], of[j], acc)
                Both(bs, cs, a0) ==
                    IF Len(bs) /= Len(cs) THEN Differ(a0)
                    ELSE FoldAlong(LAMBDA a, j : IF a.ok THEN EqualBlocks(bs[j], cs[j], a) ELSE a,
                                  a0, [j \in DOMAIN bs |-> j])
            IN  IF ~ acc.ok \/ s.k /= t.k \/ ~ exprs THEN Differ(acc)
                ELSE CASE s.k = "let" -> DeclareBoth(s.vars, t.vars, acc)
                       [] s.k = "set" -> IF /\ Len(s.vars) = Len(t.vars)
                                            /\ \A j \in DOMAIN s.vars : EqualNames(s.vars[j], t.vars[j], acc)
                                         THEN acc ELSE Differ(acc)
                       [] s.k = "fun" -> Both(<<s.body>>, <<t.body>>,
                                              DeclareBoth(s.rets, t.rets,
                                                          DeclareBoth(s.params, t.params, acc)))
                       [] s.k = "switch" ->
                            LET cs == CaseOrder(s.cases)
                                ct == CaseOrder(t.cases)
                            IN  IF [j \in DOMAIN cs |-> cs[j].value] /= [j \in DOMAIN ct |-> ct[j].value]
                                THEN Differ(acc)
                                ELSE Both([j \in DOMAIN cs |-> cs[j].body],
                                          [j \in DOMAIN ct |-> ct[j].body], acc)
                       [] OTHER -> Both(SubBlocks(s), SubBlocks(t), acc),
        st, [i \in DOMAIN b |-> i])

NothingDeclared == [ok |-> TRUE, n |-> 0, l |-> <<>>, r |-> <<>>]

SyntacticallyEqual(b, c) == EqualBlocks(b, c, NothingDeclared).ok

SameExpr(e, f) == EqualExprs(e, f, NothingDeclared)
-----------------------------------------------------------------------------
(***************************************************************************)
(* NameDispenser: d.used are the names taken, d.n counts the suffixes.     *)
(***************************************************************************)
Dispenser(used) == [used |-> used, n |-> 0, name |-> <<>>]

NoName == <<"">>

illegalName(d, x) == x = NoName \/ x \in d.used \/ x \in Builtins

\* newName leaves the name in d.name.
newName(d, hint) ==
    LET tries == {i \in 0 .. Cardinality(d.used) + 1 :
                    ~ illegalName(d, IF i = 0 THEN hint ELSE Append(hint, d.n + i))}
        i == CHOOSE j \in tries : \A m \in tries : j <= m
        x == IF i = 0 THEN hint ELSE Append(hint, d.n + i)
    IN  [used |-> d.used \cup {x}, n |-> d.n + i, name |-> x]

-----------------------------------------------------------------------------
(***************************************************************************)
(* ScopeFiller and AsmAnalyzer: whether a Yul program is well formed.  The *)
(* optimiser and the code generator run on accepted programs only, and     *)
(* the optimiser asserts that what it leaves is accepted again.            *)
(*                                                                         *)
(* A scope has its identifiers, from names to what they are, and fn: it    *)
(* hides the variables outside.  An environment is a sequence of scopes,   *)
(* the innermost last.                                                     *)
(***************************************************************************)
Variable == [k |-> "variable"]

FunctionId(s) == [k |-> "function", args |-> Len(s.params), rets |-> Len(s.rets)]

ScopeOf(vars, funs, isFn) ==
    [ids |-> [x \in vars |-> Variable]
               @@ [f \in {s.name : s \in funs} |-> FunctionId(CHOOSE s \in funs : s.name = f)],
     fn |-> isFn]

FunctionsIn(b) == {s \in Range(b) : s.k = "fun"}

\* The identifiers of a block, once its scope is filled.
BlockScope(b) ==
    ScopeOf(UNION {Range(s.vars) : s \in {t \in Range(b) : t.k = "let"}}, FunctionsIn(b), FALSE)

FunctionScope(s) == ScopeOf(Range(s.params) \cup Range(s.rets), {}, TRUE)

numberOfVariables(scope) == Cardinality({x \in DOMAIN scope.ids : scope.ids[x].k = "variable"})

\* What the name stands for: nothing for a variable on the far side of a function.
lookup(x, env) ==
    LET at == {i \in DOMAIN env : x \in DOMAIN env[i].ids}
        i == CHOOSE j \in at : \A l \in at : l <= j
    IN  IF at = {} THEN <<>>
        ELSE IF env[i].ids[x].k = "variable" /\ \E j \in i + 1 .. Len(env) : env[j].fn THEN <<>>
        ELSE <<env[i].ids[x]>>
-----------------------------------------------------------------------------
(***************************************************************************)
(* ScopeFiller.  taken are the names that exist in the scopes around, as   *)
(* far as they have been registered.                                       *)
(***************************************************************************)

Register(xs, st) ==
    FoldAlong(LAMBDA a, x : [taken |-> a.taken \cup {x}, ok |-> a.ok /\ x \notin a.taken], st, xs)

RECURSIVE FillBlock(_, _)
FillBlock(b, taken) ==
    LET functions == Register(Each(SelectSeq(b, LAMBDA s : s.k = "fun"), LAMBDA s : s.name),
                              [taken |-> taken, ok |-> TRUE])
        Inner(c, st) == [st EXCEPT !.ok = @ /\ FillBlock(c, st.taken).ok]
        Statement(st, s) ==
            CASE s.k = "let" -> Register(s.vars, st)
              [] s.k = "fun" ->
                    LET v == Register(s.params \o s.rets, [st EXCEPT !.ok = TRUE])
                    IN  [st EXCEPT !.ok = @ /\ v.ok /\ FillBlock(s.body, v.taken).ok]
              [] s.k = "for" ->
                    LET p == FillBlock(s.pre, st.taken)
                    IN  [st EXCEPT !.ok = @ /\ p.ok /\ FillBlock(s.body, p.taken).ok /\ FillBlock(s.post, p.taken).ok]
              [] OTHER -> FoldAlong(LAMBDA a, c : Inner(c, a), st, SubBlocks(s))
    IN  FoldAlong(Statement, functions, b)

ScopeFiller(b) == FillBlock(b, {}).ok
-----------------------------------------------------------------------------
(***************************************************************************)
(* AsmAnalyzer.  h is the height of the stack, active are the variables    *)
(* whose declaration has been passed.                                      *)
(***************************************************************************)
Require(st, cond) == [st EXCEPT !.ok = @ /\ cond]

RECURSIVE AnalyzeExpr(_, _, _)

expectExpression(e, env, st) ==
    LET r == AnalyzeExpr(e, env, st) IN Require(r, r.h - st.h = 1)

AnalyzeArguments(es, env, st) == FoldAlong(LAMBDA a, e : expectExpression(e, env, a), st, Reverse(es))

AnalyzeIdentifier(x, env, st) ==
    LET id == lookup(x, env)
    IN  CASE id = <<>> -> [st EXCEPT !.ok = FALSE, !.h = @ + 1]
          [] id = <<Variable>> -> [st EXCEPT !.ok = @ /\ x \in st.active, !.h = @ + 1]
          [] OTHER -> [st EXCEPT !.ok = FALSE]

AnalyzeCall(e, env, st) ==
    LET id == lookup(e.f, env)
        found == id /= <<>> /\ id /= <<Variable>>
        a == AnalyzeArguments(e.args, env, Require(st, found /\ Len(e.args) = id[1].args))
    IN  [a EXCEPT !.h = @ + (IF found THEN id[1].rets ELSE 0) - Len(e.args)]

\* warnOnInstructions: jumps are not for strict assembly.
AnalyzeInstruction(e, env, st) ==
    LET a == AnalyzeArguments(e.args, env, st)
    IN  [a EXCEPT !.h = @ + ret(e.op) - Len(e.args),
                  !.ok = @ /\ e.op \notin {"jump", "jumpi", "jumpdest"}]

AnalyzeExpr(e, env, st) ==
    CASE IsLit(e) -> [st EXCEPT !.h = @ + 1]
      [] IsId(e) -> AnalyzeIdentifier(e.name, env, st)
      [] e.k = "call" -> AnalyzeCall(e, env, st)
      [] OTHER -> AnalyzeInstruction(e, env, st)

checkAssignment(x, env, st) ==
    [st EXCEPT !.ok = @ /\ lookup(x, env) = <<Variable>> /\ x \in st.active, !.h = @ - 1]

RECURSIVE AnalyzeStatement(_, _, _)

\* What is active inside stays inside.
AnalyzeBlock(b, env, st) ==
    LET scope == BlockScope(b)
        r == FoldAlong(LAMBDA a, s : AnalyzeStatement(s, Append(env, scope), a), st, b)
        h == r.h - numberOfVariables(scope)
    IN  [r EXCEPT !.h = h, !.ok = @ /\ h = st.h, !.active = st.active]

AnalyzeDeclaration(s, env, st) ==
    LET n == Len(s.vars)
        v == IF s.value = <<>> THEN [st EXCEPT !.h = @ + n] ELSE AnalyzeExpr(s.value[1], env, st)
    IN  IF v.h - st.h = n THEN [v EXCEPT !.active = @ \cup Range(s.vars)]
        ELSE [v EXCEPT !.h = st.h + n, !.ok = FALSE]

AnalyzeAssignment(s, env, st) ==
    LET v == AnalyzeExpr(s.e, env, st)
    IN  IF v.h - st.h = Len(s.vars)
        THEN FoldAlong(LAMBDA a, x : checkAssignment(x, env, a), v, s.vars)
        ELSE [v EXCEPT !.ok = FALSE]

AnalyzeSwitch(s, env, st) ==
    LET e == expectExpression(s.e, env, st)
        valued == {i \in DOMAIN s.cases : s.cases[i].value /= <<>>}
        distinct == \A i, j \in valued : s.cases[i].value = s.cases[j].value => i = j
        r == FoldAlong(LAMBDA a, c : AnalyzeBlock(c.body, env, a), Require(e, distinct), s.cases)
    IN  [r EXCEPT !.h = @ - 1]

\* The block of the initialisation is opened again for the rest of the loop.
AnalyzeLoop(s, env, st) ==
    LET scope == BlockScope(s.pre)
        n == numberOfVariables(scope)
        in == Append(env, scope)
        p == AnalyzeBlock(s.pre, env, st)
        c == expectExpression(s.e, in, [p EXCEPT !.h = @ + n,
                                                 !.active = @ \cup {x \in DOMAIN scope.ids : scope.ids[x] = Variable}])
        y == AnalyzeBlock(s.post, in, AnalyzeBlock(s.body, in, [c EXCEPT !.h = @ - 1]))
    IN  [y EXCEPT !.h = @ - n, !.active = st.active]

AnalyzeFunction(s, env, st) ==
    LET xs == Range(s.params) \cup Range(s.rets)
        r == AnalyzeBlock(s.body, Append(env, FunctionScope(s)),
                          [st EXCEPT !.active = @ \cup xs, !.h = Len(s.params) + Len(s.rets)])
    IN  [r EXCEPT !.h = st.h, !.active = st.active]

AnalyzeStatement(s, env, st) ==
    CASE s.k = "exp" -> LET r == AnalyzeExpr(s.e, env, st) IN Require(r, r.h = st.h)
      [] s.k = "let" -> AnalyzeDeclaration(s, env, st)
      [] s.k = "set" -> AnalyzeAssignment(s, env, st)
      [] s.k = "if" -> LET c == expectExpression(s.e, env, st) IN AnalyzeBlock(s.body, env, [c EXCEPT !.h = @ - 1])
      [] s.k = "switch" -> AnalyzeSwitch(s, env, st)
      [] s.k = "for" -> AnalyzeLoop(s, env, st)
      [] s.k = "fun" -> AnalyzeFunction(s, env, st)
      [] s.k = "block" -> AnalyzeBlock(s.body, env, st)
      [] OTHER -> st

\* analyzeStrictAssertCorrect
AsmAnalyzer(b) == ScopeFiller(b) /\ AnalyzeBlock(b, <<>>, [h |-> 0, active |-> {}, ok |-> TRUE]).ok

-----------------------------------------------------------------------------
(***************************************************************************)
(* The interpreter of Yul programs that comes with the tests               *)
(* (test/tools/yulInterpreter): the reference for what a program means.    *)
(*                                                                         *)
(* A world w has the storage, the memory, the trace of what can be seen    *)
(* from outside, and halt, the instruction that ended the execution.       *)
(***************************************************************************)
CONSTANT MaxSteps   \* the steps after which an execution is given up

Byte == 0 .. ByteMask

\* The byte of a word at a position, from the most significant one.
ByteOf(x, i) == Compute("byte", <<i - 1, x>>)

FromBytes(bs) == FoldAlong(LAMBDA acc, b : acc * (ByteMask + 1) + b, 0, bs)

\* Calldata is a sequence of bytes.
World(calldata) ==
    [sto |-> [x \in Word |-> 0], mem |-> [x \in Word |-> 0], trace |-> <<>>, halt |-> "",
     calldata |-> calldata]

\* Memory addresses wrap around at the end of the word.
Memory(w, offset, size) == [i \in 1 .. size |-> w.mem[(offset + i - 1) % Modulus]]

Store(w, offset, bs) ==
    [w EXCEPT !.mem = [x \in Word |-> LET i == ((x + Modulus - offset) % Modulus) + 1
                                      IN  IF i \in DOMAIN bs THEN bs[i] ELSE @[x]]]

CalldataBytes(w, from, size) ==
    [i \in 1 .. size |-> IF from + i \in DOMAIN w.calldata THEN w.calldata[from + i] ELSE 0]

\* The environment of the call.
Environment ==
    [address |-> 5, origin |-> 3, caller |-> 6, callvalue |-> 2, gasprice |-> 1, coinbase |-> 4,
     timestamp |-> 11, number |-> 13, difficulty |-> 8, gaslimit |-> 12, balance |-> 9,
     codesize |-> 10, returndatasize |-> 0, msize |-> 7, gas |-> 14, pc |-> 15]

\* Any function of the bytes will do for the hash.
Hash(bs) == (FoldAlong(LAMBDA acc, b : 3 * acc + b + 1, 7, bs)) % Modulus

\* The part of memory that an instruction reads and that can be seen outside.
DataOf(op, a, w) ==
    CASE op \in {"return", "revert", "log0", "log1", "log2", "log3", "log4"} -> Memory(w, a[1], a[2])
      [] op \in {"create", "create2"} -> Memory(w, a[2], a[3])
      [] op \in {"call", "callcode"} -> Memory(w, a[4], a[5])
      [] op \in {"delegatecall", "staticcall"} -> Memory(w, a[3], a[4])
      [] OTHER -> <<>>

logTrace(op, a, w) ==
    [w EXCEPT !.trace = Append(@, [op |-> op, data |-> DataOf(op, a, w),
                                   rest |-> IF op \in {"return", "revert"} THEN <<>>
                                            ELSE SubSeq(a, 3, Len(a))])]

\* EVMInstructionInterpreter::eval: the result, 0 if there is none, and the world.
EvalInstruction(op, a, w) ==
    LET is(v) == [v |-> v % Modulus, w |-> w]
        Does(x) == [v |-> 0, w |-> x]
    IN  CASE op \in Pure -> is(Compute(op, a))
          [] op = "pop" -> is(0)
          [] op = "balance" -> is(Environment["balance"])
          [] op \in DOMAIN Environment -> is(Environment[op])
          [] op = "calldataload" -> is(FromBytes(CalldataBytes(w, a[1], WordBytes)))
          [] op = "calldatasize" -> is(Len(w.calldata))
          [] op = "calldatacopy" -> Does(Store(w, a[1], CalldataBytes(w, a[2], a[3])))
          [] op \in {"codecopy", "returndatacopy"} -> Does(Store(w, a[1], [i \in 1 .. a[3] |-> 0]))
          [] op = "extcodecopy" -> Does(Store(w, a[2], [i \in 1 .. a[4] |-> 0]))
          [] op \in {"extcodesize", "extcodehash", "blockhash"} -> is(Hash(<<a[1]>>))
          [] op = "keccak256" -> is(Hash(Memory(w, a[1], a[2])))
          [] op = "mload" -> is(FromBytes(Memory(w, a[1], WordBytes)))
          [] op = "mstore" -> Does(Store(w, a[1], [i \in 1 .. WordBytes |-> ByteOf(a[2], i)]))
          [] op = "mstore8" -> Does(Store(w, a[1], <<ByteOf(a[2], WordBytes)>>))
          [] op = "sload" -> is(w.sto[a[1]])
          [] op = "sstore" -> Does([w EXCEPT !.sto[a[1]] = a[2]])
          [] op \in {"create", "create2"} -> [v |-> (a[2] + Len(w.trace)) % (AddressMask + 1), w |-> logTrace(op, a, w)]
          [] op \in {"call", "callcode"} -> [v |-> a[1] % 2, w |-> logTrace(op, a, w)]
          [] op \in {"stop", "invalid", "return", "revert", "selfdestruct"} ->
                Does([logTrace(op, a, w) EXCEPT !.halt = op])
          [] OTHER -> Does(logTrace(op, a, w))
-----------------------------------------------------------------------------
(***************************************************************************)
(* The state of the interpreter: world, variables, functions, the state of *)
(* the loop, and the steps taken.  Nothing runs any more once the world    *)
(* has halted.                                                             *)
(***************************************************************************)
RECURSIVE Evaluate(_, _), EvaluateArgs(_, _), Run(_, _), RunStatements(_, _), RunLoop(_, _)

Halted(c) == c.w.halt /= ""

Values(c, vs) == [vs |-> vs, c |-> c]

\* Arguments are evaluated in reverse.
EvaluateArgs(es, c) ==
    FoldRight(LAMBDA e, acc : LET r == Evaluate(e, acc.c) IN Values(r.c, <<r.vs[1]>> \o acc.vs),
              es, Values(c, <<>>))

\* A function starts with its parameters, and zeros for its results.
CallFunction(f, vs, c) ==
    LET vars == [x \in Range(f.params) |-> vs[CHOOSE i \in DOMAIN f.params : f.params[i] = x]]
                  @@ [x \in Range(f.rets) |-> 0]
        r == Run(f.body, [c EXCEPT !.vars = vars])
    IN  Values([r EXCEPT !.vars = c.vars],
               IF Halted(r) THEN [i \in DOMAIN f.rets |-> 0] ELSE [i \in DOMAIN f.rets |-> r.vars[f.rets[i]]])

\* A dead evaluation has one value.
Evaluate(e, c) ==
    CASE Halted(c) -> Values(c, <<0>>)
      [] ~ Halted(c) /\ IsLit(e) -> Values(c, <<e.v>>)
      [] ~ Halted(c) /\ IsId(e) -> Values(c, <<c.vars[e.name]>>)
      [] OTHER ->
            LET r == EvaluateArgs(e.args, c)
            IN  IF Halted(r.c) THEN Values(r.c, <<0>>)
                ELSE IF e.k = "ins"
                THEN LET x == EvalInstruction(e.op, r.vs, r.c.w) IN Values([r.c EXCEPT !.w = x.w], <<x.v>>)
                ELSE IF e.f \in Builtins THEN Values(r.c, <<Len(e.f)>>)
                ELSE CallFunction(r.c.funs[e.f], r.vs, r.c)

SetAll(c, xs, vs) == [c EXCEPT !.vars = [x \in Range(xs) |-> vs[CHOOSE i \in DOMAIN xs : xs[i] = x]] @@ @]

\* A block registers its functions first, and forgets what it has declared.
Run(b, c0) ==
    IF c0.steps >= MaxSteps THEN [c0 EXCEPT !.w.halt = "limit"]
    ELSE LET own == [x \in {f.name : f \in FunctionsOf(b)} |-> CHOOSE f \in FunctionsOf(b) : f.name = x]
             r == RunStatements(b, [c0 EXCEPT !.steps = @ + 1, !.funs = own @@ @])
         IN  [r EXCEPT !.funs = c0.funs, !.vars = Restrict(@, DOMAIN @ \cap DOMAIN c0.vars)]

RunLoop(s, c0) ==
    LET e == Evaluate(s.e, c0)
        y == Run(s.body, e.c)
    IN  IF Halted(e.c) \/ e.vs[1] = 0 THEN e.c
        ELSE IF Halted(y) \/ y.loop = "break" THEN [y EXCEPT !.loop = ""]
        ELSE LET q == Run(s.post, [y EXCEPT !.loop = ""])
             IN  IF Halted(q) THEN q ELSE RunLoop(s, q)

RunStatement(s, c) ==
    CASE s.k = "exp" -> Evaluate(s.e, c).c
      [] s.k \in {"set", "let"} ->
            (IF OwnExpr(s) = <<>> THEN SetAll(c, s.vars, [i \in DOMAIN s.vars |-> 0])
             ELSE LET r == Evaluate(OwnExpr(s)[1], c)
                  IN  IF Halted(r.c) THEN r.c ELSE SetAll(r.c, s.vars, r.vs))
      [] s.k = "if" -> LET r == Evaluate(s.e, c)
                       IN  IF Halted(r.c) \/ r.vs[1] = 0 THEN r.c ELSE Run(s.body, r.c)
      [] s.k = "switch" ->
            LET r == Evaluate(s.e, c)
                i == SelectInSeq(s.cases, LAMBDA k : k.value = <<>> \/ k.value[1].v = r.vs[1])
            IN  IF Halted(r.c) \/ i = 0 THEN r.c ELSE Run(s.cases[i].body, r.c)
      [] s.k = "for" -> LET p == RunStatements(s.pre, c)
                            r == IF Halted(p) THEN p ELSE RunLoop(s, p)
                        IN  [r EXCEPT !.loop = "", !.vars = Restrict(@, DOMAIN @ \cap DOMAIN c.vars)]
      [] s.k \in {"break", "continue"} -> [c EXCEPT !.loop = s.k]
      [] s.k = "block" -> Run(s.body, c)
      [] s.k = "fun" -> c

RunStatements(b, c) ==
    IF b = <<>> \/ Halted(c) \/ c.loop /= "" THEN c
    ELSE RunStatements(Tail(b), RunStatement(Head(b), c))

\* What can be seen of an execution.  What reverts leaves no trace.
Outcome(w) ==
    LET halt == IF w.halt = "" THEN "stop" ELSE w.halt
    IN  IF halt \in {"limit", "invalid"} THEN [halt |-> halt]
        ELSE IF halt = "revert" THEN [halt |-> halt, data |-> Last(w.trace).data]
        ELSE [halt |-> halt, sto |-> w.sto, trace |-> SelectSeq(w.trace, LAMBDA t : t.op /= "stop")]

Interpret(b, calldata) ==
    Outcome(Run(b, [w |-> World(calldata), vars |-> <<>>, funs |-> <<>>, loop |-> "", steps |-> 0]).w)
=============================================================================
