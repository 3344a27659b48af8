------------------------------ MODULE YulPasses ------------------------------
(***************************************************************************)
(* The steps of the Yul optimiser that need no analysis of values: those   *)
(* that rearrange statements, and those that split and join expressions,   *)
(* introduce and remove variables, and inline functions.  Each is a        *)
(* function from blocks to blocks; steps that make up names thread the     *)
(* dispenser through the tree in the order in which the code visits it.    *)
(***************************************************************************)
EXTENDS YulAst

CONSTANT Reserved   \* identifiers that are used from outside

-----------------------------------------------------------------------------
(***************************************************************************)
(* Disambiguator: every declaration gets a name of its own.  env is the    *)
(* scope, a function from the visible names to their translations, which   *)
(* are NoName until the copier first meets them: a function can be called  *)
(* before its definition.  The pieces are made in the order of ASTCopier.  *)
(***************************************************************************)
RECURSIVE DisExpr(_, _), DisBlock(_, _, _)

\* st: d, the dispenser, and tr, from identities to names.  An identity is a pair
\* of the path of a scope and the original name.
Translate(x, env, st) ==
    IF x \in Builtins \cup Reserved THEN [x |-> x, st |-> st]
    ELSE IF env[x] \in DOMAIN st.tr THEN [x |-> st.tr[env[x]], st |-> st]
    ELSE LET d == newName(st.d, x)
         IN  [x |-> d.name, st |-> [d |-> d, tr |-> (env[x] :> d.name) @@ st.tr]]

TranslateAll(xs, env, st) ==
    FoldAlong(LAMBDA acc, x : LET t == Translate(x, env, acc.st)
                             IN  [x |-> Append(acc.x, t.x), st |-> t.st],
             [x |-> <<>>, st |-> st], xs)

\* acc: e, env and st.
DisExpr(e, acc) ==
    CASE IsId(e) -> LET t == Translate(e.name, acc.env, acc.st)
                    IN  [acc EXCEPT !.e = Id(t.x), !.st = t.st]
      [] e.k \in {"ins", "call"} ->
            LET f == IF e.k = "call" THEN Translate(e.f, acc.env, acc.st) ELSE [x |-> <<>>, st |-> acc.st]
                r == FoldAlong(LAMBDA a, g : LET t == DisExpr(g, [acc EXCEPT !.st = a.st])
                                            IN  [args |-> Append(a.args, t.e), st |-> t.st],
                              [args |-> <<>>, st |-> f.st], e.args)
            IN  [acc EXCEPT !.st = r.st,
                            !.e = IF e.k = "call" THEN Call(f.x, r.args) ELSE Ins(e.op, r.args)]
      [] OTHER -> [acc EXCEPT !.e = e]

\* ScopeFiller: a block declares its variables and functions; those of the init
\* block of a loop are visible in the whole loop.
ScopeNames(b) == UNION {IF b[i].k = "let" THEN Range(b[i].vars)
                        ELSE IF b[i].k = "fun" THEN {b[i].name} ELSE {} : i \in DOMAIN b}

Scope(env, names, path) == [x \in names |-> <<path, x>>] @@ env

\* ctx: env, and path, of the block.
DisBlock(b, ctx, st0) ==
    LET env == Scope(ctx.env, ScopeNames(b), ctx.path)
        sub(i, j, e) == [env |-> e, path |-> ctx.path \o <<i, j>>]
        Expr(e, st) == DisExpr(e, [e |-> e, env |-> env, st |-> st])
        Stmt(i, st) ==
            LET s == b[i]
                Rest(t, x) ==               \* the blocks, after the expression
                    LET r == FoldAlong(LAMBDA a, j : LET y == DisBlock(SubBlocks(s)[j], sub(i, j, env), a.st)
                                                    IN  [bs |-> Append(a.bs, y.b), st |-> y.st],
                                      [bs |-> <<>>, st |-> x], [j \in DOMAIN SubBlocks(s) |-> j])
                    IN  [s |-> WithBlocks(t, r.bs), st |-> r.st]
            IN  CASE s.k = "let" ->
                       LET t == TranslateAll(s.vars, env, st)
                           u == IF s.value = <<>> THEN [e |-> <<>>, st |-> t.st] ELSE Expr(s.value[1], t.st)
                       IN  [s |-> Let(t.x, IF s.value = <<>> THEN <<>> ELSE <<u.e>>), st |-> u.st]
                  [] s.k = "set" ->
                       LET t == TranslateAll(s.vars, env, st)
                           u == Expr(s.e, t.st)
                       IN  [s |-> Assign(t.x, u.e), st |-> u.st]
                  [] s.k = "fun" ->
                       LET n == Translate(s.name, env, st)
                           in == Scope(env, Range(s.params) \cup Range(s.rets), ctx.path \o <<i, 0>>)
                           p == TranslateAll(s.params, in, n.st)
                           r == TranslateAll(s.rets, in, p.st)
                           y == DisBlock(s.body, sub(i, 1, in), r.st)
                       IN  [s |-> Function(n.x, p.x, r.x, y.b), st |-> y.st]
                  [] s.k = "for" ->
                       LET in == Scope(env, ScopeNames(s.pre), ctx.path \o <<i, 1>>)
                           p == DisBlock(s.pre, sub(i, 1, env), st)
                           c == DisExpr(s.e, [e |-> s.e, env |-> in, st |-> p.st])
                           q == DisBlock(s.post, sub(i, 3, in), c.st)
                           y == DisBlock(s.body, sub(i, 2, in), q.st)
                       IN  [s |-> For(p.b, c.e, q.b, y.b), st |-> y.st]
                  [] OwnExpr(s) /= <<>> -> LET u == Expr(s.e, st) IN Rest(WithExpr(s, u.e), u.st)
                  [] OTHER -> Rest(s, st)
    IN  FoldAlong(LAMBDA acc, i : LET r == Stmt(i, acc.st) IN [b |-> Append(acc.b, r.s), st |-> r.st],
                 [b |-> <<>>, st |-> st0], [i \in DOMAIN b |-> i])

Disambiguator(b) ==
    DisBlock(b, [env |-> <<>>, path |-> <<>>], [d |-> Dispenser(Reserved), tr |-> <<>>]).b
-----------------------------------------------------------------------------
RECURSIVE VarDeclInitializer(_)
VarDeclInitializer(b) ==
    Replacing(b, LAMBDA s0 :
        LET s == MapBlocks(s0, VarDeclInitializer)
        IN  IF s.k = "let" /\ s.value = <<>>
            THEN [i \in DOMAIN s.vars |-> Let(<<s.vars[i]>>, <<Lit(0)>>)]
            ELSE <<s>>)

\* FunctionHoister: functions move to the end of the outermost block, the inner
\* ones before the outer ones.
RECURSIVE WithoutFunctions(_)
WithoutFunctions(b) ==
    removeEmptyBlocks(Replacing(b, LAMBDA s : IF s.k = "fun" THEN <<>> ELSE <<MapBlocks(s, WithoutFunctions)>>))

RECURSIVE InnerFunctions(_)
InnerFunctions(b) ==
    Replacing(b, LAMBDA s :
        Replacing(ModBlocks(s), LAMBDA c : InnerFunctions(c))
            \o (IF s.k = "fun" THEN <<MapBlocks(s, WithoutFunctions)>> ELSE <<>>))

FunctionHoister(b) == WithoutFunctions(b) \o InnerFunctions(b)

RECURSIVE BlockFlattener(_)
BlockFlattener(b) ==
    Replacing(b, LAMBDA s0 : LET s == MapBlocks(s0, BlockFlattener)
                             IN  IF s.k = "block" THEN s.body ELSE <<s>>)

RECURSIVE ForLoopInitRewriter(_)
ForLoopInitRewriter(b) ==
    Replacing(b, LAMBDA s0 : LET s == MapBlocks(s0, ForLoopInitRewriter)
                             IN  IF s.k = "for" THEN Append(s.pre, [s EXCEPT !.pre = <<>>]) ELSE <<s>>)

\* What follows a statement that does not let control pass is erased, except for
\* functions.
RECURSIVE DeadCodeEliminator(_)
DeadCodeEliminator(b) ==
    LET ends == {i \in DOMAIN b : controlFlowKind(b[i]) /= "flowout"}
        index == CHOOSE i \in ends : \A j \in ends : i <= j
        live == IF ends = {} THEN b
                ELSE SubSeq(b, 1, index) \o SelectSeq(SubSeq(b, index + 1, Len(b)), LAMBDA s : s.k = "fun")
    IN  Each(live, LAMBDA s : MapBlocks(s, DeadCodeEliminator))

alreadyGrouped(b) ==
    /\ b /= <<>>
    /\ b[1].k = "block"
    /\ \A i \in 2 .. Len(b) : b[i].k = "fun"

FunctionGrouper(b) ==
    IF alreadyGrouped(b) THEN b
    ELSE <<Block(SelectSeq(b, LAMBDA s : s.k /= "fun"))>> \o SelectSeq(b, LAMBDA s : s.k = "fun")
-----------------------------------------------------------------------------
(***************************************************************************)
(* EquivalentFunctionCombiner.  The rough heuristic of the detector        *)
(* separates only functions that differ.                                   *)
(***************************************************************************)
EquivalentFunctionDetector(b) ==
    FoldAlong(LAMBDA acc, f :
                LET same == SelectSeq(acc.candidates, LAMBDA g : SyntacticallyEqual(<<f>>, <<g>>))
                IN  IF same /= <<>> THEN [acc EXCEPT !.duplicates = (f.name :> same[1].name) @@ @]
                    ELSE [acc EXCEPT !.candidates = Append(@, f)],
             [candidates |-> <<>>, duplicates |-> <<>>],
             SelectSeq(b, LAMBDA s : s.k = "fun")).duplicates

RECURSIVE RenameCalls(_, _)
RenameCalls(e, m) ==
    IF e.k \notin {"ins", "call"} THEN e
    ELSE LET a == [e EXCEPT !.args = Each(@, LAMBDA x : RenameCalls(x, m))]
         IN  IF e.k = "call" /\ e.f \in DOMAIN m THEN [a EXCEPT !.f = m[e.f]] ELSE a

RECURSIVE RenameCallsIn(_, _)
RenameCallsIn(b, m) ==
    Each(b, LAMBDA s0 :
        LET s == MapBlocks(s0, LAMBDA c : RenameCallsIn(c, m))
        IN  IF OwnExpr(s) = <<>> THEN s ELSE WithExpr(s, RenameCalls(OwnExpr(s)[1], m)))

EquivalentFunctionCombiner(b) == RenameCallsIn(b, EquivalentFunctionDetector(b))
-----------------------------------------------------------------------------
(***************************************************************************)
(* UnusedPruner.  refs counts the references that are left; again tells    *)
(* whether some were removed.                                              *)
(***************************************************************************)
subtractReferences(st, refs) ==
    [refs  |-> AddReferences(st.refs, refs, -1),
     again |-> st.again \/ refs /= <<>>]

PruneStatement(s, st) ==
    LET used(x) == st.refs[x] > 0
        Gone(refs) == [b |-> <<>>, st |-> subtractReferences(st, refs)]
        keep == [b |-> <<s>>, st |-> st]
    IN  CASE s.k = "fun" /\ ~ used(s.name) -> Gone(BlockRefs(s.body))
          [] s.k = "let" /\ \A i \in DOMAIN s.vars : ~ used(s.vars[i]) ->
                (IF s.value = <<>> THEN Gone(<<>>)
                 ELSE IF SideEffectFree(s.value[1]) THEN Gone(ExprRefs(s.value[1]))
                 ELSE IF Len(s.vars) = 1 THEN [b |-> <<Pop(s.value[1])>>, st |-> st]
                 ELSE keep)
          [] s.k = "exp" /\ SideEffectFree(s.e) -> Gone(ExprRefs(s.e))
          [] OTHER -> keep

RECURSIVE PruneBlock(_, _)
PruneBlock(b, st) ==
    LET level == ThreadStatements(b, st, PruneStatement)
    IN  ThreadStatements(removeEmptyBlocks(level.b), level.st,
                         LAMBDA s, t : LET r == ThreadBlocks(s, t, PruneBlock) IN [b |-> <<r.s>>, st |-> r.st])

\* runUntilStabilised.
RECURSIVE UnusedPruner(_)
UnusedPruner(b) ==
    LET start == [x \in Names(b) |-> Truth(x \in Reserved)]
        r == PruneBlock(b, [refs |-> AddReferences(start, BlockRefs(b), 1), again |-> FALSE])
    IN  IF r.st.again THEN UnusedPruner(r.b) ELSE r.b
-----------------------------------------------------------------------------
(***************************************************************************)
(* ControlFlowSimplifier: the rewritten statements with the number of      *)
(* breaks and continues that leave them.                                   *)
(***************************************************************************)
RECURSIVE CFBlock(_), CFStatement(_), CFVisit(_)

CFBlock(b) ==
    LET r == Each(b, CFStatement)
    IN  [b |-> Replacing(r, LAMBDA x : x.b),
         breaks |-> Sum(Each(r, LAMBDA x : x.breaks)),
         continues |-> Sum(Each(r, LAMBDA x : x.continues))]

isDefault(c) == c.value = <<>>

\* removeEmptyDefaultFromSwitch and removeEmptyCasesFromSwitch.
WithoutEmptyCases(cases) ==
    LET some == SelectSeq(cases, LAMBDA c : ~ (isDefault(c) /\ c.body = <<>>))
    IN  IF \E i \in DOMAIN some : isDefault(some[i]) THEN some
        ELSE SelectSeq(some, LAMBDA c : c.body /= <<>>)

CFStatement(s) ==
    CASE s.k = "if" /\ s.body = <<>> -> CFBlock(<<Pop(s.e)>>)
      [] s.k = "switch" ->
            LET cases == WithoutEmptyCases(s.cases)
            IN  CASE cases = <<>> -> CFBlock(<<Pop(s.e)>>)
                  [] Len(cases) = 1 /\ isDefault(cases[1]) -> CFBlock(<<Pop(s.e), Block(cases[1].body)>>)
                  [] Len(cases) = 1 /\ ~ isDefault(cases[1]) ->
                        CFBlock(<<If(Ins("eq", <<cases[1].value[1], s.e>>), cases[1].body)>>)
                  [] OTHER -> CFVisit([s EXCEPT !.cases = cases])
      [] OTHER -> CFVisit(s)

\* A loop whose body ends in break or in the end of the program, and has no other
\* way to leave or to continue, runs at most once.
CFLoop(s, post, body) ==
    LET kind == IF body.b = <<>> THEN "flowout" ELSE controlFlowKind(Last(body.b))
        once == /\ kind \in {"break", "terminate"}
                /\ post.continues + body.continues = 0
                /\ post.breaks + body.breaks = Truth(kind = "break")
    IN  IF once THEN If(s.e, IF kind = "break" THEN Front(body.b) ELSE body.b)
        ELSE [s EXCEPT !.post = post.b, !.body = body.b]

CFVisit(s) ==
    IF s.k = "for"
    THEN [b |-> <<CFLoop(s, CFBlock(s.post), CFBlock(s.body))>>, breaks |-> 0, continues |-> 0]
    ELSE LET r == Each(ModBlocks(s), CFBlock)
         IN  [b |-> <<WithBlocks(s, Each(r, LAMBDA x : x.b))>>,
              breaks |-> Truth(s.k = "break") + Sum(Each(r, LAMBDA x : x.breaks)),
              continues |-> Truth(s.k = "continue") + Sum(Each(r, LAMBDA x : x.continues))]

ControlFlowSimplifier(b) == CFBlock(b).b
-----------------------------------------------------------------------------
(***************************************************************************)
(* ExpressionSplitter.  st: d, the dispenser, and pre, the statements to   *)
(* put before the current one.                                             *)
(***************************************************************************)
RECURSIVE Outline(_, _), SplitExpr(_, _), SplitBlock(_, _)

\* The arguments are visited from the last to the first.
SplitExpr(e, st) ==
    IF e.k \notin {"ins", "call"} \/ (e.k = "call" /\ literalArguments(e.f)) THEN [e |-> e, st |-> st]
    ELSE FoldAlong(LAMBDA acc, i : LET r == Outline(e.args[i], acc.st)
                                  IN  [e |-> [acc.e EXCEPT !.args[i] = r.e], st |-> r.st],
                  [e |-> e, st |-> st], [i \in DOMAIN e.args |-> Len(e.args) + 1 - i])

Outline(e, st) ==
    IF IsId(e) THEN [e |-> e, st |-> st]
    ELSE LET r == SplitExpr(e, st)
             d == newName(r.st.d, NoName)
         IN  [e |-> Id(d.name), st |-> [d |-> d, pre |-> Append(r.st.pre, Let(<<d.name>>, <<r.e>>))]]

SplitStatement(s, d) ==
    LET st == [d |-> d, pre |-> <<>>]
        x == CASE s.k \in {"if", "switch"} -> Outline(s.e, st)
               [] s.k /= "for" /\ OwnExpr(s) /= <<>> -> SplitExpr(OwnExpr(s)[1], st)
               [] OTHER -> [e |-> <<>>, st |-> st]
        t == ThreadBlocks(IF x.e = <<>> THEN s ELSE WithExpr(s, x.e), x.st.d, SplitBlock)
    IN  [b |-> Append(x.st.pre, t.s), st |-> t.st]

SplitBlock(b, d) == ThreadStatements(b, d, SplitStatement)
-----------------------------------------------------------------------------
(***************************************************************************)
(* SSATransform.  st: d, the dispenser, cur, the variable that has the     *)
(* current value of a variable, and made, the variables with a new value   *)
(* in this block.  vars are those that are assigned somewhere.             *)
(***************************************************************************)
RECURSIVE Substitute(_, _)
Substitute(e, m) ==
    CASE IsId(e) -> IF e.name \in DOMAIN m THEN m[e.name] ELSE e
      [] e.k \in {"ins", "call"} -> [e EXCEPT !.args = Each(@, LAMBDA x : Substitute(x, m))]
      [] OTHER -> e

Without(f, xs) == Restrict(f, DOMAIN f \ xs)

\* New variables for xs, with value e, and copies of them in the old ones.
NewValues(xs, e, st, Copy(_, _)) ==
    LET r == FoldAlong(LAMBDA acc, x :
                        LET d == newName(acc.st.d, x)
                        IN  [new |-> Append(acc.new, d.name),
                             copies |-> Append(acc.copies, Copy(<<x>>, Id(d.name))),
                             st |-> [d |-> d, cur |-> (x :> Id(d.name)) @@ acc.st.cur,
                                     made |-> acc.st.made \cup {x}]],
                      [new |-> <<>>, copies |-> <<>>, st |-> st], xs)
    IN  [b |-> <<Let(r.new, e)>> \o r.copies, st |-> r.st]

\* Variables that the loop assigns have no known value at its start.
ClearForLoop(s, st) == [st EXCEPT !.cur = Without(@, Assignments(s.body \o s.post))]

RECURSIVE SSABlock(_, _, _)
SSABlock(b, st0, vars) ==
    LET Inner(c, st) == SSABlock(c, st, vars)
        Stmt(s, st) ==
            CASE s.k = "let" ->
                    LET v == [i \in DOMAIN s.value |-> Substitute(s.value[i], st.cur)]
                    IN  IF \A i \in DOMAIN s.vars : s.vars[i] \notin vars
                        THEN [b |-> <<Let(s.vars, v)>>, st |-> st]
                        ELSE NewValues(s.vars, v, st, LAMBDA xs, e : Let(xs, <<e>>))
              [] s.k = "set" -> NewValues(s.vars, <<Substitute(s.e, st.cur)>>, st, Assign)
              [] s.k = "for" ->             \* the body comes before the post block
                    LET p == Inner(s.pre, st)
                        c == ClearForLoop(s, p.st)
                        y == Inner(s.body, c)
                        q == Inner(s.post, y.st)
                    IN  [b |-> <<For(p.b, Substitute(s.e, c.cur), q.b, y.b)>>, st |-> q.st]
              [] OTHER ->
                    LET t == IF OwnExpr(s) = <<>> THEN s ELSE WithExpr(s, Substitute(s.e, st.cur))
                        r == ThreadBlocks(t, st, Inner)
                    IN  [b |-> <<r.s>>, st |-> r.st]
        all == ThreadStatements(b, [st0 EXCEPT !.made = {}], Stmt)
    IN  [b |-> all.b,
         st |-> [all.st EXCEPT !.cur = Without(@, all.st.made), !.made = st0.made]]

SSATransform(b, d) ==
    LET r == SSABlock(b, [d |-> d, cur |-> <<>>, made |-> {}], Assignments(b))
    IN  [b |-> r.b, st |-> r.st.d]
-----------------------------------------------------------------------------
(***************************************************************************)
(* SSAReverser: pairs of statements that copy a new value are swapped.     *)
(***************************************************************************)
Swappable(s, t, whole) ==
    /\ s.k = "let" /\ Len(s.vars) = 1 /\ s.value /= <<>>
    /\ t.k \in {"set", "let"} /\ Len(t.vars) = 1
    /\ OwnExpr(t) = <<Id(s.vars[1])>>
    /\ t.k = "let" => assignmentCount(whole, t.vars[1]) > assignmentCount(whole, s.vars[1])

RECURSIVE ReverseWindow(_, _)
ReverseWindow(b, whole) ==
    IF Len(b) < 2 THEN b
    ELSE IF Swappable(b[1], b[2], whole)
    THEN <<WithExpr(b[2], b[1].value[1]), Let(b[1].vars, <<Id(b[2].vars[1])>>)>>
            \o ReverseWindow(SubSeq(b, 3, Len(b)), whole)
    ELSE <<b[1]>> \o ReverseWindow(Tail(b), whole)

RECURSIVE ReverseBlock(_, _)
ReverseBlock(b, whole) ==
    ReverseWindow(Each(b, LAMBDA s : MapBlocks(s, LAMBDA c : ReverseBlock(c, whole))), whole)

SSAReverser(b) == ReverseBlock(b, b)
-----------------------------------------------------------------------------
(***************************************************************************)
(* RedundantAssignEliminator.  An assignment is known by its path in the   *)
(* tree.  st: asg maps the assignments on the current path to their state  *)
(* (0 unused, 1 undecided, 2 used), with variable and value; brk and cont  *)
(* are such maps for the breaks and continues of the loop; decl are the    *)
(* variables of the block, rem the assignments to be removed.              *)
(***************************************************************************)
changeUndecidedTo(asg, xs, state) ==
    [p \in DOMAIN asg |-> IF asg[p].x \in xs /\ asg[p].s = 1 THEN [asg[p] EXCEPT !.s = state] ELSE asg[p]]

Merge(f, g) ==
    [p \in DOMAIN f \cup DOMAIN g |->
        IF p \notin DOMAIN g THEN f[p] ELSE IF p \notin DOMAIN f THEN g[p]
        ELSE IF f[p].s >= g[p].s THEN f[p] ELSE g[p]]

MergeAll(f, gs) == FoldAlong(Merge, f, gs)

\* The assignments to xs are decided on the current path and on the pending ones.
finalize(st, xs, final) ==
    LET maps == {st.asg} \cup Range(st.brk) \cup Range(st.cont)
        Drop(f) == Restrict(f, {p \in DOMAIN f : f[p].x \notin xs})
        removable(f) == {p \in DOMAIN f : /\ f[p].x \in xs
                                          /\ f[p].s = 0 \/ (f[p].s = 1 /\ final = 0)
                                          /\ Movable(f[p].e)}
    IN  [st EXCEPT !.asg = Drop(@),
                   !.brk = Each(@, Drop),
                   !.cont = Each(@, Drop),
                   !.rem = @ \cup UNION {removable(f) : f \in maps}]

RaeExpr(e, st) == [st EXCEPT !.asg = changeUndecidedTo(@, referencedVariables(e), 2)]

RECURSIVE RaeBlock(_, _, _), RaeStatement(_, _, _)

RaeBlock(b, p, st) ==
    LET r == FoldAlong(LAMBDA acc, i : RaeStatement(b[i], Append(p, i), acc),
                      [st EXCEPT !.decl = {}], [i \in DOMAIN b |-> i])
    IN  [finalize(r, r.decl, 0) EXCEPT !.decl = st.decl]

\* Mutant: the loop is run once.
RaeLoop_once(s, p, st0) ==
    LET st == RaeExpr(s.e, [st0 EXCEPT !.brk = <<>>, !.cont = <<>>])
        y == RaeBlock(s.body, Append(p, 2), st)
        q == RaeBlock(s.post, Append(p, 3), [y EXCEPT !.asg = MergeAll(@, y.cont), !.cont = <<>>])
        c == RaeExpr(s.e, q)
    IN  [c EXCEPT !.asg = MergeAll(Merge(@, st.asg), c.brk), !.brk = st0.brk, !.cont = st0.cont]

\* The loop is run twice, to account for the way back.  (The code does it once
\* and calls the new assignments used if loops are nested six deep.)
RaeLoop(s, p, st0) ==
    LET Once(st) ==
            LET y == RaeBlock(s.body, Append(p, 2), st)
                q == RaeBlock(s.post, Append(p, 3), [y EXCEPT !.asg = MergeAll(@, y.cont), !.cont = <<>>])
            IN  RaeExpr(s.e, q)
        st == RaeExpr(s.e, [st0 EXCEPT !.brk = <<>>, !.cont = <<>>])
        one == Once(st)
        two == Once(one)
    IN  [two EXCEPT !.asg = MergeAll(Merge(Merge(@, one.asg), st.asg), two.brk),
                    !.brk = st0.brk, !.cont = st0.cont]

RaeSwitch(s, p, st0) ==
    LET st == RaeExpr(s.e, st0)
        r == FoldAlong(LAMBDA acc, i :
                        LET x == RaeBlock(s.cases[i].body, Append(p, i), [acc.st EXCEPT !.asg = st.asg])
                        IN  [st |-> x, branches |-> Append(acc.branches, x.asg)],
                      [st |-> st, branches |-> <<>>], [i \in DOMAIN s.cases |-> i])
        all == IF \E i \in DOMAIN s.cases : isDefault(s.cases[i]) THEN r.branches ELSE Append(r.branches, st.asg)
    IN  [r.st EXCEPT !.asg = MergeAll(Last(all), Front(all))]

RaeFunction(s, p, st) ==
    LET in == RaeBlock(s.body, Append(p, 1), [st EXCEPT !.asg = <<>>, !.brk = <<>>, !.cont = <<>>])
        out == finalize(finalize(in, Range(s.params), 0), Range(s.rets), 2)
    IN  [st EXCEPT !.rem = out.rem]

RaeStatement(s, p, st) ==
    CASE s.k = "let" -> [(IF s.value = <<>> THEN st ELSE RaeExpr(s.value[1], st))
                            EXCEPT !.decl = @ \cup Range(s.vars)]
      [] s.k = "set" ->
            LET asg == changeUndecidedTo(RaeExpr(s.e, st).asg, Range(s.vars), 0)
            IN  [st EXCEPT !.asg = IF Len(s.vars) = 1
                                   THEN asg @@ (p :> [x |-> s.vars[1], e |-> s.e, s |-> 1]) ELSE asg]
      [] s.k = "if" -> LET skip == RaeExpr(s.e, st)
                           r == RaeBlock(s.body, Append(p, 1), skip)
                       IN  [r EXCEPT !.asg = Merge(@, skip.asg)]
      [] s.k = "switch" -> RaeSwitch(s, p, st)
      [] s.k = "for" -> RaeLoop(s, p, st)
      [] s.k = "fun" -> RaeFunction(s, p, st)
      [] s.k = "break" -> [st EXCEPT !.brk = Append(@, st.asg), !.asg = <<>>]
      [] s.k = "continue" -> [st EXCEPT !.cont = Append(@, st.asg), !.asg = <<>>]
      [] s.k = "block" -> RaeBlock(s.body, Append(p, 1), st)
      [] OTHER -> RaeExpr(s.e, st)

\* AssignmentRemover.
RECURSIVE AssignmentRemover(_, _, _)
AssignmentRemover(b, p, rem) ==
    Replacing([i \in DOMAIN b |-> i], LAMBDA i :
        LET s == b[i]
            bs == SubBlocks(s)
            r == Each([j \in DOMAIN bs |-> j], LAMBDA j : AssignmentRemover(bs[j], p \o <<i, j>>, rem))
        IN  IF Append(p, i) \in rem THEN <<>>
            ELSE IF s.k = "for" THEN <<For(r[1], s.e, r[3], r[2])>>
            ELSE <<WithBlocks(s, r)>>)

RedundantAssignEliminator(b) ==
    AssignmentRemover(b, <<>>,
        RaeBlock(b, <<>>, [asg |-> <<>>, brk |-> <<>>, cont |-> <<>>, decl |-> {}, rem |-> {}]).rem)
-----------------------------------------------------------------------------
(***************************************************************************)
(* ExpressionJoiner.  st: blk, the statements of the block, of which those *)
(* up to at are before the current one.  at is 0 where nothing can be      *)
(* joined.                                                                 *)
(***************************************************************************)
RECURSIVE JoinExpr(_, _, _)
JoinExpr(e, st, refs) ==
    IF IsId(e)
    THEN IF /\ st.at > 0
            /\ st.blk[st.at].k = "let"
            /\ st.blk[st.at].vars = <<e.name>>
            /\ st.blk[st.at].value /= <<>>
            /\ refs[e.name] = 1
         THEN [e |-> st.blk[st.at].value[1],
               st |-> [blk |-> [st.blk EXCEPT ![st.at] = Block(<<>>)], at |-> st.at - 1]]
         ELSE [e |-> e, st |-> st]
    ELSE LET compound == {i \in DOMAIN Subterms(e) : ~ IsId(e.args[i]) /\ ~ IsLit(e.args[i])}
             from == IF compound = {} THEN 1 ELSE CHOOSE i \in compound : \A j \in compound : j <= i
         IN  FoldAlong(LAMBDA acc, i : LET r == JoinExpr(e.args[i], acc.st, refs)
                                      IN  [e |-> [acc.e EXCEPT !.args[i] = r.e], st |-> r.st],
                      [e |-> e, st |-> st],
                      [i \in 1 .. (IF Subterms(e) = <<>> THEN 0 ELSE Len(e.args) + 1 - from) |-> from + i - 1])

RECURSIVE JoinBlock(_, _)
JoinBlock(b, refs) ==
    LET Step(st, i) ==
            LET s == st.blk[i]
                \* the init block of a loop comes before its condition
                x == IF OwnExpr(s) = <<>> \/ s.k = "for" THEN [e |-> <<>>, st |-> st]
                     ELSE JoinExpr(OwnExpr(s)[1], st, refs)
                t == IF x.e = <<>> THEN s ELSE WithExpr(s, x.e)
            IN  [blk |-> [x.st.blk EXCEPT ![i] = MapBlocks(t, LAMBDA c : JoinBlock(c, refs))], at |-> i]
    IN  removeEmptyBlocks(FoldAlong(Step, [blk |-> b, at |-> 0], [i \in DOMAIN b |-> i]).blk)

ExpressionJoiner(b) == JoinBlock(b, countReferences(BlockRefs(b), Names(b)))
-----------------------------------------------------------------------------
(***************************************************************************)
(* ExpressionInliner: functions that are one expression are put in place   *)
(* of calls with movable arguments.                                        *)
(***************************************************************************)
InlinableExpression(f) ==
    /\ Len(f.rets) = 1 /\ Len(f.body) = 1
    /\ f.body[1].k = "set" /\ f.body[1].vars = f.rets
    /\ Range(ExprRefs(f.body[1].e)) \cap {f.name, f.rets[1]} = {}

RECURSIVE InlineExpr(_, _)
InlineExpr(e, funs) ==
    IF e.k \notin {"ins", "call"} THEN e
    ELSE LET c == [e EXCEPT !.args = Each(@, LAMBDA x : InlineExpr(x, funs))]
         IN  IF c.k = "call" /\ c.f \in DOMAIN funs /\ \A i \in DOMAIN c.args : Movable(c.args[i])
             THEN LET f == funs[c.f]
                      m == [x \in Range(f.params) |->
                                c.args[CHOOSE i \in DOMAIN f.params : f.params[i] = x]]
                  IN  Substitute(f.body[1].e, m)
             ELSE c

RECURSIVE InlineExprsIn(_, _)
InlineExprsIn(b, funs) ==
    Each(b, LAMBDA s0 :
        LET s == MapBlocks(s0, LAMBDA c : InlineExprsIn(c, funs))
        IN  IF OwnExpr(s) = <<>> THEN s ELSE WithExpr(s, InlineExpr(OwnExpr(s)[1], funs)))

\* A function that has been visited is inlined in its new form.
ExpressionInliner(b) ==
    ThreadStatements(b, [x \in {f.name : f \in {g \in FunctionsOf(b) : InlinableExpression(g)}} |->
                            CHOOSE f \in FunctionsOf(b) : f.name = x],
        LAMBDA s, funs :
            LET t == InlineExprsIn(<<s>>, funs)[1]
            IN  [b |-> <<t>>, st |-> IF s.k = "fun" /\ s.name \in DOMAIN funs
                                     THEN [funs EXCEPT ![s.name] = t] ELSE funs]).b
-----------------------------------------------------------------------------
(***************************************************************************)
(* FullInliner.  st: d, the dispenser, funs, the functions in their        *)
(* present form, sizes, the estimated sizes of functions, that of the main *)
(* block under NoName.                                                     *)
(***************************************************************************)

\* SSAValueTracker: the values of variables that are never assigned.
RECURSIVE ValuePairs(_)
ValuePairs(b) ==
    UNION {(CASE b[i].k = "let" /\ b[i].value = <<>> -> {<<x, Lit(0)>> : x \in Range(b[i].vars)}
              [] b[i].k = "let" /\ b[i].value /= <<>> /\ Len(b[i].vars) = 1 -> {<<b[i].vars[1], b[i].value[1]>>}
              [] b[i].k = "fun" -> {<<x, Lit(0)>> : x \in Range(b[i].rets)}
              [] OTHER -> {})
             \cup Union([j \in DOMAIN SubBlocks(b[i]) |-> ValuePairs(SubBlocks(b[i])[j])]) : i \in DOMAIN b}

SSAValueTracker(b) ==
    LET pairs == {p \in ValuePairs(b) : p[1] \notin Assignments(b)}
    IN  [x \in {p[1] : p \in pairs} |-> (CHOOSE p \in pairs : p[1] = x)[2]]

shallInline(c, caller, st) ==
    /\ c.f /= caller
    /\ c.f \in DOMAIN st.funs
    /\ LET size == st.sizes[c.f]
           constantArg == \E i \in DOMAIN c.args :
                             IsLit(c.args[i]) \/ (IsId(c.args[i]) /\ c.args[i].name \in st.constants)
       IN  \/ size <= 1
           \/ /\ st.sizes[caller] <= 45
              /\ c.f \in st.singleUse \/ size < 6 \/ (constantArg /\ size < 12)

\* BodyCopier: new names for the variables that the body declares.  st: d, and m,
\* from names to identifiers.
RECURSIVE BodyCopier(_, _)
BodyCopier(b, st0) ==
    ThreadStatements(b, st0, LAMBDA s, st :
        IF s.k = "let"
        THEN LET r == FoldAlong(LAMBDA acc, x : LET d == newName(acc.d, x)
                                               IN  [d |-> d, m |-> (x :> Id(d.name)) @@ acc.m], st, s.vars)
             IN  [b |-> <<Let([i \in DOMAIN s.vars |-> r.m[s.vars[i]].name],
                              [i \in DOMAIN s.value |-> Substitute(s.value[i], r.m)])>>, st |-> r]
        ELSE LET e == IF OwnExpr(s) = <<>> THEN s ELSE WithExpr(s, Substitute(s.e, st.m))
                 t == IF s.k /= "set" THEN e
                      ELSE [e EXCEPT !.vars = [i \in DOMAIN @ |-> Substitute(Id(@[i]), st.m).name]]
                 r == ThreadBlocks(t, st, BodyCopier)
             IN  [b |-> <<r.s>>, st |-> r.st])

\* Mutant: the result variables of the inlined function are not set to zero.
performInline_noreset(s, c, caller, st) ==
    LET f == st.funs[c.f]
        r == FoldAlong(LAMBDA acc, i :
                        LET x == (f.params \o f.rets)[i]
                            d == IF i <= Len(f.params) THEN newName(acc.d, x) ELSE [acc.d EXCEPT !.name = x]
                        IN  [b |-> Append(acc.b, Let(<<d.name>>, IF i <= Len(c.args) THEN <<c.args[i]>> ELSE <<Lit(0)>>)),
                             d |-> d, m |-> (x :> Id(d.name)) @@ acc.m],
                      [b |-> <<>>, d |-> st.d, m |-> <<>>], [i \in 1 .. Len(f.params \o f.rets) |-> i])
        y == BodyCopier(f.body, [d |-> r.d, m |-> r.m])
        results == IF s.k = "exp" THEN <<>>
                   ELSE [i \in DOMAIN s.vars |-> WithExpr([s EXCEPT !.vars = <<s.vars[i]>>], r.m[f.rets[i]])]
    IN  [b |-> r.b \o y.b \o results,
         st |-> [st EXCEPT !.d = y.st.d, !.sizes[caller] = @ + st.sizes[c.f]]]

\* Variables for parameters and results, the body, and copies of the results.
performInline(s, c, caller, st) ==
    LET f == st.funs[c.f]
        r == FoldAlong(LAMBDA acc, i :
                        LET x == (f.params \o f.rets)[i]
                            d == newName(acc.d, x)
                        IN  [b |-> Append(acc.b, Let(<<d.name>>, IF i <= Len(c.args) THEN <<c.args[i]>> ELSE <<Lit(0)>>)),
                             d |-> d, m |-> (x :> Id(d.name)) @@ acc.m],
                      [b |-> <<>>, d |-> st.d, m |-> <<>>], [i \in 1 .. Len(f.params \o f.rets) |-> i])
        y == BodyCopier(f.body, [d |-> r.d, m |-> r.m])
        results == IF s.k = "exp" THEN <<>>
                   ELSE [i \in DOMAIN s.vars |-> WithExpr([s EXCEPT !.vars = <<s.vars[i]>>], r.m[f.rets[i]])]
    IN  [b |-> r.b \o y.b \o results,
         st |-> [st EXCEPT !.d = y.st.d, !.sizes[caller] = @ + st.sizes[c.f]]]

RECURSIVE InlineModifier(_, _, _)
InlineModifier(b, st0, caller) ==
    ThreadStatements(b, st0, LAMBDA s0, st1 :
        LET r == ThreadBlocks(s0, st1, LAMBDA c, st : InlineModifier(c, st, caller))
            s == r.s
        IN  IF /\ s.k \in {"exp", "set", "let"}
               /\ OwnExpr(s) /= <<>>
               /\ OwnExpr(s)[1].k = "call"
               /\ shallInline(OwnExpr(s)[1], caller, r.st)
            THEN performInline(s, OwnExpr(s)[1], caller, r.st)
            ELSE [b |-> <<s>>, st |-> r.st])

\* The block of the main program, and then the functions, in the order of a map
\* by names.
FullInliner(b, d) ==
    LET funs == [x \in {f.name : f \in FunctionsOf(b)} |-> CHOOSE f \in FunctionsOf(b) : f.name = x]
        refs == countReferences(BlockRefs(b), DOMAIN funs)
        values == SSAValueTracker(b)
        st0 == [d |-> d, funs |-> funs,
                sizes |-> [x \in DOMAIN funs |-> codeSize(funs[x].body)] @@ (NoName :> codeSize(b)),
                singleUse |-> {x \in DOMAIN funs : refs[x] = 1},
                constants |-> {x \in DOMAIN values : IsLit(values[x])}]
    IN  LET r == ThreadStatements(b, st0, LAMBDA s, st :
                    IF s.k = "block"
                    THEN LET y == InlineModifier(s.body, st, NoName) IN [b |-> <<Block(y.b)>>, st |-> y.st]
                    ELSE LET y == InlineModifier(st.funs[s.name].body, st, s.name)
                             f == [s EXCEPT !.body = y.b]
                         IN  [b |-> <<f>>,
                              st |-> [y.st EXCEPT !.funs[s.name] = f, !.sizes[s.name] = codeSize(f.body)]])
        IN  [b |-> r.b, st |-> r.st.d]
-----------------------------------------------------------------------------
(***************************************************************************)
(* VarNameCleaner.  st: used and tr, the translated names.                 *)
(***************************************************************************)
findCleanName(x, used) ==
    LET base == <<x[1]>>
        taken(y) == y = NoName \/ y \in Builtins \/ y \in used
        tries == {i \in 1 .. Cardinality(used) + 2 : ~ taken(Append(base, i))}
    IN  IF ~ taken(base) THEN base
        ELSE Append(base, CHOOSE i \in tries : \A j \in tries : i <= j)

renameVariables(xs, st) ==
    FoldAlong(LAMBDA acc, x : LET y == findCleanName(x, acc.used)
                             IN  [used |-> acc.used \cup {y}, tr |-> (x :> Id(y)) @@ acc.tr], st, xs)

Cleaned(xs, st) == [i \in DOMAIN xs |-> Substitute(Id(xs[i]), st.tr).name]

RECURSIVE CleanBlock(_, _, _)
CleanBlock(b, st0, blacklist) ==
    ThreadStatements(b, st0, LAMBDA s, st :
        CASE s.k = "fun" ->
                LET in == renameVariables(s.params \o s.rets, [used |-> blacklist, tr |-> <<>>])
                IN  [b |-> <<Function(s.name, Cleaned(s.params, in), Cleaned(s.rets, in),
                                      CleanBlock(s.body, in, blacklist).b)>>, st |-> st]
          [] s.k = "let" ->
                LET r == renameVariables(s.vars, st)
                IN  [b |-> <<Let(Cleaned(s.vars, r), [i \in DOMAIN s.value |-> Substitute(s.value[i], r.tr)])>>,
                     st |-> r]
          [] OTHER ->
                LET e == IF OwnExpr(s) = <<>> THEN s ELSE WithExpr(s, Substitute(s.e, st.tr))
                    t == IF s.k = "set" THEN [e EXCEPT !.vars = Cleaned(@, st)] ELSE e
                    r == ThreadBlocks(t, st, LAMBDA c, x : CleanBlock(c, x, blacklist))
                IN  [b |-> <<r.s>>, st |-> r.st])

VarNameCleaner(b) ==
    LET blacklist == Reserved \cup {f.name : f \in FunctionsOf(b)}
    IN  CleanBlock(b, [used |-> blacklist, tr |-> <<>>], blacklist).b
=============================================================================
