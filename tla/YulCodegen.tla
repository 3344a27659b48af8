------------------------------ MODULE YulCodegen ------------------------------
(***************************************************************************)
(* CodeTransform (EVMCodeTransform.cpp): from Yul to assembly items.  The  *)
(* names of the program are unique, so that a name is a variable.  g:      *)
(*   items   what has been generated                                       *)
(*   h       the height of the stack                                       *)
(*   vh      the stack slots of variables                                  *)
(*   refs    the references to variables that have not been generated      *)
(*   n       the labels in use                                             *)
(*   entry   the labels of functions                                       *)
(*   loops   labels and stack heights for continue and break               *)
(*   sched   variables scheduled for deletion                              *)
(*   unused  stack slots that can be used again                            *)
(*   errs    stack errors: function and surplus                            *)
(*   thrown  the error that is being thrown, if any                        *)
(***************************************************************************)
EXTENDS YulDataFlow, AssemblyItems

CONSTANT Reach      \* the deepest slot that an instruction can copy: 16

Thrown(g) == g.thrown /= <<>>

Emit(g, i) == [g EXCEPT !.items = Append(@, i), !.h = @ + deposit(i)]

EmitAll(g, is) == FoldAlong(Emit, g, is)

newLabelId(g) == [g EXCEPT !.n = @ + 1]

appendJumpTo(g, l, diff) == [EmitAll(g, <<PushTag(l), Op("jump")>>) EXCEPT !.h = @ + diff]

appendJumpToIf(g, l) == EmitAll(g, <<PushTag(l), Op("jumpi")>>)

VariablesOf(b) == UNION {Range(b[i].vars) : i \in {j \in DOMAIN b : b[j].k = "let"}}
-----------------------------------------------------------------------------
(***************************************************************************)
(* The life of variables.                                                  *)
(***************************************************************************)

\* VariableReferenceCounter: the results of a function are referenced once more.
RECURSIVE ReturnVariables(_)
ReturnVariables(b) ==
    Replacing(b, LAMBDA s : (IF s.k = "fun" THEN s.rets ELSE <<>>) \o Replacing(SubBlocks(s), ReturnVariables))

VariableReferenceCounter(b) ==
    countReferences(BlockRefs(b) \o ReturnVariables(b), Names(b))

decreaseReference(x, g) ==
    IF ~ g.opt THEN g
    ELSE [g EXCEPT !.refs[x] = @ - 1, !.sched = IF g.refs[x] = 1 THEN @ \cup {x} ELSE @]

RECURSIVE PopUnused(_)
PopUnused(g) ==
    IF g.h - 1 \notin g.unused THEN g
    ELSE PopUnused(Emit([g EXCEPT !.unused = @ \ {g.h - 1}], Op("pop")))

\* freeUnusedVariables and deleteVariable, for the variables xs of the scope.
freeUnusedVariables(g, xs) ==
    IF ~ g.opt THEN g
    ELSE LET gone == g.sched \cap xs
         IN  PopUnused([g EXCEPT !.unused = @ \cup {g.vh[x] : x \in gone},
                                 !.vh = Without(@, gone), !.sched = @ \ gone])

\* variableHeightDiff: a variable that is too deep throws.
TooDeep(g, x, limit) == g.h - g.vh[x] > limit

Throw(g, x, limit) ==
    LET error == [fn |-> NoName, depth |-> g.h - g.vh[x] - limit]
    IN  [g EXCEPT !.errs = Append(@, error), !.thrown = <<error>>]

\* The top of the stack is stored in the slot of x.
StoreTo(g, x) ==
    IF TooDeep(g, x, Reach + 1) THEN Throw(g, x, Reach + 1)
    ELSE EmitAll(g, <<SwapItem(g.h - g.vh[x] - 1), Op("pop")>>)

stackError(g, error, target) ==
    LET i == Emit(g, Op("invalid"))
        fix == IF i.h > target THEN [j \in 1 .. i.h - target |-> Op("pop")]
               ELSE [j \in 1 .. target - i.h |-> Push(0)]
    IN  [EmitAll(i, fix) EXCEPT !.errs = Append(@, error)]
-----------------------------------------------------------------------------
(***************************************************************************)
(* Expressions.                                                            *)
(***************************************************************************)
functionEntryID(f, g) ==
    IF f \in DOMAIN g.entry THEN g ELSE [newLabelId(g) EXCEPT !.entry = (f :> g.n + 1) @@ @]

RECURSIVE GenExpr(_, _)

\* From the last argument to the first.
GenArguments(es, g) == FoldRight(LAMBDA e, acc : GenExpr(e, acc), es, g)

\* rets: the number of results of the functions of the program.
GenCall(e, g0) ==
    LET label == g0.n + 1
        a == GenArguments(e.args, Emit(newLabelId(g0), PushTag(label)))
        f == functionEntryID(e.f, a)
    IN  IF Thrown(a) THEN a
        ELSE Emit(appendJumpTo(f, f.entry[e.f], g0.rets[e.f] - Len(e.args) - 1), Tag(label))

GenExpr(e, g) ==
    CASE Thrown(g) -> g
      [] ~ Thrown(g) /\ IsLit(e) -> Emit(g, Push(e.v))
      [] ~ Thrown(g) /\ IsId(e) ->
            (IF TooDeep(g, e.name, Reach) THEN Throw(g, e.name, Reach)
             ELSE decreaseReference(e.name, Emit(g, DupItem(g.h - g.vh[e.name]))))
      [] ~ Thrown(g) /\ e.k = "ins" ->
            LET a == GenArguments(e.args, g) IN IF Thrown(a) THEN a ELSE Emit(a, Op(e.op))
      [] ~ Thrown(g) /\ e.k = "call" ->
            IF e.f \in Builtins THEN Emit(g, Push(Len(e.f))) ELSE GenCall(e, g)
-----------------------------------------------------------------------------
(***************************************************************************)
(* Statements.                                                             *)
(***************************************************************************)

\* One variable of a declaration, from the last one on; top is whether what comes
\* after it has left the stack.
DeclareVariable(x, slot, acc) ==
    LET g == [acc.g EXCEPT !.vh = (x :> slot) @@ @]
        reuse == CHOOSE i \in g.unused : \A j \in g.unused : i <= j
    IN  CASE Thrown(acc.g) -> acc
          [] ~ Thrown(g) /\ ~ g.opt -> [acc EXCEPT !.g = g]
          [] ~ Thrown(g) /\ g.opt /\ g.refs[x] = 0 ->
                (IF acc.top THEN [acc EXCEPT !.g = Emit([g EXCEPT !.vh = Without(@, {x})], Op("pop"))]
                 ELSE [acc EXCEPT !.g = [g EXCEPT !.sched = @ \cup {x}]])
          [] ~ Thrown(g) /\ g.opt /\ g.refs[x] /= 0 ->
                IF g.unused = {} THEN [g |-> g, top |-> FALSE]
                ELSE [acc EXCEPT !.g = StoreTo([g EXCEPT !.unused = @ \ {reuse}, !.vh[x] = reuse], x)]

GenDeclaration(s, g0) ==
    LET n == Len(s.vars)
        g == IF s.value = <<>> THEN EmitAll(g0, [i \in 1 .. n |-> Push(0)]) ELSE GenExpr(s.value[1], g0)
    IN  FoldAlong(LAMBDA acc, i : DeclareVariable(s.vars[i], g0.h + i - 1, acc),
                  [g |-> g, top |-> TRUE], [i \in 1 .. n |-> n + 1 - i]).g

\* generateMultiAssignment.
GenAssignment(s, g0) ==
    FoldRight(LAMBDA x, g : LET y == IF Thrown(g) THEN g ELSE StoreTo(g, x)
                            IN  IF Thrown(y) THEN y ELSE decreaseReference(x, y),
              s.vars, GenExpr(s.e, g0))

RECURSIVE GenBlock(_, _), GenStatement(_, _)

visitStatements(b, g, xs) ==
    FoldAlong(LAMBDA acc, s : IF Thrown(acc) THEN acc
                              ELSE LET r == GenStatement(s, acc)
                                   IN  IF Thrown(r) THEN r ELSE freeUnusedVariables(r, xs),
              freeUnusedVariables(g, xs), b)

\* finalizeBlock: the variables leave the stack.
finalizeBlock(g, xs) ==
    IF g.opt THEN freeUnusedVariables(g, xs)
    ELSE EmitAll(g, [i \in 1 .. Cardinality(xs) |-> Op("pop")])

\* Errors that were stored are thrown at the end of a block.
GenBlock(b, g) ==
    LET xs == VariablesOf(b)
        r == visitStatements(b, g, xs)
        f == finalizeBlock(r, xs)
    IN  IF Thrown(r) THEN r ELSE IF f.errs = <<>> THEN f ELSE [f EXCEPT !.thrown = <<Head(f.errs)>>]

GenIf(s, g0) ==
    LET c == GenExpr(s.e, g0)
        end == c.n + 1
        b == GenBlock(s.body, appendJumpToIf(newLabelId(Emit(c, Op("iszero"))), end))
    IN  IF Thrown(c) THEN c ELSE IF Thrown(b) THEN b ELSE Emit(b, Tag(end))

\* The default case is generated among the comparisons, the other bodies after
\* them.
GenSwitch(s, g0) ==
    LET c == GenExpr(s.e, g0)
        end == c.n + 1
        heads == FoldAlong(LAMBDA acc, k :
                    CASE Thrown(acc.g) -> acc
                      [] ~ Thrown(acc.g) /\ isDefault(k) -> [acc EXCEPT !.g = GenBlock(k.body, @)]
                      [] OTHER ->
                            LET v == newLabelId(GenExpr(k.value[1], acc.g))
                            IN  [g |-> appendJumpToIf(EmitAll(v, <<DupItem(2), Op("eq")>>), v.n),
                                 bodies |-> Append(acc.bodies, <<v.n, k.body>>)],
                    [g |-> newLabelId(c), bodies |-> <<>>], s.cases)
        bodies == FoldAlong(LAMBDA acc, i :
                    LET b == heads.bodies[i]
                        y == IF Thrown(acc) THEN acc ELSE GenBlock(b[2], Emit(acc, Tag(b[1])))
                    IN  IF Thrown(y) \/ i = Len(heads.bodies) THEN y ELSE appendJumpTo(y, end, 0),
                    appendJumpTo(heads.g, end, 0), [i \in DOMAIN heads.bodies |-> i])
    IN  CASE Thrown(c) -> c
          [] ~ Thrown(c) /\ Thrown(heads.g) -> heads.g
          [] OTHER -> IF Thrown(bodies) THEN bodies ELSE EmitAll(bodies, <<Tag(end), Op("pop")>>)

\* From <return label, arguments, results> to <results, return label>.
RECURSIVE Reshuffle(_, _)
Reshuffle(layout, g) ==
    LET n == Len(layout)
        last == layout[n]
    IN  IF n = 0 THEN g
        ELSE IF last = n - 1 THEN g
        ELSE IF last < 0 THEN Reshuffle(Front(layout), Emit(g, Op("pop")))
        ELSE Reshuffle([layout EXCEPT ![n] = layout[last + 1], ![last + 1] = last],
                       Emit(g, SwapItem(n - last - 1)))

\* The body has an object of its own: deletion starts anew, and its error is stored.
GenFunction(s, g0) ==
    LET np == Len(s.params)
        nr == Len(s.rets)
        after == g0.n + 1
        e == functionEntryID(s.name, newLabelId(g0))
        start == Emit(appendJumpTo(e, after, 1 + np - g0.h), Tag(e.entry[s.name]))
        zeros == EmitAll(start, [i \in 1 .. nr |-> Push(0)])
        slots == [x \in Range(s.params) |-> 1 + np - (CHOOSE i \in 1 .. np : s.params[i] = x)]
                   @@ [x \in Range(s.rets) |-> np + (CHOOSE i \in 1 .. nr : s.rets[i] = x)]
        b == GenBlock(s.body, [zeros EXCEPT !.vh = slots @@ @, !.sched = {}, !.unused = {}, !.errs = <<>>])
        back == [b EXCEPT !.sched = g0.sched, !.unused = g0.unused, !.errs = g0.errs, !.thrown = <<>>]
        error == IF b.thrown[1].fn = NoName THEN [b.thrown[1] EXCEPT !.fn = s.name] ELSE b.thrown[1]
        body == IF Thrown(b) THEN stackError(back, error, 1 + np + nr) ELSE back
        layout == <<nr>> \o [i \in 1 .. np |-> 0 - 1] \o [i \in 1 .. nr |-> i - 1]
        shuffled == IF Len(layout) > Reach + 1
                    THEN stackError(body, [fn |-> s.name, depth |-> Len(layout) - Reach - 1], body.h - np)
                    ELSE Reshuffle(layout, body)
    IN  Emit([Emit(shuffled, Op("jump")) EXCEPT !.h = g0.h], Tag(after))

GenLoop(s, g0) ==
    LET xs == VariablesOf(s.pre)
        p == visitStatements(s.pre, g0, xs)
        start == p.n + 1
        post == p.n + 2
        end == p.n + 3
        c == GenExpr(s.e, Emit([p EXCEPT !.n = @ + 3], Tag(start)))
        j == appendJumpToIf(Emit(c, Op("iszero")), end)
        y == GenBlock(s.body, [j EXCEPT !.loops = Append(@, [continue |-> post, break |-> end, h |-> j.h])])
        q == IF Thrown(y) THEN y ELSE GenBlock(s.post, Emit(y, Tag(post)))
    IN  CASE Thrown(p) -> p
          [] ~ Thrown(p) /\ Thrown(c) -> c
          [] ~ Thrown(p) /\ ~ Thrown(c) /\ Thrown(q) -> q
          [] OTHER -> [finalizeBlock(Emit(appendJumpTo(q, start, 0), Tag(end)), xs) EXCEPT !.loops = Front(@)]

\* Mutant: the variables of the body stay on the stack.
GenLeave_nopop(s, g) == appendJumpTo(g, Last(g.loops)[s.k], 0)

\* break and continue pop what the body has put on the stack.
GenLeave(s, g) ==
    LET loop == Last(g.loops)
        diff == g.h - loop.h
    IN  appendJumpTo(EmitAll(g, [i \in 1 .. diff |-> Op("pop")]), loop[s.k], diff)

GenStatement(s, g) ==
    CASE s.k = "exp" -> GenExpr(s.e, g)
      [] s.k = "let" -> GenDeclaration(s, g)
      [] s.k = "set" -> GenAssignment(s, g)
      [] s.k = "if" -> GenIf(s, g)
      [] s.k = "switch" -> GenSwitch(s, g)
      [] s.k = "fun" -> GenFunction(s, g)
      [] s.k = "for" -> GenLoop(s, g)
      [] s.k \in {"break", "continue"} -> GenLeave(s, g)
      [] s.k = "block" -> GenBlock(s.body, g)

\* The number of results of every function.
RECURSIVE ResultCounts(_)
ResultCounts(b) ==
    FoldAlong(LAMBDA acc, s : (IF s.k = "fun" THEN (s.name :> Len(s.rets)) ELSE <<>>)
                                @@ FoldAlong(LAMBDA a, c : ResultCounts(c) @@ a, <<>>, SubBlocks(s)) @@ acc,
              <<>>, b)

CodeTransform(b, opt) ==
    GenBlock(b, [items |-> <<>>, h |-> 0, vh |-> <<>>, refs |-> VariableReferenceCounter(b), n |-> 0,
                 entry |-> <<>>, loops |-> <<>>, sched |-> {}, unused |-> {}, errs |-> <<>>,
                 thrown |-> <<>>, rets |-> ResultCounts(b), opt |-> opt])
-----------------------------------------------------------------------------
(***************************************************************************)
(* CompilabilityChecker and StackCompressor.                               *)
(***************************************************************************)

\* The surplus of every function that does not compile; the program itself has no
\* name.
CompilabilityChecker(b, opt) ==
    LET errs == CodeTransform(b, opt).errs
    IN  [f \in {errs[i].fn : i \in DOMAIN errs} |->
            LET ds == {errs[i].depth : i \in {j \in DOMAIN errs : errs[j].fn = f}}
            IN  CHOOSE d \in ds : \A e \in ds : e <= d]

Compress(s, surplus) ==
    CASE s.k = "block" /\ NoName \in DOMAIN surplus -> Block(eliminateVariables(s.body, surplus[NoName]))
      [] s.k = "fun" /\ s.name \in DOMAIN surplus -> eliminateInFunction(s, surplus[s.name])
      [] OTHER -> s

\* Variables that can be computed again are removed until the program compiles,
\* in at most n rounds.
RECURSIVE StackCompressor(_, _, _)
StackCompressor(b, opt, n) ==
    LET surplus == CompilabilityChecker(b, opt)
    IN  IF n = 0 \/ DOMAIN surplus = {} THEN b
        ELSE StackCompressor(Each(b, LAMBDA s : Compress(s, surplus)), opt, n - 1)
=============================================================================
