------------------------------ MODULE SmtChecker ------------------------------
(***************************************************************************)
(* The SMT checker of the compiler: it visits a function once, gives every *)
(* assignment a fresh symbol, and asks for each verification target        *)
(* whether the assertions collected so far admit it.  The assertions are   *)
(* kept as the set of their models ("worlds"): a world maps symbols to     *)
(* values, an assertion removes worlds, an unconstrained symbol multiplies *)
(* them.  The symbol of a variable is the pair of its declaration and an   *)
(* index, that of an expression a pair of "" and a number.                 *)
(***************************************************************************)
EXTENDS SolAst

CONSTANT Bits     \* number of values of each type

TRUEv == 1
FALSEv == 0
Truth(p) == IF p THEN TRUEv ELSE FALSEv

\* m_interface, m_context, m_pathConditions, m_callStack and m_modifierDepthStack.
\* A world that has met the violation of an overflow target has it under Over.
Over == <<"overflow", 0>>

Solver ==
    [worlds |-> {Over :> FALSE}, n |-> 0, idx |-> <<>>, free |-> <<>>, path |-> <<>>,
     calls |-> <<>>, depth |-> <<>>, globals |-> <<>>, val |-> None, at |-> None, parts |-> <<>>, ats |-> <<>>,
     keep |-> {Over}, warned |-> FALSE, internal |-> FALSE]

Warn(s) == [s EXCEPT !.warned = TRUE]

addAssertion(s, P(_)) == [s EXCEPT !.worlds = {w \in @ : P(w)}]

-----------------------------------------------------------------------------
(***************************************************************************)
(* Types and symbols.                                                      *)
(***************************************************************************)
isNumber(cat) == cat \in (DOMAIN Bits \ {"bool"}) \cup {"lit", "contract"}

isSupportedType(cat) == isNumber(cat) \/ cat \in {"bool", "mapping", "tuple"}

\* The type that the type checker gave to an expression.
RECURSIVE TypeOf(_)
TypeOf(e) ==
    LET sub == [i \in DOMAIN e.sub |-> TypeOf(e.sub[i])]
        common == IF sub[1] = "lit" THEN sub[2] ELSE sub[1]
        rets == prog.fn[e.fn].rets
    IN  CASE e.k = "id" -> IF e.decl \in DOMAIN prog.var THEN prog.var[e.decl].cat ELSE "other"
          [] e.k = "lit" -> IF e.cat = "int" THEN "lit" ELSE e.cat
          [] e.k = "cast" -> e.to
          [] e.k = "binary" -> IF e.op \in {"&&", "||", "<", ">", "==", "!="} THEN "bool" ELSE common
          [] e.k = "unary" -> sub[1]
          [] e.k = "assign" -> sub[1]
          [] e.k = "cond" -> IF sub[2] = "lit" THEN sub[3] ELSE sub[2]
          [] e.k = "tuple" -> IF Len(sub) = 1 THEN sub[1] ELSE "tuple"
          [] e.k = "index" -> prog.var[prog.var[e.sub[1].decl].of.value].cat
          [] e.k = "member" -> IF e.decl = None /\ e.name = "sender" THEN "address"
                               ELSE IF e.decl = None THEN "uint" ELSE prog.var[e.decl].cat
          [] e.k = "call" /\ e.fn \in DOMAIN prog.fn ->
                IF rets = <<>> THEN "void" ELSE IF Len(rets) = 1 THEN prog.var[rets[1]].cat ELSE "tuple"
          [] OTHER -> "void"

maxValue(cat) == Bits[cat] - 1

\* What setSymbolicUnknownValue admits; the values of a mapping are not
\* restricted before they are read.
UnknownValues(d) ==
    LET t == prog.var[d]
    IN  IF t.cat = "mapping"
        THEN [0 .. maxValue(t.of.keys[1]) -> 0 .. maxValue(prog.var[t.of.value].cat)]
        ELSE 0 .. maxValue(t.cat)

ZeroValues(d) == IF prog.var[d].cat = "mapping" THEN UnknownValues(d) ELSE {0}

\* A fresh symbol for an expression, equal to F in each world.
defineExpr(s, F(_)) ==
    LET k == <<"", s.n>>
    IN  [s EXCEPT !.n = @ + 1, !.val = k, !.worlds = {(k :> F(w)) @@ w : w \in @}]

\* An expression without a value is an internal error for the user, and unknown.
expr(s) ==
    IF s.val /= None THEN s
    ELSE LET k == <<"", s.n>>
         IN  [Warn(s) EXCEPT !.n = @ + 1, !.val = k, !.worlds = {(k :> v) @@ w : w \in @, v \in {0, 1}}]

knownVariable(s, d) == d \in DOMAIN s.idx

createVariable(s, d) ==
    IF knownVariable(s, d) THEN s ELSE [s EXCEPT !.idx = (d :> 0) @@ @, !.free = (d :> 1) @@ @]

currentValue(s, d) == <<d, s.idx[d]>>

\* SSAVariable::operator++
newValue(s, d) == [s EXCEPT !.idx[d] = s.free[d], !.free[d] = @ + 1]

\* The current symbol of a variable has one of the values vs.
Among(s, d, vs) ==
    [s EXCEPT !.worlds = {(currentValue(s, d) :> v) @@ w : w \in @, v \in vs}]

\* The current symbol of a variable is equal to F in each world.
Equal(s, d, F(_)) == [s EXCEPT !.worlds = {(currentValue(s, d) :> F(w)) @@ w : w \in @}]

resetVariable(s, d) == Among(newValue(s, d), d, UnknownValues(d))

\* Declarations in the order of their identifiers: a fixed order.
Ordered(ds) == SetToSeq(ds)

resetVariables(s, ds) == FoldLeft(resetVariable, s, Ordered(ds))

-----------------------------------------------------------------------------
(***************************************************************************)
(* Conditions.                                                             *)
(***************************************************************************)
\* A condition is a symbol with the value that it should have, None is true.
Holds(w, c) == c = None \/ w[c[1]] = c[2]

Path(s, w) == s.path = <<>> \/ w[Last(s.path)] = TRUEv

pushPathCondition(s, c) ==
    LET d == defineExpr(s, LAMBDA w : Truth(Path(s, w) /\ Holds(w, c)))
    IN  [d EXCEPT !.path = Append(@, d.val)]

popPathCondition(s) == [s EXCEPT !.path = Front(@)]

\* A target is reported if some world on the current path meets it.
checkCondition(s, c) ==
    IF \E w \in s.worlds : Path(s, w) /\ Holds(w, c) THEN Warn(s) ELSE s

addPathImpliedExpression(s, c) == addAssertion(s, LAMBDA w : Path(s, w) => Holds(w, c))

\* Overflow targets are remembered, and reported at the end of the function.
addOverflowTarget(s, cat, v) ==
    [s EXCEPT !.worlds =
        {[w EXCEPT ![Over] = @ \/ (Path(s, w) /\ (w[v] < 0 \/ w[v] > maxValue(cat)))] : w \in @}]

checkUnderOverflow(s) == IF \E w \in s.worlds : w[Over] THEN Warn(s) ELSE s

isRootFunction(s) == Len(s.calls) = 1

\* A condition that has only one value on this path, or none, is reported.
checkBooleanNotConstant(s, e) ==
    IF e.k = "lit" \/ ~ isRootFunction(s) \/
       \A v \in {TRUEv, FALSEv} : \E w \in s.worlds : Path(s, w) /\ w[s.val] = v
    THEN s ELSE Warn(s)

-----------------------------------------------------------------------------
(***************************************************************************)
(* VariableUsage: the variables that a node may assign, through the calls  *)
(* that are inlined; local variables only of the function being visited.   *)
(***************************************************************************)
inlined(n) ==
    IF n.k = "call" /\ n.fn \in DOMAIN prog.fn /\ prog.fn[n.fn].body /= None
       /\ (n.kind = "Internal" \/ (n.kind = "External" /\ n.sub[1].k = "member" /\ n.sub[1].sub[1] = Identifier("this")))
    THEN n.fn ELSE None

Callable(c) == IF c \in DOMAIN prog.fn THEN prog.fn[c] ELSE prog.mod[c]

localVariables(c) == {n.decl : n \in {n \in ToSet(NodesOf(Callable(c).body)) : n.k = "vardecl"}}

\* The local variables, parameters and return parameters of a function or modifier.
Owned(c) ==
    localVariables(c) \cup ToSet(Callable(c).params)
        \cup (IF c \in DOMAIN prog.fn THEN ToSet(prog.fn[c].rets) ELSE {})

RECURSIVE leftmostBase(_)
leftmostBase(e) == IF e.k = "index" THEN leftmostBase(e.sub[1]) ELSE e

\* Declarations that an lvalue names.
RECURSIVE Named(_)
Named(e) ==
    CASE e.k = "tuple" -> UNION {Named(e.sub[i]) : i \in DOMAIN e.sub}
      [] e.k \in {"id", "index"} -> {leftmostBase(e).decl}
      [] OTHER -> {}

modifierNamed(name) == CHOOSE m \in DOMAIN prog.mod : prog.mod[m].name = name

RECURSIVE Touched(_, _)
Touched(node, calls) ==
    LET own(n) ==
            IF n.k = "assign" \/ (n.k = "unary" /\ n.op \in {"++", "--", "delete"}) THEN Named(n.sub[1])
            ELSE IF inlined(n) /= None /\ inlined(n) \notin ToSet(calls)
            THEN LET f == prog.fn[inlined(n)]
                 IN  Touched(f.body, Append(calls, inlined(n)))
                       \cup UNION {Touched(prog.mod[modifierNamed(f.mods[i].of)].body, Append(calls, inlined(n))) :
                                      i \in DOMAIN f.mods}
            ELSE IF n.k = "placeholder"
            THEN LET fs == SelectSeq(calls, LAMBDA c : c \in DOMAIN prog.fn)
                 IN  Touched(prog.fn[Last(fs)].body, calls)
            ELSE {}
    IN  UNION {own(n) : n \in ToSet(NodesOf(node))}

\* Mutant: a call in the node is taken to change nothing.
touchedVariables_nocalls(s, node) ==
    {d \in UNION {Named(n.sub[1]) : n \in {n \in ToSet(NodesOf(node)) : n.k = "assign"}} :
        isStateVariable(d) \/ d \in Owned(Last(s.calls))}

touchedVariables(s, node) ==
    {d \in Touched(node, s.calls) : isStateVariable(d) \/ d \in Owned(Last(s.calls))}

-----------------------------------------------------------------------------
(***************************************************************************)
(* Merging.                                                                *)
(***************************************************************************)

\* After a branch, a touched variable has the value of the branch taken.  The
\* code asserts that the branches left it with different symbols.
mergeVariables(s, ds, c, ends, other) ==
    FoldLeft(LAMBDA x, d :
                IF ends[d] = other[d] THEN [x EXCEPT !.internal = TRUE]
                ELSE Equal(newValue(x, d), d,
                           LAMBDA w : IF Holds(w, c) THEN w[<<d, ends[d]>>] ELSE w[<<d, other[d]>>]),
             s, Ordered(ds))

resetVariableIndices(s, idx) == [s EXCEPT !.idx = idx @@ @]

\* Between the statements of the function that is checked only some symbols can
\* be asked for again: those of the enclosing statements, of the path and of the
\* variables.  The others are forgotten, which changes no answer of the solver.
Keep(s, idx, more) == [s EXCEPT !.keep = @ \cup {<<d, idx[d]>> : d \in DOMAIN idx} \cup more]

Forget(s) ==
    LET live == Keep(s, s.idx, ToSet(s.path) \cup {s.globals[g] : g \in DOMAIN s.globals}).keep
    IN  IF isRootFunction(s) THEN [s EXCEPT !.worlds = {[k \in DOMAIN w \cap live |-> w[k]] : w \in @}] ELSE s

-----------------------------------------------------------------------------
(***************************************************************************)
(* Operations.                                                             *)
(***************************************************************************)

\* Division by zero is reported, and then excluded; a result out of range is an
\* overflow target, and wraps.
arithmeticOperation(s, op, l, r, cat) ==
    LET safe == IF op \notin {"/", "%"} THEN s
                ELSE addAssertion(checkCondition(s, <<r, 0>>), LAMBDA w : w[r] /= 0)
        value(w) == CASE op = "+" -> w[l] + w[r] [] op = "-" -> w[l] - w[r] [] op = "*" -> w[l] * w[r]
                      [] op = "/" -> w[l] \div w[r] [] op = "%" -> w[l] % w[r]
        raw == defineExpr(safe, value)
    IN  defineExpr(addOverflowTarget(raw, cat, raw.val), LAMBDA w : w[raw.val] % Bits[cat])

compareOperation(s, op, l, r) ==
    defineExpr(s, LAMBDA w : Truth(CASE op = "==" -> w[l] = w[r] [] op = "!=" -> w[l] /= w[r]
                                     [] op = "<" -> w[l] < w[r] [] op = ">" -> w[l] > w[r]))

\* The value v does not wrap here.
assignVariable(s, d, v) ==
    LET cat == prog.var[d].cat
        t == IF isNumber(cat) /\ cat /= "contract" THEN addOverflowTarget(s, cat, v) ELSE s
    IN  Equal(newValue(t, d), d, LAMBDA w : w[v])

\* A store to a mapping loses what is known of every other mapping of its type.
arrayIndexAssignment(s, e, at, v) ==
    LET d    == leftmostBase(e).decl
        same == {o \in DOMAIN s.idx \ {d} : prog.var[o].cat = "mapping" /\ prog.var[o].of = prog.var[d].of}
        r    == resetVariables(s, same)
    IN  IF e.sub[1].k = "id"
        THEN Equal(newValue(r, d), d, LAMBDA w : [w[currentValue(s, d)] EXCEPT ![w[at]] = w[v]])
        ELSE Warn(resetVariable(s, d))

\* at are the symbols of the indices of the targets, vs those of the values.
assignment(s, e, at, vs) ==
    LET one(x, t, a, v) ==
            IF t.k = "id" /\ t.decl \in DOMAIN prog.var THEN assignVariable(x, t.decl, v)
            ELSE IF t.k = "index" THEN arrayIndexAssignment(x, t, a, v) ELSE Warn(x)
        targets == IF e.k = "tuple" THEN e.sub ELSE <<e>>
    IN  FoldLeft(LAMBDA x, i : one(x, targets[i], at[i], vs[i]), s, [i \in DOMAIN targets |-> i])

\* Parameters take the arguments, local variables and results are zero.
initializeFunctionCallParameters(s, c, as) ==
    LET ps == Callable(c).params
        bind(x, i) == Equal(newValue(createVariable(x, ps[i]), ps[i]), ps[i], LAMBDA w : w[as[i]])
        zero(x, d) == Among(newValue(createVariable(x, d), d), d, ZeroValues(d))
    IN  FoldLeft(zero, FoldLeft(bind, s, [i \in DOMAIN ps |-> i]), Ordered(Owned(c) \ ToSet(ps)))

initializeLocalVariables(s, f) ==
    LET make(x, d) == Among(createVariable(x, d), d,
                            IF d \in ToSet(prog.fn[f].params) THEN UnknownValues(d) ELSE ZeroValues(d))
    IN  FoldLeft(make, s, Ordered(Owned(f)))

-----------------------------------------------------------------------------
(***************************************************************************)
(* The visitor.  val is the symbol of the expression visited last, at that *)
(* of its index, parts and ats those of the components of a tuple.         *)
(***************************************************************************)
RECURSIVE Visit(_, _), VisitAll(_, _), visitFunctionOrModifier(_), VisitEach(_, _)

\* The branch runs under condition c; ends are the symbols it leaves.
visitBranch(s, n, c) ==
    LET in  == Visit(pushPathCondition(s, c), n)
        out == popPathCondition(in)
    IN  [s |-> resetVariableIndices(out, s.idx), ends |-> in.idx]

visitIf(s, n) ==
    LET c     == checkBooleanNotConstant(expr(Visit(s, n.sub[1])), n.sub[1])
        cond  == c.val
        yes   == visitBranch(Keep(c, c.idx, {cond}), n.sub[2], <<cond, TRUEv>>)
        no    == IF Len(n.sub) = 3 THEN visitBranch(Keep(yes.s, yes.ends, {}), n.sub[3], <<cond, FALSEv>>)
                 ELSE [s |-> yes.s, ends |-> yes.s.idx]
        touch == UNION {touchedVariables(c, n.sub[i]) : i \in DOMAIN n.sub \ {1}}
    IN  [mergeVariables(no.s, touch, <<cond, TRUEv>>, yes.ends, no.ends) EXCEPT !.keep = s.keep]

\* The body runs once from any values of the variables that the loop assigns.
visitWhile(s, n) ==
    LET touch  == touchedVariables(s, n)
        fresh  == resetVariables(Keep(s, s.idx, {}), touch)
        reset  == Keep(fresh, fresh.idx, {})
        test   == checkBooleanNotConstant(expr(Visit(reset, n.sub[1])), n.sub[1])
        body   == IF n.do THEN visitBranch(reset, n.sub[2], None)
                  ELSE visitBranch(test, n.sub[2], <<test.val, TRUEv>>)
        late   == checkBooleanNotConstant(expr(Visit(body.s, n.sub[1])), n.sub[1])
        before == resetVariableIndices(IF n.do THEN late ELSE body.s, s.idx)
        again  == IF n.do THEN before ELSE expr(Visit(before, n.sub[1]))
    IN  [mergeVariables(again, touch, <<again.val, TRUEv>>, body.ends, again.idx) EXCEPT !.keep = s.keep]

\* Part i of a for statement: initialisation, condition or loop expression.
Part(n, i) ==
    LET n0 == IF i = 1 THEN 0 ELSE IF i = 2 THEN n.parts[1] ELSE n.parts[1] + n.parts[2]
    IN  SubSeq(n.sub, n0 + 1, n0 + n.parts[i])

\* The assertions of the body are dropped after it: its symbols may have any
\* value, and its overflow targets can always be met.
visitFor(s, n) ==
    LET init   == VisitAll(s, Part(n, 1))
        touch  == UNION {touchedVariables(init, x) : x \in ToSet(Part(n, 2) \o Part(n, 3)) \cup {Last(n.sub)}}
        reset  == resetVariables(Keep(init, init.idx, {}), touch)
        visitCond(x) == IF Part(n, 2) = <<>> THEN defineExpr(x, LAMBDA w : TRUEv) ELSE expr(Visit(x, Part(n, 2)[1]))
        test   == LET t == visitCond(reset)
                  IN  IF Part(n, 2) = <<>> THEN t ELSE checkBooleanNotConstant(t, Part(n, 2)[1])
        body   == VisitAll(Visit(addAssertion(test, LAMBDA w : w[test.val] = TRUEv), Last(n.sub)), Part(n, 3))
        grown  == \E w \in body.worlds : w[Over]
        after  == FoldLeft(LAMBDA x, d : [x EXCEPT !.worlds = {(<<d, body.idx[d]>> :> v) @@ w : w \in @, v \in UnknownValues(d)}],
                           [body EXCEPT !.worlds = {[w EXCEPT ![Over] = @ \/ grown] : w \in test.worlds}], Ordered(touch))
        again  == visitCond(resetVariableIndices(after, init.idx))
    IN  [mergeVariables(again, touch, <<again.val, TRUEv>>, body.idx, again.idx) EXCEPT !.keep = s.keep]

booleanOperation(s, n) ==
    LET l    == expr(Visit(s, n.sub[1]))
        need == IF n.op = "&&" THEN TRUEv ELSE FALSEv
        pc   == pushPathCondition(l, <<l.val, need>>)
        r    == popPathCondition(expr(Visit(pc, n.sub[2])))
        m    == mergeVariables(resetVariableIndices(r, l.idx), touchedVariables(l, n.sub[2]),
                               <<l.val, 1 - need>>, l.idx, r.idx)
    IN  defineExpr(m, LAMBDA w : IF w[l.val] = need THEN w[r.val] ELSE w[l.val])

\* A function on the call stack is not entered again; one that is gets fresh
\* symbols for its parameters and results.
inlineFunctionCall(s, f, as) ==
    LET in   == [initializeFunctionCallParameters(s, f, as)
                   EXCEPT !.calls = Append(@, f), !.depth = Append(@, -1)]
        out  == visitFunctionOrModifier(in)
        done == [out EXCEPT !.calls = Front(@), !.depth = Front(@)]
        rets == prog.fn[f].rets
    IN  IF f \in ToSet(s.calls) THEN [Warn(s) EXCEPT !.val = None]
        ELSE [done EXCEPT !.val = IF Len(rets) = 1 THEN currentValue(done, rets[1]) ELSE None,
                          !.parts = [i \in DOMAIN rets |-> currentValue(done, rets[i])]]

\* s has the symbol of the argument in parts.
visitAssert(s) ==
    addPathImpliedExpression(checkCondition(s, <<s.parts[1], FALSEv>>), <<s.parts[1], TRUEv>>)

visitRequire(s, n) ==
    addPathImpliedExpression(checkBooleanNotConstant([s EXCEPT !.val = s.parts[1]], n.sub[2]), <<s.parts[1], TRUEv>>)

\* An external call may change every state variable and all storage that a
\* pointer may refer to.
internalOrExternalFunctionCall(s, n) ==
    LET states == {d \in DOMAIN s.idx : isStateVariable(d) \/ prog.var[d].cat = "mapping"}
    IN  CASE inlined(n) /= None -> inlineFunctionCall(s, n.fn, s.parts)
          [] inlined(n) = None /\ n.kind \in {"External", "Creation"} -> [resetVariables(s, states) EXCEPT !.val = None]
          [] OTHER -> [Warn(s) EXCEPT !.val = None]

\* A function of a library that is bound to a type has its first argument before
\* the dot.
visitCall(s, n) ==
    LET called == n.sub[1]
        bound  == n.fn \in DOMAIN prog.fn /\ Len(prog.fn[n.fn].params) = Len(n.sub)
        as     == VisitEach(s, IF bound THEN <<called.sub[1]>> \o args(n) ELSE args(n))
    IN  CASE n.kind = "Assert" -> visitAssert(as)
          [] n.kind = "Require" -> visitRequire(as, n)
          [] OTHER -> internalOrExternalFunctionCall(as, n)

\* Conversions between types of different sizes are reported.
visitTypeConversion(s, n) ==
    LET a == expr(Visit(s, n.sub[1]))
        from == TypeOf(n.sub[1])
    IN  IF from \notin DOMAIN Bits \/ Bits[from] = Bits[n.to] THEN a
        ELSE IF Bits[from] < Bits[n.to] THEN Warn(a)
        ELSE LET u == <<"", a.n>>
             IN  Warn([a EXCEPT !.n = @ + 1, !.val = u, !.worlds =
                    {(u :> v) @@ w : w \in @, v \in 0 .. maxValue(n.to)}])

\* ++ and -- do not wrap: only the target of the assignment reports them.
visitUnary(s, n) ==
    LET e == Visit(s, n.sub[1])
        d == n.sub[1].decl
        inner == IF n.sub[1].k = "id" THEN currentValue(e, d) ELSE e.val
        new == defineExpr(e, LAMBDA w : w[inner] + (IF n.op = "++" THEN 1 ELSE -1))
        kept == IF n.prefix THEN new ELSE defineExpr(new, LAMBDA w : w[inner])
        neg == defineExpr(e, LAMBDA w : 0 - w[e.val])
        zero == defineExpr(e, LAMBDA w : 0)
    IN  CASE n.op \in {"++", "--"} ->
                [assignment(kept, n.sub[1], <<e.at>>, <<new.val>>) EXCEPT !.val = kept.val]
          [] n.op = "delete" -> assignment(zero, n.sub[1], <<e.at>>, <<zero.val>>)
          [] n.op = "!" -> defineExpr(e, LAMBDA w : 1 - w[e.val])
          [] n.op = "-" -> addOverflowTarget(neg, TypeOf(n.sub[1]), neg.val)
          [] OTHER -> Warn(e)

visitAssignment(s, n) ==
    LET left  == clean(n.sub[1])
        l     == Visit(s, left)
        ats   == IF left.k = "tuple" THEN l.ats ELSE <<l.at>>
        r     == Visit(l, n.sub[2])
        old   == IF left.k = "id" THEN currentValue(r, left.decl) ELSE l.val
        x     == expr(r)
        value == IF n.op = "=" THEN x ELSE arithmeticOperation(x, n.op, old, x.val, TypeOf(left))
    IN  IF n.op \notin {"=", "+", "-", "*", "/", "%"} THEN Warn(r)
        ELSE IF TypeOf(n.sub[2]) = "tuple" THEN assignment(r, left, ats, r.parts)
        ELSE IF ~ isSupportedType(TypeOf(left))
        THEN LET w == Warn(r) IN IF left.k = "id" /\ knownVariable(w, left.decl) THEN newValue(w, left.decl) ELSE w
        ELSE [assignment(value, left, ats, <<value.val>>) EXCEPT !.val = value.val]

visitReturn(s, n) ==
    LET rets == IF Last(s.calls) \in DOMAIN prog.fn THEN prog.fn[Last(s.calls)].rets ELSE <<>>
        e    == Visit(s, n.sub[1])
        v    == IF Len(rets) = 1 THEN <<e.val>> ELSE e.parts
    IN  IF n.sub = <<>> \/ (Len(rets) = 1 /\ e.val = None) THEN IF n.sub = <<>> THEN s ELSE e
        ELSE FoldLeft(LAMBDA x, i : Equal(newValue(x, rets[i]), rets[i], LAMBDA w : w[v[i]]), e, [i \in DOMAIN rets |-> i])

\* A global such as msg.sender has one symbol in a transaction.
defineGlobalVariable(s, n) ==
    LET k == <<n.name, -1>>
        vals == 0 .. maxValue(TypeOf(n))
    IN  IF n.name \in DOMAIN s.globals THEN [s EXCEPT !.val = k]
        ELSE [s EXCEPT !.val = k, !.globals = (n.name :> k) @@ @,
                       !.worlds = {(k :> v) @@ w : w \in @, v \in vals}]

visitIndexAccess(s, n) ==
    LET i == Visit(Visit(s, n.sub[1]), n.sub[2])
        d == n.sub[1].decl
        e == expr(i)
    IN  IF n.sub[1].k /= "id" THEN [Warn(i) EXCEPT !.val = None, !.at = None]
        ELSE [defineExpr(e, LAMBDA w : w[currentValue(e, d)][w[e.val]]) EXCEPT !.at = e.val]

visitIdentifier(s, n) ==
    [s EXCEPT !.at = None, !.val = IF knownVariable(s, n.decl) THEN currentValue(s, n.decl) ELSE None]

\* Expressions of literals are evaluated by the compiler.
RECURSIVE shortcutRationalNumber(_)
shortcutRationalNumber(e) ==
    LET x == shortcutRationalNumber(e.sub[1])
        y == shortcutRationalNumber(e.sub[2])
    IN  CASE e.k = "lit" -> e.val
          [] e.k = "tuple" -> x
          [] e.k = "unary" -> - x
          [] e.op = "+" -> x + y
          [] e.op = "-" -> x - y
          [] e.op = "*" -> x * y

visitLiteral(s, n) == IF n.cat = "bool" THEN defineExpr(s, LAMBDA w : n.val) ELSE [Warn(s) EXCEPT !.val = None]

\* s has the symbol of the initial value.
visitVariableDeclarationStatement(s, n) ==
    IF knownVariable(s, n.decl) THEN assignVariable(s, n.decl, s.val) ELSE Warn(s)

visitPlaceholderStatement(s) ==
    LET out == visitFunctionOrModifier([s EXCEPT !.calls = Front(@)]) IN [out EXCEPT !.calls = s.calls]

\* Parentheses have the value of their content; a tuple has one for each part.
visitTuple(one, each, n) == IF Len(n.sub) = 1 THEN one ELSE [each EXCEPT !.val = None]

Visit(s, n) ==
    LET l == Visit(s, n.sub[1])
        a == expr(l)
        r == Visit(a, n.sub[2])
        b == expr(r)
        each == VisitEach(s, n.sub)
        last == Last(s.calls)
    IN  CASE n.k = "id" -> visitIdentifier(s, n)
          [] TypeOf(n) = "lit" -> defineExpr(s, LAMBDA w : shortcutRationalNumber(n))
          [] n.k = "lit" -> visitLiteral(s, n)
          [] n.k = "block" -> VisitAll(s, n.sub)
          [] n.k = "if" -> visitIf(s, n)
          [] n.k = "while" -> visitWhile(s, n)
          [] n.k = "for" -> visitFor(s, n)
          [] n.k = "vardecl" -> IF n.sub = <<>> THEN s ELSE visitVariableDeclarationStatement(a, n)
          [] n.k = "return" -> visitReturn(s, n)
          [] n.k = "placeholder" -> visitPlaceholderStatement(s)
          [] n.k = "assign" -> visitAssignment(s, n)
          [] n.k = "unary" -> visitUnary(s, n)
          [] n.k = "binary" /\ n.op \in {"&&", "||"} -> booleanOperation(s, n)
          [] n.k = "binary" /\ n.op \in {"+", "-", "*", "/", "%"} ->
                arithmeticOperation(b, n.op, a.val, b.val, TypeOf(n))
          [] n.k = "binary" -> compareOperation(b, n.op, a.val, b.val)
          [] n.k = "tuple" -> visitTuple(l, each, n)
          [] n.k = "index" -> visitIndexAccess(s, n)
          [] n.k = "cast" -> visitTypeConversion(s, n)
          [] n.k = "call" -> visitCall(s, n)
          [] n.k = "member" /\ n.decl = None -> defineGlobalVariable(s, n)
          [] n.k \in {"break", "continue"} -> s
          [] OTHER -> [Warn(VisitAll(s, n.sub)) EXCEPT !.val = None]

VisitAll(s, ns) == IF ns = <<>> THEN s ELSE VisitAll(Forget(Visit(s, Head(ns))), Tail(ns))

\* The symbols of several expressions.
VisitEach(s, ns) ==
    IF ns = <<>> THEN [s EXCEPT !.parts = <<>>, !.ats = <<>>]
    ELSE LET front == VisitEach(s, Front(ns))
             x == Visit(front, Last(ns))
             v == IF TypeOf(Last(ns)) \in {"void", "other"} THEN x ELSE expr(x)
         IN  [v EXCEPT !.parts = Append(front.parts, v.val), !.ats = Append(front.ats, v.at)]

\* The next modifier of the function on top of the call stack, or its body.
visitFunctionOrModifier(s) ==
    LET i  == Last(s.depth) + 1
        f  == prog.fn[Last(s.calls)]
        in == [s EXCEPT !.depth[Len(s.depth)] = i]
        m  == modifierNamed(f.mods[i + 1].of)
        as == VisitEach(in, IF f.mods[i + 1].args = None THEN <<>> ELSE f.mods[i + 1].args)
        mod == Visit([initializeFunctionCallParameters(as, m, as.parts) EXCEPT !.calls = Append(@, m)], prog.mod[m].body)
        out == IF i = Len(f.mods) THEN IF f.body = None THEN in ELSE Visit(in, f.body)
               ELSE [mod EXCEPT !.calls = Front(@)]
    IN  [out EXCEPT !.depth = Append(Front(@), i - 1)]

\* SMTChecker::visit(FunctionDefinition) for a function of contract c, with what
\* it reports: TRUE if there is any warning.
SmtAnalyze(c, f) ==
    LET states == {d \in UNION {ToSet(prog.con[prog.con[c].lin[i]].vars) : i \in DOMAIN prog.con[c].lin} :
                      isSupportedType(prog.var[d].cat)}
        other  == {d \in UNION {ToSet(prog.con[prog.con[c].lin[i]].vars) : i \in DOMAIN prog.con[c].lin} : d \notin states}
        s0 == FoldLeft(createVariable, Solver, Ordered(states))
        s1 == resetVariables(s0, states)
        s2 == initializeLocalVariables([s1 EXCEPT !.calls = <<f>>, !.depth = <<-1>>], f)
        s3 == checkUnderOverflow(visitFunctionOrModifier(s2))
    IN  IF isConstructor(f) THEN [warned |-> TRUE, internal |-> FALSE]
        ELSE [warned |-> s3.warned \/ other /= {}, internal |-> s3.internal]
=============================================================================
