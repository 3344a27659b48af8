----------------------------- MODULE YulDataFlow -----------------------------
(***************************************************************************)
(* DataFlowAnalyzer and the steps of the Yul optimiser that are derived    *)
(* from it.  The analyser walks the program with a state st:               *)
(*   mode    the derived class                                             *)
(*   val     the values of the variables for which they are known          *)
(*   refs    the variables that the value of a variable refers to          *)
(*   scope   the variables that the current scope declares                 *)
(*   count   references that are left (Rematerialiser)                     *)
(*   always  variables that are rematerialised in any case                 *)
(*   cost    code cost of the candidates (RematCandidateSelector)          *)
(*   uses    references to candidates                                      *)
(* m_referencedBy is the inverse of refs.                                  *)
(***************************************************************************)
EXTENDS YulPasses

Analyzer(mode) ==
    [mode |-> mode, val |-> <<>>, refs |-> <<>>, scope |-> {}, count |-> <<>>,
     always |-> {}, cost |-> <<>>, uses |-> <<>>]

-----------------------------------------------------------------------------
(***************************************************************************)
(* SimplificationRules.  m: ok, and g, what the placeholders match.        *)
(***************************************************************************)
NoMatch == [ok |-> FALSE, g |-> <<>>]

RECURSIVE matches(_, _, _, _)
matches(p, e, val, m) ==
    LET expr == IF p.k /= "any" /\ IsId(e) /\ e.name \in DOMAIN val THEN val[e.name] ELSE e
        bind(x) == [m EXCEPT !.g = (p.g :> x) @@ @]
    IN  CASE p.k = "num" -> IF IsLit(expr) /\ expr.v = p.n THEN m ELSE NoMatch
          [] p.k = "const" -> IF IsLit(expr) THEN bind(expr) ELSE NoMatch
          [] p.k = "any" ->
                IF p.g \notin DOMAIN m.g THEN bind(e)
                ELSE IF SameExpr(m.g[p.g], e) /\ Movable(e) THEN m ELSE NoMatch
          [] OTHER ->
                IF expr.k /= "ins" \/ expr.op /= p.op \/ Len(expr.args) /= Len(p.args) THEN NoMatch
                ELSE FoldAlong(LAMBDA acc, i : IF acc.ok THEN matches(p.args[i], expr.args[i], val, acc) ELSE acc,
                              m, [i \in DOMAIN p.args |-> i])

ConstantsOf(m) == [g \in {h \in DOMAIN m.g : IsLit(m.g[h])} |-> m.g[g].v]

feasible(rule, m) == CalcValue(rule.feasible, ConstantsOf(m)) /= 0

\* The first rule that matches, with what it matches: a sequence of at most one.
findFirstMatch(e, val) ==
    IF e.k /= "ins" \/ e.op \notin DOMAIN RulesFor THEN <<>>
    ELSE LET rules == RulesFor[e.op]
             found == SelectInSeq(rules, LAMBDA r :
                        LET m == matches(r.pattern, e, val, [ok |-> TRUE, g |-> <<>>])
                        IN  m.ok /\ feasible(r, m))
         IN  IF found = 0 THEN <<>>
             ELSE <<[rule |-> rules[found],
                     m |-> matches(rules[found].pattern, e, val, [ok |-> TRUE, g |-> <<>>])]>>

RECURSIVE toExpression(_, _)
toExpression(p, m) ==
    CASE p.k = "any" -> m.g[p.g]
      [] p.k = "ins" -> Ins(p.op, [i \in DOMAIN p.args |-> toExpression(p.args[i], m)])
      [] OTHER -> Lit(CalcValue(p, ConstantsOf(m)))

\* The loop of ExpressionSimplifier::visit, for an expression whose parts have
\* been visited.
RECURSIVE SimplifyAll(_, _)
SimplifyAll(e, val) ==
    LET match == findFirstMatch(e, val)
    IN  IF match = <<>> \/ (match[1].rule.removesNonConstants /\ ~ Movable(e)) THEN e
        ELSE SimplifyAll(toExpression(match[1].rule.action, match[1].m), val)
-----------------------------------------------------------------------------
(***************************************************************************)
(* Expressions.  Arguments are visited from the last to the first.         *)
(***************************************************************************)

\* CommonSubexpressionEliminator: any variable that has the same value will do.
Replacement(e, st) ==
    IF IsId(e)
    THEN IF e.name \in DOMAIN st.val /\ IsId(st.val[e.name]) THEN st.val[e.name] ELSE e
    ELSE LET same == {x \in DOMAIN st.val : SameExpr(e, st.val[x])}
         IN  IF same = {} THEN e ELSE Id(CHOOSE x \in same : TRUE)

shallRematerialise(x, st) ==
    LET cost == codeCost(st.val[x])
    IN  st.count[x] <= 1 \/ cost = 0 \/ (st.count[x] <= 5 /\ cost <= 1) \/ x \in st.always

Rematerialise(e, st) ==
    IF ~ (IsId(e) /\ e.name \in DOMAIN st.val) THEN [e |-> e, st |-> st]
    ELSE IF ~ shallRematerialise(e.name, st) THEN [e |-> e, st |-> st]
    ELSE LET v == st.val[e.name]
         IN  [e |-> v, st |-> [st EXCEPT !.count = AddReferences(AddReferences(@, <<e.name>>, -1), ExprRefs(v), 1)]]

\* RematCandidateSelector.
rematImpossible(x, st) == [st EXCEPT !.cost = Without(@, {x}), !.uses = Without(@, {x})]

CountUse(e, st) ==
    IF ~ IsId(e) \/ e.name \notin DOMAIN st.cost THEN st
    ELSE IF e.name \notin DOMAIN st.val THEN rematImpossible(e.name, st)
    ELSE [st EXCEPT !.uses = (e.name :> (IF e.name \in DOMAIN @ THEN @[e.name] ELSE 0) + 1) @@ @]

RECURSIVE DfaExpr(_, _), DfaArguments(_, _)

DfaArguments(e, st) ==
    IF e.k \notin {"ins", "call"} THEN [e |-> e, st |-> st]
    ELSE FoldAlong(LAMBDA acc, i : LET r == DfaExpr(e.args[i], acc.st)
                                  IN  [e |-> [acc.e EXCEPT !.args[i] = r.e], st |-> r.st],
                  [e |-> e, st |-> st], [i \in DOMAIN e.args |-> Len(e.args) + 1 - i])

DfaExpr(e, st) ==
    CASE st.mode = "cse" ->
            LET r == IF e.k = "call" /\ literalArguments(e.f) THEN [e |-> e, st |-> st] ELSE DfaArguments(e, st)
            IN  [r EXCEPT !.e = Replacement(@, st)]
      [] st.mode = "simplify" ->
            LET r == DfaArguments(e, st) IN [r EXCEPT !.e = SimplifyAll(@, st.val)]
      [] st.mode = "remat" -> LET r == Rematerialise(e, st) IN DfaArguments(r.e, r.st)
      [] st.mode = "candidates" -> DfaArguments(e, CountUse(e, st))
      [] OTHER -> DfaArguments(e, st)
-----------------------------------------------------------------------------
(***************************************************************************)
(* Values.                                                                 *)
(***************************************************************************)

\* The variables that refer to a changed variable lose their value, too.  (The
\* code extends the set while it iterates over it: with an unfavourable order of
\* the names, it clears more.)
clearValues(xs, st) ==
    LET all == xs \cup {y \in DOMAIN st.refs : st.refs[y] \cap xs /= {}}
    IN  [st EXCEPT !.val = Without(@, all), !.refs = Without(@, all)]

\* value is a sequence of at most one expression.
handleAssignment(xs, value, st) ==
    LET c == clearValues(xs, st)
        used == IF value = <<>> THEN {} ELSE referencedVariables(value[1])
        known == CASE value = <<>> -> [x \in xs |-> Lit(0)]
                   [] value /= <<>> /\ Cardinality(xs) = 1 /\ Movable(value[1]) /\ used \cap xs = {} ->
                        [x \in xs |-> value[1]]
                   [] OTHER -> <<>>
    IN  [c EXCEPT !.val = known @@ @, !.refs = [x \in xs |-> used] @@ @]

\* A scope ends: its variables are forgotten.
popScope(outer, st) == [clearValues(st.scope, st) EXCEPT !.scope = outer]

pushScope(xs, st) == [st EXCEPT !.scope = xs]
-----------------------------------------------------------------------------
(***************************************************************************)
(* StructuralSimplifier.                                                   *)
(***************************************************************************)
hasLiteralValue(e, st) ==
    LET v == IF IsId(e) /\ e.name \in DOMAIN st.val THEN st.val[e.name] ELSE e
    IN  IF IsLit(v) THEN <<v.v>> ELSE <<>>

\* What a literal condition is in the end, through variables.
RECURSIVE AlwaysLiteral(_, _)
AlwaysLiteral(e, st) ==
    CASE IsLit(e) -> <<e.v>>
      [] IsId(e) /\ e.name \in DOMAIN st.val -> AlwaysLiteral(st.val[e.name], st)
      [] OTHER -> <<>>

expressionAlwaysTrue(e, st) == LET v == AlwaysLiteral(e, st) IN v /= <<>> /\ v[1] /= 0

expressionAlwaysFalse(e, st) == AlwaysLiteral(e, st) = <<0>>

replaceConstArgSwitch(s, v) ==
    LET hit == SelectInSeq(s.cases, LAMBDA c : c.value /= <<>> /\ c.value[1].v = v)
        default == SelectInSeq(s.cases, isDefault)
        chosen == IF hit /= 0 THEN hit ELSE default
    IN  IF chosen = 0 THEN <<>> ELSE <<Block(s.cases[chosen].body)>>

\* What replaces a statement with a constant condition: at most one sequence.
Structural(s, st) ==
    CASE s.k = "if" /\ expressionAlwaysTrue(s.e, st) -> <<s.body>>
      [] s.k = "if" /\ expressionAlwaysFalse(s.e, st) -> <<<<>>>>
      [] s.k = "switch" /\ hasLiteralValue(s.e, st) /= <<>> ->
            <<replaceConstArgSwitch(s, hasLiteralValue(s.e, st)[1])>>
      [] s.k = "for" /\ expressionAlwaysFalse(s.e, st) -> <<s.pre>>
      [] OTHER -> <<>>
-----------------------------------------------------------------------------
(***************************************************************************)
(* Statements.                                                             *)
(***************************************************************************)
RECURSIVE DfaStatements(_, _), DfaBlock(_, _)

\* The value of a declaration or an assignment to xs.
DfaAssign(s, st0) ==
    LET r == IF OwnExpr(s) = <<>> THEN [e |-> <<>>, st |-> st0] ELSE DfaExpr(OwnExpr(s)[1], st0)
        t == IF OwnExpr(s) = <<>> THEN s ELSE WithExpr(s, r.e)
    IN  [b |-> <<t>>, st |-> handleAssignment(Range(s.vars), OwnExpr(t), r.st)]

DfaDeclaration(s, st) ==
    LET r == DfaAssign(s, [st EXCEPT !.scope = @ \cup Range(s.vars)])
        x == s.vars[1]
    IN  IF Len(s.vars) = 1 /\ x \in DOMAIN r.st.val
        THEN [r EXCEPT !.st.cost = (x :> codeCost(r.st.val[x])) @@ @] ELSE r

DfaSwitch(s, st0) ==
    LET e == DfaExpr(s.e, st0)
        r == FoldAlong(LAMBDA acc, c :
                        LET y == DfaBlock(c.body, acc.st)
                        IN  [cases |-> Append(acc.cases, Case(c.value, y.b)),
                             st |-> clearValues(Assignments(y.b), y.st)],
                      [cases |-> <<>>, st |-> e.st], s.cases)
    IN  [b |-> <<Switch(e.e, r.cases)>>,
         st |-> clearValues(UNION {Assignments(r.cases[i].body) : i \in DOMAIN r.cases}, r.st)]

\* Parameters have no known value, results are zero.
DfaFunction(s, st) ==
    LET in == FoldAlong(LAMBDA acc, x : handleAssignment({x}, <<>>, acc),
                       [pushScope(Range(s.params) \cup Range(s.rets), st) EXCEPT !.val = <<>>, !.refs = <<>>],
                       s.rets)
        y == DfaBlock(s.body, in)
    IN  [b |-> <<[s EXCEPT !.body = y.b]>>,
         st |-> [y.st EXCEPT !.val = st.val, !.refs = st.refs, !.scope = st.scope]]

DfaLoop(s, st0) ==
    LET changed == Assignments(s.body \o s.post)
        c == DfaExpr(s.e, clearValues(changed, st0))
        y == DfaBlock(s.body, c.st)
        q == DfaBlock(s.post, clearValues(AssignmentsSinceContinue(s.body), y.st))
    IN  [b |-> <<For(<<>>, c.e, q.b, y.b)>>, st |-> clearValues(changed, q.st)]

DfaVisit(s, st) ==
    CASE s.k = "let" -> DfaDeclaration(s, st)
      [] s.k = "set" -> DfaAssign(s, FoldAlong(LAMBDA acc, x : rematImpossible(x, acc), st, s.vars))
      [] s.k = "if" -> LET e == DfaExpr(s.e, st)
                           y == DfaBlock(s.body, e.st)
                       IN  [b |-> <<If(e.e, y.b)>>, st |-> clearValues(Assignments(y.b), y.st)]
      [] s.k = "switch" -> DfaSwitch(s, st)
      [] s.k = "for" -> DfaLoop(s, st)
      [] s.k = "fun" -> DfaFunction(s, st)
      [] s.k = "block" -> LET y == DfaBlock(s.body, st) IN [b |-> <<Block(y.b)>>, st |-> y.st]
      [] s.k = "exp" -> LET e == DfaExpr(s.e, st) IN [b |-> <<ExprStmt(e.e)>>, st |-> e.st]
      [] OTHER -> [b |-> <<s>>, st |-> st]

\* StructuralSimplifier::simplify puts the statements of a branch in place of the
\* statement, and simplifies them.
DfaStatements(b, st) ==
    ThreadStatements(b, st, LAMBDA s, x :
        LET r == IF x.mode = "structure" THEN Structural(s, x) ELSE <<>>
        IN  IF r = <<>> THEN DfaVisit(s, x) ELSE DfaStatements(r[1], x))

DfaBlock(b, st) ==
    LET r == DfaStatements(b, pushScope({}, st)) IN [b |-> r.b, st |-> popScope(st.scope, r.st)]
-----------------------------------------------------------------------------
(***************************************************************************)
(* The steps.                                                              *)
(***************************************************************************)
CommonSubexpressionEliminator(b) == DfaBlock(b, Analyzer("cse")).b

ExpressionSimplifier(b) == DfaBlock(b, Analyzer("simplify")).b

StructuralSimplifier(b) == DfaBlock(b, Analyzer("structure")).b

Rematerialiser(b, always) ==
    LET refs == BlockRefs(b)
    IN  DfaBlock(b, [Analyzer("remat") EXCEPT !.always = always,
                                              !.count = countReferences(refs, Range(refs) \cup Names(b))]).b

\* The variables that can be removed by rematerialising them, with their costs.
RematCandidates(b) ==
    LET st == DfaBlock(b, Analyzer("candidates")).st
    IN  [x \in DOMAIN st.cost |-> st.cost[x] * (IF x \in DOMAIN st.uses THEN st.uses[x] ELSE 0)]

\* The n cheapest candidates; which one of several is a matter of their names.
RECURSIVE Cheapest(_, _)
Cheapest(cand, n) ==
    IF n = 0 \/ DOMAIN cand = {} THEN {}
    ELSE LET x == CHOOSE y \in DOMAIN cand : \A z \in DOMAIN cand : cand[y] <= cand[z]
         IN  {x} \cup Cheapest(Without(cand, {x}), n - 1)

\* The chosen variables are rematerialised, and what is not used any more goes:
\* in a block, and in a function.
eliminateVariables(b, n) == UnusedPruner(Rematerialiser(b, Cheapest(RematCandidates(b), n)))

eliminateInFunction(f, n) ==
    LET r == Rematerialiser(<<f>>, Cheapest(RematCandidates(<<f>>), n))[1]
    IN  [r EXCEPT !.body = UnusedPruner(@)]
=============================================================================
