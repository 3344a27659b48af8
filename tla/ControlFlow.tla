----------------------------- MODULE ControlFlow -----------------------------
(***************************************************************************)
(* The control flow graph of a function and the check that no storage      *)
(* pointer is used before it is assigned.  Nodes are numbers: 1 is the     *)
(* entry, 2 the exit and 3 the revert node.                                *)
(***************************************************************************)
EXTENDS SolAst

\* Variable occurrences of kind declaration, access, return or assignment.
VariableOccurrence(d, kind) == [decl |-> d, kind |-> kind]

\* nodes is the number of nodes, exits the set of arcs, occ the occurrences in
\* each node.  The others are the members of ControlFlowBuilder.
FunctionFlow ==
    [nodes |-> 3, exits |-> {}, occ |-> <<<<>>, <<>>, <<>>>>, cur |-> 1, ret |-> 2, rev |-> 3,
     brk |-> None, cont |-> None, enter |-> None, leave |-> None, fn |-> None]

-----------------------------------------------------------------------------
(***************************************************************************)
(* ControlFlowBuilder.                                                     *)
(***************************************************************************)
connect(s, from, to) == [s EXCEPT !.exits = @ \cup {<<from, to>>}]

newLabel(s) == [s EXCEPT !.nodes = @ + 1, !.occ = Append(@, <<>>)]

createLabelHere(s) ==
    LET l == newLabel(s) IN [connect(l, s.cur, l.nodes) EXCEPT !.cur = l.nodes]

placeAndConnectLabel(s, l) == [connect(s, s.cur, l) EXCEPT !.cur = l]

\* After a jump the code continues in a node that nothing enters.
jump(s, to) == LET l == newLabel(connect(s, s.cur, to)) IN [l EXCEPT !.cur = l.nodes]

\* The two nodes are the last ones.
splitFlow(s) ==
    LET l == newLabel(newLabel(s)) IN connect(connect(l, s.cur, l.nodes - 1), s.cur, l.nodes)

mergeFlow(s, a, b) ==
    LET l == newLabel(s) IN [connect(connect(l, a, l.nodes), b, l.nodes) EXCEPT !.cur = l.nodes]

occurs(s, d, kind) == [s EXCEPT !.occ[s.cur] = Append(@, VariableOccurrence(d, kind))]

RECURSIVE appendControlFlow(_, _, _), visitAll(_, _)

\* The end of the flow of n from the given node, and the builder after it.
createFlow(s, entry, n) ==
    LET f == appendControlFlow([s EXCEPT !.cur = entry], n, FALSE)
    IN  [s |-> [f EXCEPT !.cur = s.cur], end |-> f.cur]

\* Flows that may be skipped: the right operand of && and ||, a branch without
\* an alternative.
visitOptional(s, n) ==
    LET split == splitFlow(s)
        flow  == createFlow(split, split.nodes - 1, n)
    IN  [connect(flow.s, flow.end, split.nodes) EXCEPT !.cur = split.nodes]

visitTwo(s, yes, no) ==
    LET split == splitFlow(s)
        a == createFlow(split, split.nodes - 1, yes)
        b == createFlow(a.s, split.nodes, no)
    IN  mergeFlow(b.s, a.end, b.end)

\* BreakContinueScope around the body of a loop.
inLoop(s, brk, cont, n) ==
    [appendControlFlow([s EXCEPT !.brk = brk, !.cont = cont], n, FALSE) EXCEPT !.brk = s.brk, !.cont = s.cont]

forPart(n, i) ==
    LET n0 == IF i = 1 THEN 0 ELSE IF i = 2 THEN n.parts[1] ELSE n.parts[1] + n.parts[2]
    IN  SubSeq(n.sub, n0 + 1, n0 + n.parts[i])

visitForStatement(s, n) ==
    LET init  == createLabelHere(visitAll(s, forPart(n, 1)))
        test  == newLabel(visitAll(init, forPart(n, 2)))
        loop  == test.nodes
        split == splitFlow(test)
        body  == inLoop([split EXCEPT !.cur = split.nodes - 1], split.nodes, loop, Last(n.sub))
        step  == visitAll(placeAndConnectLabel(body, loop), forPart(n, 3))
    IN  [connect(step, step.cur, init.cur) EXCEPT !.cur = split.nodes]

visitWhileStatement(s, n) ==
    LET here  == createLabelHere(s)
        test  == appendControlFlow(here, n.sub[1], FALSE)
        split == splitFlow(test)
        body  == inLoop([split EXCEPT !.cur = split.nodes - 1], split.nodes, here.cur, n.sub[2])
    IN  [connect(body, body.cur, here.cur) EXCEPT !.cur = split.nodes]

visitDoWhileStatement(s, n) ==
    LET after == newLabel(s)
        here  == createLabelHere(after)
        cond  == newLabel(here)
        body  == inLoop(cond, after.nodes, cond.nodes, n.sub[2])
        test  == appendControlFlow(placeAndConnectLabel(body, cond.nodes), n.sub[1], FALSE)
    IN  placeAndConnectLabel(connect(test, test.cur, here.cur), after.nodes)

\* A declaration; parameters are assigned by the caller.
visitDeclaration(s, d) ==
    LET o == occurs(s, d, "declaration")
    IN  IF prog.var[d].loc = "param" THEN occurs(o, d, "assignment") ELSE o

visitVariableDeclarationStatement(s, n) ==
    LET d == visitDeclaration(s, n.decl)
    IN  IF n.sub = <<>> THEN d ELSE occurs(appendControlFlow(d, n.sub[1], FALSE), n.decl, "assignment")

\* A returned value is an assignment to the result.
visitReturn(s, f, n) ==
    LET e == visitAll(s, n.sub)
        a == FoldLeft(LAMBDA x, r : occurs(x, r, "assignment"), e, IF n.sub = <<>> THEN <<>> ELSE prog.fn[f].rets)
    IN  jump(a, s.ret)

visitPlaceholder(s) ==
    LET l == newLabel(connect(s, s.cur, s.enter)) IN [connect(l, s.leave, l.nodes) EXCEPT !.cur = l.nodes]

\* revert always leaves, require and assert may.
visitFunctionCall(s, n) ==
    LET in == visitAll(s, n.sub)
        next == newLabel(connect(in, in.cur, s.rev))
    IN  CASE n.kind = "Revert" -> jump(in, s.rev)
          [] n.kind \in {"Require", "Assert"} -> [connect(next, in.cur, next.nodes) EXCEPT !.cur = next.nodes]
          [] OTHER -> in

\* lvalue: whether the expression is assigned.
appendControlFlow(s, n, lvalue) ==
    CASE n.k = "id" ->
            IF n.decl \in DOMAIN prog.var THEN occurs(s, n.decl, IF lvalue THEN "assignment" ELSE "access") ELSE s
      [] n.k = "binary" /\ n.op \in {"&&", "||"} -> visitOptional(appendControlFlow(s, n.sub[1], FALSE), n.sub[2])
      [] n.k = "cond" -> visitTwo(appendControlFlow(s, n.sub[1], FALSE), n.sub[2], n.sub[3])
      [] n.k = "if" ->
            LET c == appendControlFlow(s, n.sub[1], FALSE)
            IN  IF Len(n.sub) = 3 THEN visitTwo(c, n.sub[2], n.sub[3]) ELSE visitOptional(c, n.sub[2])
      [] n.k = "for" -> visitForStatement(s, n)
      [] n.k = "while" -> IF n.do THEN visitDoWhileStatement(s, n) ELSE visitWhileStatement(s, n)
      [] n.k = "break" -> jump(s, s.brk)
      [] n.k = "continue" -> jump(s, s.cont)
      [] n.k = "placeholder" -> visitPlaceholder(s)
      [] n.k = "call" -> visitFunctionCall(s, n)
      [] n.k = "return" -> visitReturn(s, s.fn, n)
      [] n.k = "vardecl" -> visitVariableDeclarationStatement(s, n)
      [] n.k = "assign" ->
            appendControlFlow(appendControlFlow(s, n.sub[1], TRUE), n.sub[2], FALSE)
      [] n.k = "unary" -> appendControlFlow(s, n.sub[1], n.op \in {"++", "--", "delete"})
      [] n.k = "tuple" -> FoldLeft(LAMBDA x, e : appendControlFlow(x, e, lvalue), s, n.sub)
      [] OTHER -> visitAll(s, n.sub)

visitAll(s, ns) == FoldLeft(LAMBDA x, n : appendControlFlow(x, n, FALSE), s, ns)

\* The modifier of a contract that a name refers to where the function is defined.
modifierOf(f, name) ==
    LET lin == prog.con[prog.fn[f].scope].lin
        all == FlattenSeq([i \in DOMAIN lin |-> prog.con[lin[i]].mods])
        hit == SelectSeq(all, LAMBDA m : prog.mod[m].name = name)
    IN  IF hit = <<>> THEN None ELSE hit[1]

\* The function continues at the placeholder of the modifier.
visitModifierInvocation(s, f, inv) ==
    LET as == visitAll(s, IF inv.args = None THEN <<>> ELSE inv.args)
        m  == modifierOf(f, inv.of)
        l  == newLabel(newLabel(as))
        ps == FoldLeft(visitDeclaration, [l EXCEPT !.enter = l.nodes - 1, !.leave = l.nodes], prog.mod[m].params)
        b  == appendControlFlow(ps, prog.mod[m].body, FALSE)
    IN  IF m = None THEN as
        ELSE [connect(b, b.cur, b.ret) EXCEPT !.cur = l.nodes - 1, !.ret = l.nodes, !.enter = None, !.leave = None]

createFunctionFlow(f) ==
    LET fn == prog.fn[f]
        ps == FoldLeft(visitDeclaration, [FunctionFlow EXCEPT !.fn = f], fn.params \o fn.rets)
        rs == [ps EXCEPT !.occ[2] = [i \in DOMAIN fn.rets |-> VariableOccurrence(fn.rets[i], "return")]]
        ms == FoldLeft(LAMBDA x, m : visitModifierInvocation(x, f, m), rs, fn.mods)
        b  == appendControlFlow(ms, fn.body, FALSE)
    IN  connect(b, b.cur, b.ret)

-----------------------------------------------------------------------------
(***************************************************************************)
(* ControlFlowAnalyzer.                                                    *)
(***************************************************************************)
StoragePointer(d) == prog.var[d].loc = "storage" /\ prog.var[d].cat \in {"struct", "mapping"}

\* Unassigned variables after the occurrences, and the accesses to unassigned
\* storage pointers; an access is named by its node and place.
AfterOccurrences(g, node, unassigned) ==
    FoldLeft(LAMBDA acc, i :
                LET o == g.occ[node][i]
                IN  CASE o.kind = "assignment" -> [acc EXCEPT !.open = @ \ {o.decl}]
                      [] o.kind = "declaration" -> [acc EXCEPT !.open = @ \cup {o.decl}]
                      [] OTHER -> IF o.decl \in acc.open /\ StoragePointer(o.decl)
                                  THEN [acc EXCEPT !.bad = @ \cup {<<node, i>>}] ELSE acc,
             [open |-> unassigned, bad |-> {}], [i \in DOMAIN g.occ[node] |-> i])

\* What reaches each node.  A node is traversed only if it learns something from
\* a node before it: todo starts with the entry.
RECURSIVE walk(_, _, _)
walk(g, info, todo) ==
    LET node == CHOOSE n \in todo : TRUE
        here == AfterOccurrences(g, node, info[node].open)
        bad  == info[node].bad \cup here.bad
        tell == {e[2] : e \in {e \in g.exits : e[1] = node}}
        next == [n \in DOMAIN info |->
                    IF n \in tell THEN [open |-> info[n].open \cup here.open, bad |-> info[n].bad \cup bad]
                    ELSE info[n]]
        keep == [next EXCEPT ![node].bad = @ \cup bad]
    IN  IF todo = {} THEN info
        ELSE walk(g, keep, (todo \ {node}) \cup {n \in tell : next[n] /= info[n]})

\* Mutant: the occurrences after a loop are not merged with those before it.
checkUninitializedAccess_first(f) ==
    LET g == createFunctionFlow(f)
        RECURSIVE once(_, _, _)
        once(info, todo, done) ==
            LET node == CHOOSE n \in todo : \A m \in todo : n <= m
                here == AfterOccurrences(g, node, info[node].open)
                tell == {e[2] : e \in {e \in g.exits : e[1] = node}} \ done
            IN  IF todo = {} THEN info
                ELSE once([n \in DOMAIN info |-> IF n \in tell THEN [open |-> here.open, bad |-> info[n].bad \cup here.bad]
                                                 ELSE info[n]],
                          (todo \ {node}) \cup tell, done \cup {node})
    IN  once([n \in 1 .. g.nodes |-> [open |-> {}, bad |-> {}]], {1}, {})[2].bad

\* Accesses that a path to the exit makes before an assignment: errors.
checkUninitializedAccess(f) ==
    LET g == createFunctionFlow(f)
    IN  walk(g, [n \in 1 .. g.nodes |-> [open |-> {}, bad |-> {}]], {1})[2].bad

\* Nodes that no path from the entry reaches and that lead to an end: warnings.
checkUnreachable(f) ==
    LET g == createFunctionFlow(f)
        RECURSIVE grow(_, _)
        grow(set, arcs) == LET more == set \cup {a[2] : a \in {a \in arcs : a[1] \in set}}
                           IN  IF more = set THEN set ELSE grow(more, arcs)
    IN  grow({2, 3}, {<<a[2], a[1]>> : a \in g.exits}) \ grow({1}, g.exits)

ControlFlowAnalyzer(f) == prog.fn[f].body = None \/ checkUninitializedAccess(f) = {}
=============================================================================
