----------------------------- MODULE SolSemantics -----------------------------
(***************************************************************************)
(* What a Solidity program means: the reference against which the analyses *)
(* and the translation are compared.  It follows the language, not the     *)
(* code of the translator: functions are looked up in the linearisation of *)
(* the contract that executes, arithmetic wraps at every operation, and    *)
(* constructors run from the base to the derived contract, after all state *)
(* variables have their initial values.                                    *)
(***************************************************************************)
EXTENDS Allocation

CONSTANT Bits     \* number of values of each type

Wrap(t, v) == IF t \in DOMAIN Bits THEN v % Bits[t] ELSE v

Typed(t, v) == [t |-> t, v |-> Wrap(t, v)]

\* The value of a variable that was never assigned.
Zero(t) == Typed(t, IF t = "string" THEN "" ELSE 0)

\* A transaction in a state: storage (locations to values), the contracts of the
\* instances, balances, the instance that executes, its sender, and the local
\* variables of the function it executes.  consts are the constants that are being
\* evaluated; stray is TRUE once a storage pointer that was never assigned or a
\* constant that needs itself was used.
SolState(mem) ==
    [mem |-> mem, type |-> <<>>, bal |-> <<>>, this |-> <<>>, sender |-> 0, value |-> 0, loc |-> <<>>,
     fn |-> None, mods |-> <<>>, val |-> Typed("lit", 0), vals |-> <<>>, ret |-> <<>>,
     err |-> "ok", ctl |-> "next", consts |-> {}, stray |-> FALSE]

Revert(s, why) == [s EXCEPT !.err = IF @ = "ok" THEN why ELSE @]

Field(path, d) == Append(path, <<"user", prog.var[d].name>>)

\* The most derived function of contract c, from position i of its
\* linearisation on, that a call of f means.
Dispatch(c, f, i) ==
    LET lin  == prog.con[c].lin
        fs   == FlattenSeq([j \in DOMAIN lin |-> IF j < i THEN <<>> ELSE prog.con[lin[j]].funs])
        hits == SelectSeq(fs, LAMBDA g : prog.fn[g].kind = prog.fn[f].kind /\ collid(f, g))
    IN  IF hits = <<>> THEN None ELSE hits[1]

Arith(op, a, b) ==
    LET t == IF a.t = "lit" THEN b.t ELSE IF b.t = "lit" THEN a.t ELSE IF "uint" \in {a.t, b.t} THEN "uint" ELSE a.t
        bool(p) == Typed("bool", IF p THEN 1 ELSE 0)
    IN  CASE op = "+"  -> Typed(t, a.v + b.v)
          [] op = "-"  -> Typed(t, a.v - b.v)
          [] op = "*"  -> Typed(t, a.v * b.v)
          [] op = "/"  -> Typed(t, a.v \div b.v)
          [] op = "%"  -> Typed(t, a.v % b.v)
          [] op = "<"  -> bool(a.v < b.v)
          [] op = ">"  -> bool(a.v > b.v)
          [] op = "==" -> bool(a.v = b.v)
          [] op = "!=" -> bool(a.v /= b.v)

-----------------------------------------------------------------------------
RECURSIVE SolEval(_, _), SolEvals(_, _), SolExec(_, _), SolPlace(_, _), SolInvoke(_, _, _), SolNew(_, _, _, _)

\* Where a storage expression lives: val is a path.
SolPlace(s, e) ==
    LET to(x, p) == [x EXCEPT !.val = Typed("path", p)]
        base == SolPlace(s, clean(e.sub[1]))
        key  == SolEval(base, e.sub[2])
    IN  CASE e.k = "id" /\ e.decl = "this" -> to(s, s.this)
          [] e.k = "id" ->
                IF isStateVariable(e.decl) THEN to(s, Field(s.this, e.decl))
                ELSE IF prog.var[e.decl].loc = "storage" /\ s.loc[e.decl].t /= "path"
                THEN to([s EXCEPT !.stray = TRUE], <<<<"slot">>>>)
                ELSE [s EXCEPT !.val = s.loc[e.decl]]
          [] e.k = "member" -> to(base, Field(base.val.v, e.decl))
          [] e.k = "index" -> to(key, Append(base.val.v, <<"key", key.val.v>>))
          [] OTHER -> SolEval(s, e)

\* The category of what an lvalue holds.
RECURSIVE HeldBy(_)
HeldBy(e) ==
    IF e.k = "index"
    THEN LET m == HeldBy(clean(e.sub[1]))
         IN  IF Len(m.of.keys) = 1 THEN prog.var[m.of.value] ELSE [m EXCEPT !.of.keys = Tail(@)]
    ELSE prog.var[expr_to_decl(e)]

Local(e) == e.k = "id" /\ ~ isStateVariable(e.decl)

Assign(s, e, v) ==
    LET p   == SolPlace(s, e)
        cat == HeldBy(e).cat
        new == Typed(cat, v.v)
    IN  IF Local(e) THEN [s EXCEPT !.loc = (e.decl :> IF cat = "struct" THEN v ELSE new) @@ @, !.val = new]
        ELSE IF v.t = "fields"
        THEN [p EXCEPT !.mem = [l \in {p.val.v \o f : f \in DOMAIN v.v} |->
                                   v.v[SubSeq(l, Len(p.val.v) + 1, Len(l))]] @@ @]
        ELSE [p EXCEPT !.mem = (p.val.v :> new) @@ @, !.val = new]

\* A function call: the arguments are in vals, the callee's frame is fresh.
SolCall(s, path, f, external, value) ==
    LET fn  == prog.fn[f]
        pay == IF external /\ value > 0
               THEN [s.bal EXCEPT ![s.this] = @ - value, ![path] = @ + value] ELSE s.bal
        in  == [s EXCEPT !.this = path, !.bal = pay, !.fn = f,
                         !.sender = IF external THEN s.mem[Append(s.this, <<"model", "address">>)].v ELSE @,
                         !.value = IF external THEN value ELSE @,
                         !.loc = [d \in ToSet(fn.params) |->
                                     LET i == CHOOSE i \in DOMAIN fn.params : fn.params[i] = d
                                     IN  IF prog.var[d].cat \in DOMAIN Bits
                                         THEN Typed(prog.var[d].cat, s.vals[i].v) ELSE s.vals[i]]
                                 @@ [d \in ToSet(fn.rets) |-> Zero(prog.var[d].cat)],
                         !.ret = [i \in DOMAIN fn.rets |-> Zero(prog.var[fn.rets[i]].cat)]]
        out == SolInvoke(in, f, 1)
    IN  IF external /\ value > 0 /\ s.bal[s.this] < value THEN Revert(s, "revert")
        ELSE IF external /\ value > 0 /\ ~ fn.payable THEN Revert(s, "revert")
        ELSE [out EXCEPT !.this = s.this, !.sender = s.sender, !.value = s.value, !.loc = s.loc,
                         !.fn = s.fn, !.mods = s.mods, !.ret = s.ret, !.vals = s.vals, !.ctl = "next",
                         !.val = IF out.ret = <<>> THEN Typed("lit", 0)
                                 ELSE IF Len(out.ret) = 1 THEN out.ret[1] ELSE Typed("tuple", out.ret)]

\* Modifier i of f, or its body: the placeholder runs what comes next.
SolInvoke(s, f, i) ==
    LET fn   == prog.fn[f]
        lin  == prog.con[s.type[s.this]].lin
        find(n) == SelectSeq(FlattenSeq([j \in DOMAIN lin |-> prog.con[lin[j]].mods]),
                             LAMBDA m : prog.mod[m].name = n)
        mods == SelectSeq(fn.mods, LAMBDA m : find(m.of) /= <<>>)
        m    == find(mods[i].of)[1]
        as   == SolEvals([s EXCEPT !.vals = <<>>], IF mods[i].args = None THEN <<>> ELSE mods[i].args)
        in   == [as EXCEPT !.mods = <<f, i>>, !.vals = s.vals,
                           !.loc = [d \in ToSet(prog.mod[m].params) |->
                                       as.vals[CHOOSE j \in DOMAIN as.vals : prog.mod[m].params[j] = d]] @@ @]
        body == SolExec(s, fn.body)
        named(d) == prog.var[d].name /= ""
    IN  IF isLibrary(fn.scope) \/ i > Len(mods)
        THEN [body EXCEPT !.ctl = "next",
                          !.ret = IF body.ctl = "return" THEN @
                                  ELSE [j \in DOMAIN fn.rets |-> body.loc[fn.rets[j]]]]
        ELSE [SolExec(in, prog.mod[m].body) EXCEPT !.ctl = "next"]

\* What a call expression means.
SolCallExpr(s, n) ==
    LET d    == CallData(n)
        as   == SolEvals([s EXCEPT !.vals = <<>>], args(n))
        ctx  == SolPlace(as, d.context)
        val  == IF d.value = None THEN as ELSE SolEval(as, d.value)
        lin  == prog.con[s.type[s.this]].lin
        after == (CHOOSE i \in DOMAIN lin : lin[i] = prog.fn[s.fn].scope) + 1
        kind == n.kind
        back(x) == [x EXCEPT !.vals = s.vals]
        bound == IF prog.var[prog.fn[n.fn].params[1]].loc = "storage"
                 THEN SolPlace(s, d.context) ELSE SolEval(s, d.context)
        lib  == SolEvals([bound EXCEPT !.vals = <<bound.val>>], args(n))
    IN  CASE as.err /= "ok" -> as
          [] kind \in {"Require", "Assert"} ->
                IF as.vals[1].v = 0 THEN Revert(s, IF kind = "Assert" THEN "assert" ELSE "revert") ELSE back(as)
          [] kind = "Revert" -> Revert(s, "revert")
          [] n.fn \in DOMAIN prog.var -> [ctx EXCEPT !.val = ctx.mem[Field(ctx.val.v, n.fn)], !.vals = s.vals]
          [] is_in_library(n) -> back(SolCall(IF d.context = None THEN as ELSE lib, s.this, n.fn, FALSE, 0))
          [] d.root = "super" -> back(SolCall(as, s.this, Dispatch(s.type[s.this], n.fn, after), FALSE, 0))
          [] d.root \in DOMAIN prog.con -> back(SolCall(as, s.this, n.fn, FALSE, 0))
          [] d.context = None -> back(SolCall(as, s.this, Dispatch(s.type[s.this], n.fn, 1), FALSE, 0))
          [] OTHER -> back(SolCall([as EXCEPT !.vals = as.vals], ctx.val.v,
                                   Dispatch(s.type[ctx.val.v], n.fn, 1), TRUE,
                                   IF d.value = None THEN 0 ELSE val.val.v))

SolEval(s, e) ==
    LET one  == SolEval(s, e.sub[1])
        two  == SolEval(one, e.sub[2])
        old  == SolEval(s, clean(e.sub[1]))
        new  == Arith(IF e.op = "++" THEN "+" ELSE "-", old.val, Typed("lit", 1))
        step == Assign(old, clean(e.sub[1]), new)
        rhs  == SolEval(s, e.sub[2])
        tgt  == clean(e.sub[1])
        comp == SolEval(rhs, tgt)
        bool(x, p) == [x EXCEPT !.val = Typed("bool", IF p THEN 1 ELSE 0)]
        plc  == SolPlace(s, e)
    IN  CASE s.err /= "ok" -> s
          [] e.k = "lit" -> [s EXCEPT !.val = Typed(IF e.cat = "int" THEN "lit" ELSE e.cat, e.val)]
          [] e.k = "tuple" -> one
          [] e.k = "id" /\ e.decl \in DOMAIN prog.var /\ prog.var[e.decl].loc = "constant" ->
                IF e.decl \in s.consts THEN [s EXCEPT !.stray = TRUE]
                ELSE [SolEval([s EXCEPT !.consts = @ \cup {e.decl}], prog.var[e.decl].value[1]) EXCEPT !.consts = s.consts]
          [] e.k = "member" /\ e.decl = None ->
                [s EXCEPT !.val = Typed(IF e.name = "sender" THEN "address" ELSE "uint",
                                        IF e.name = "sender" THEN s.sender
                                        ELSE IF e.name = "value" THEN s.value ELSE s.bal[s.this])]
          [] e.k \in {"id", "member", "index"} ->
                IF e = Identifier("this") \/ (e.k = "id" /\ ~ isStateVariable(e.decl)) THEN plc
                ELSE IF plc.err /= "ok" THEN plc
                ELSE IF HeldBy(e).cat \in {"struct", "contract"} THEN plc
                ELSE [plc EXCEPT !.val = IF @.v \in DOMAIN plc.mem THEN plc.mem[@.v] ELSE Zero(HeldBy(e).cat)]
          [] e.k = "cond" -> IF one.err /= "ok" THEN one ELSE SolEval(one, IF one.val.v /= 0 THEN e.sub[2] ELSE e.sub[3])
          [] e.k = "assign" /\ e.sub[2].k = "call" /\ e.sub[2].kind = "Creation" ->
                LET as == SolEvals([s EXCEPT !.vals = <<>>], args(e.sub[2]))
                IN  [SolNew(as, Field(s.this, tgt.decl), e.sub[2].of, TRUE) EXCEPT !.vals = s.vals]
          [] e.k = "assign" ->
                IF rhs.err /= "ok" THEN rhs
                ELSE IF e.op = "=" THEN Assign(rhs, tgt, rhs.val)
                ELSE IF e.op \in {"/", "%"} /\ rhs.val.v = 0 THEN Revert(comp, "assert")
                ELSE Assign(comp, tgt, Arith(e.op, comp.val, rhs.val))
          [] e.k = "unary" /\ e.op \in {"++", "--"} ->
                IF e.prefix THEN step ELSE [step EXCEPT !.val = old.val]
          [] e.k = "unary" -> IF e.op = "!" THEN bool(one, one.val.v = 0)
                              ELSE [one EXCEPT !.val = Typed(@.t, - @.v)]
          [] e.k = "binary" ->
                IF one.err /= "ok" THEN one
                ELSE IF (e.op = "&&" /\ one.val.v = 0) \/ (e.op = "||" /\ one.val.v /= 0) THEN one
                ELSE IF two.err /= "ok" \/ e.op \in {"&&", "||"} THEN two
                ELSE IF e.op \in {"/", "%"} /\ two.val.v = 0 THEN Revert(two, "assert")
                ELSE [two EXCEPT !.val = Arith(e.op, one.val, two.val)]
          [] e.k = "cast" ->
                IF e.to = "address" /\ one.val.t \in {"path", "contract"}
                THEN [one EXCEPT !.val = one.mem[Append(one.val.v, <<"model", "address">>)]]
                ELSE [one EXCEPT !.val = Typed(e.to, @.v)]
          [] e.k = "struct" ->
                LET as == SolEvals([s EXCEPT !.vals = <<>>], e.sub)
                IN  [as EXCEPT !.vals = s.vals,
                       !.val = [t |-> "fields", v |->
                           [f \in {<<<<"user", prog.var[d].name>>>> : d \in ToSet(e.fields)} |->
                               LET i == CHOOSE i \in DOMAIN e.fields : f = <<<<"user", prog.var[e.fields[i]].name>>>>
                               IN  Typed(prog.var[e.fields[i]].cat, as.vals[i].v)]]]
          [] e.k = "call" -> SolCallExpr(s, e)

SolEvals(s, es) ==
    IF es = <<>> THEN s
    ELSE LET x == SolEval(s, Head(es)) IN SolEvals([x EXCEPT !.vals = Append(s.vals, x.val)], Tail(es))

\* A tuple on the left takes the values of a tuple or the results of a call.
SolTuple(s, lhs, rhs) ==
    LET as == IF rhs.k = "tuple" THEN SolEvals([s EXCEPT !.vals = <<>>], rhs.sub)
              ELSE LET c == SolEval(s, rhs) IN [c EXCEPT !.vals = c.val.v]
    IN  [FoldLeft(LAMBDA x, i : Assign(x, clean(lhs.sub[i]), as.vals[i]), as, [i \in DOMAIN lhs.sub |-> i])
            EXCEPT !.vals = s.vals]

\* Statements.
SolExec(s, n) ==
    LET cond == SolEval(s, n.sub[1])
        vals == SolEvals([s EXCEPT !.vals = <<>>],
                         IF Len(n.sub) = 1 /\ clean(n.sub[1]).k = "tuple" THEN clean(n.sub[1]).sub ELSE n.sub)
        after(x) == [x EXCEPT !.ctl = IF @ \in {"break", "continue"} THEN "next" ELSE @]
        round(c, b, l, x) ==
            LET test == IF c = <<>> THEN [x EXCEPT !.val = Typed("bool", 1)] ELSE SolEval(x, c[1])
                body == SolExec(test, b)
                step == IF l = <<>> THEN after(body) ELSE SolExec(after(body), l[1])
            IN  IF test.err /= "ok" \/ test.val.v = 0 THEN test
                ELSE IF body.err /= "ok" \/ body.ctl \in {"return", "break"} THEN after(body)
                ELSE SolExec(step, ForStatement(<<>>, c, l, b))
        part(i) == LET n0 == IF i = 1 THEN 0 ELSE IF i = 2 THEN n.parts[1] ELSE n.parts[1] + n.parts[2]
                   IN  SubSeq(n.sub, n0 + 1, n0 + n.parts[i])
        first == SolExec(s, n.sub[2])
    IN  CASE s.err /= "ok" \/ s.ctl /= "next" -> s
          [] n.k \in {"block", "emit"} -> FoldLeft(SolExec, s, n.sub)
          [] n.k = "if" -> IF cond.val.v /= 0 THEN SolExec(cond, n.sub[2])
                           ELSE IF Len(n.sub) = 3 THEN SolExec(cond, n.sub[3]) ELSE cond
          [] n.k = "while" -> IF ~ n.do THEN round(<<n.sub[1]>>, n.sub[2], <<>>, s)
                              ELSE IF first.ctl \in {"return", "break"} THEN after(first)
                              ELSE round(<<n.sub[1]>>, n.sub[2], <<>>, after(first))
          [] n.k = "for" -> round(part(2), Last(n.sub), part(3), FoldLeft(SolExec, s, part(1)))
          [] n.k \in {"break", "continue"} -> [s EXCEPT !.ctl = n.k]
          [] n.k = "vardecl" ->
                IF n.sub = <<>> THEN [s EXCEPT !.loc = (n.decl :> Zero(prog.var[n.decl].cat)) @@ @]
                ELSE IF prog.var[n.decl].loc = "storage"
                THEN LET p == SolPlace(s, clean(n.sub[1])) IN [p EXCEPT !.loc = (n.decl :> p.val) @@ @]
                ELSE [cond EXCEPT !.loc = (n.decl :> Typed(prog.var[n.decl].cat, cond.val.v)) @@ @]
          [] n.k = "return" ->
                IF n.sub = <<>>
                THEN [s EXCEPT !.ctl = "return",
                               !.ret = [i \in DOMAIN prog.fn[s.fn].rets |-> s.loc[prog.fn[s.fn].rets[i]]]]
                ELSE [vals EXCEPT !.ctl = "return", !.vals = s.vals,
                                  !.ret = [i \in DOMAIN prog.fn[s.fn].rets |->
                                     Typed(prog.var[prog.fn[s.fn].rets[i]].cat, vals.vals[i].v)]]
          [] n.k = "placeholder" ->
                [SolInvoke(s, s.mods[1], s.mods[2] + 1) EXCEPT !.mods = s.mods]
          [] n.k = "assign" /\ clean(n.sub[1]).k = "tuple" -> SolTuple(s, clean(n.sub[1]), clean(n.sub[2]))
          [] OTHER -> SolEval(s, n)

-----------------------------------------------------------------------------
(***************************************************************************)
(* Construction.                                                           *)
(***************************************************************************)

\* The arguments that a base of c gets: of a constructor modifier or of an
\* inheritance specifier of the contracts from c on.
BaseArgs(c, base) ==
    LET lin   == prog.con[c].lin
        calls == FlattenSeq([i \in DOMAIN lin |->
                    (IF constructor(lin[i]) = None THEN <<>> ELSE prog.fn[constructor(lin[i])].mods)
                        \o prog.con[lin[i]].bases])
        hits  == SelectSeq(calls, LAMBDA x : x.of = base /\ x.args /= None)
    IN  IF hits = <<>> THEN <<>> ELSE hits[1].args

\* The arguments of the constructor of c are in vals.
SolNew(s, path, c, external) ==
    LET lin   == prog.con[c].lin
        ctors == SelectSeq([i \in DOMAIN lin |-> constructor(lin[i])], LAMBDA f : f /= None)
        vars  == FlattenSeq([i \in DOMAIN lin |-> prog.con[lin[Len(lin) + 1 - i]].vars])
        bind(x, f) ==
            LET as == IF prog.fn[f].scope = c THEN x ELSE SolEvals([x EXCEPT !.vals = <<>>], BaseArgs(c, prog.fn[f].scope))
            IN  [as EXCEPT !.loc = [d \in ToSet(prog.fn[f].params) |->
                                       Typed(prog.var[d].cat, as.vals[CHOOSE i \in DOMAIN as.vals : prog.fn[f].params[i] = d].v)] @@ @]
        in0   == [s EXCEPT !.this = path, !.type = (path :> c) @@ @, !.bal = (path :> 0) @@ @, !.loc = <<>>,
                           !.sender = IF external THEN s.mem[Append(s.this, <<"model", "address">>)].v ELSE @]
        in    == FoldLeft(bind, in0, ctors)
        init(x, d) ==
            IF prog.var[d].cat \in {"contract", "mapping"} \/ prog.var[d].loc = "constant" THEN x
            ELSE IF prog.var[d].cat = "struct"
            THEN [x EXCEPT !.mem = [l \in {Field(Field(path, d), f) : f \in ToSet(prog.var[d].of)} |->
                                       Zero(prog.var[CHOOSE f \in ToSet(prog.var[d].of) : l = Field(Field(path, d), f)].cat)] @@ @]
            ELSE IF prog.var[d].value = <<>>
            THEN [x EXCEPT !.mem = (Field(path, d) :> Zero(prog.var[d].cat)) @@ @]
            ELSE LET v == SolEval(x, prog.var[d].value[1])
                 IN  [v EXCEPT !.mem = (Field(path, d) :> Typed(prog.var[d].cat, v.val.v)) @@ @]
        run(x, f) == SolInvoke([x EXCEPT !.fn = f, !.ret = <<>>], f, 1)
        out   == FoldLeft(run, FoldLeft(init, in, vars), Reverse(ctors))
    IN  IF s.err /= "ok" THEN s
        ELSE [out EXCEPT !.this = s.this, !.loc = s.loc, !.fn = s.fn, !.mods = s.mods, !.ret = s.ret, !.sender = s.sender]
=============================================================================
