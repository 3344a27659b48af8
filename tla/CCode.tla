-------------------------------- MODULE CCode --------------------------------
(***************************************************************************)
(* The syntax tree of the C programs that SmartACE prints, and what such a *)
(* program computes.  A name is a tuple, since only equality of names      *)
(* matters; sub has the children of a node.                                *)
(***************************************************************************)
EXTENDS Integers, Sequences, FiniteSets, SequencesExt, TLC

-----------------------------------------------------------------------------
(***************************************************************************)
(* Expressions.                                                            *)
(***************************************************************************)
CIdentifier(name, ptr) == [k |-> "cid", name |-> name, ptr |-> ptr, sub |-> <<>>]

CIntLiteral(v) == [k |-> "cint", val |-> v, sub |-> <<>>]

CUnaryOp(op, e, pre) == [k |-> "cunary", op |-> op, pre |-> pre, sub |-> <<e>>]

CReference(e) == CUnaryOp("&", e, TRUE)

CDereference(e) == CUnaryOp("*", e, TRUE)

CBinaryOp(l, op, r) == [k |-> "cbinary", op |-> op, sub |-> <<l, r>>]

CAssign(l, r) == CBinaryOp(l, "=", r)

CCond(c, t, f) == [k |-> "ccond", sub |-> <<c, t, f>>]

CFuncCall(name, as, ref) == [k |-> "ccall", name |-> name, ref |-> ref, sub |-> as]

CCast(e, type) == [k |-> "ccast", type |-> type, sub |-> <<e>>]

\* CElement::is_pointer.
RECURSIVE is_pointer(_)
is_pointer(e) ==
    CASE e.k = "cid" -> e.ptr
      [] e.k = "cunary" -> e.op = "&"
      [] e.k = "ccond" -> is_pointer(e.sub[2])
      [] e.k = "ccast" -> is_pointer(e.sub[1])
      [] e.k = "ccall" -> e.ref
      [] OTHER -> FALSE

\* Printed as -> or as a dot.
CMemberAccess(e, member) ==
    [k |-> "cmember", member |-> member, arrow |-> is_pointer(e), sub |-> <<e>>]

\* An exception of the translator, in the place of what it was to return.
Unsupported == [k |-> "throw", sub |-> <<>>]

-----------------------------------------------------------------------------
(***************************************************************************)
(* Statements and functions.  Optional parts are sequences of at most one  *)
(* element.                                                                *)
(***************************************************************************)
CBlock(ss) == [k |-> "cblock", sub |-> ss]

CExprStmt(e) == [k |-> "cexpr", sub |-> <<e>>]

CVarDecl(type, name, ptr, init) ==
    [k |-> "cvar", type |-> type, name |-> name, ptr |-> ptr, sub |-> init]

CIf(c, t, f) == [k |-> "cif", sub |-> <<c, t>> \o f]

CWhileLoop(b, c, do) == [k |-> "cwhile", do |-> do, sub |-> <<c, b>>]

CForLoop(init, cond, loop, b) ==
    [k |-> "cfor", init |-> init, cond |-> cond, loop |-> loop,
     sub |-> init \o cond \o loop \o <<b>>]

CBreak == [k |-> "cbreak", sub |-> <<>>]

CContinue == [k |-> "ccontinue", sub |-> <<>>]

CReturn(es) == [k |-> "creturn", sub |-> es]

\* The declarations of the parameters have no initial values.
CFuncDef(name, params, body) == [name |-> name, params |-> params, body |-> body]

-----------------------------------------------------------------------------
(***************************************************************************)
(* Memory.  A value is raw, or wrapped in a structure with the field v; it *)
(* is an integer, a location (type "ptr"), or the fields of a structure.   *)
(* A location is a sequence of names, and the memory maps the locations of *)
(* integers and pointers to values.                                        *)
(***************************************************************************)
CONSTANT Width    \* number of values of each type; the others are unbounded

CValue(t, v, wrapped) == [t |-> t, v |-> v, w |-> wrapped]

Fit(t, v) == IF t \in DOMAIN Width THEN v % Width[t] ELSE v

Truth(b) == IF b THEN 1 ELSE 0

\* What a local variable without an initial value holds: it may be overwritten
\* and copied, and to read its field v is undefined.
Uninitialized == -1

\* Locations inside the structure at loc, relative to it.
Leaves(mem, loc) ==
    {SubSeq(l, Len(loc) + 1, Len(l)) : l \in {l \in DOMAIN mem : IsPrefix(loc, l)}}

CLoad(mem, loc) ==
    IF loc \in DOMAIN mem THEN mem[loc]
    ELSE CValue("struct", [l \in Leaves(mem, loc) |-> mem[loc \o l]], TRUE)

CStoreAt(mem, loc, val) ==
    IF val.t /= "struct" THEN (loc :> val) @@ mem
    ELSE [l \in {loc \o f : f \in DOMAIN val.v} |-> val.v[SubSeq(l, Len(loc) + 1, Len(l))]] @@ mem

-----------------------------------------------------------------------------
(***************************************************************************)
(* Meaning.  The evaluators thread a state with the memory, the scopes of  *)
(* the current function (innermost first), the last value, and how control *)
(* goes on.  err is "ok", "revert", "assert", or "stuck" for what no C     *)
(* compiler accepts or what C leaves undefined.                            *)
(***************************************************************************)
CState(mem) == [mem |-> mem, env |-> <<<<>>>>, fresh |-> 0, val |-> CValue("int", 0, FALSE),
                vals |-> <<>>, err |-> "ok", ctl |-> "next"]

Stop(st, why) == [st EXCEPT !.err = IF @ = "ok" THEN why ELSE @]

\* Arithmetic of types that are narrower than int is done in int.
CArith(op, a, b) ==
    LET t == IF "uint" \in {a.t, b.t} THEN "uint" ELSE "int"
        raw(v)  == CValue(t, Fit(t, v), FALSE)
        bool(p) == CValue("int", Truth(p), FALSE)
    IN  CASE op = "+"  -> raw(a.v + b.v)
          [] op = "-"  -> raw(a.v - b.v)
          [] op = "*"  -> raw(a.v * b.v)
          [] op = "/"  -> raw(a.v \div b.v)
          [] op = "%"  -> raw(a.v % b.v)
          [] op = "<"  -> bool(a.v < b.v)
          [] op = ">"  -> bool(a.v > b.v)
          [] op = "==" -> bool(a.v = b.v)
          [] op = "!=" -> bool(a.v /= b.v)
          [] op = "&&" -> bool(a.v /= 0 /\ b.v /= 0)
          [] op = "||" -> bool(a.v /= 0 \/ b.v /= 0)

\* Declares a local variable.
CBind(st, name, val) ==
    LET loc == <<<<"local", st.fresh>>>>
    IN  [st EXCEPT !.mem = CStoreAt(@, loc, val),
                   !.env = <<(name :> loc) @@ Head(@)>> \o Tail(@),
                   !.fresh = @ + 1]

\* Location that a name stands for; "self->" is part of the name of a member.
CFind(st, name) ==
    LET at(n) == SelectInSeq(st.env, LAMBDA s : n \in DOMAIN s)
        self  == <<"self">>
    IN  IF name[1] = "self->"
        THEN IF at(self) = 0 THEN <<>> ELSE Append(st.mem[st.env[at(self)][self]].v, Tail(name))
        ELSE IF at(name) = 0 THEN <<>> ELSE st.env[at(name)][name]

\* Functions of the run-time library, and the accessors of mappings, whose
\* elements are zero until they are written.
CBuiltin(name, as, st) ==
    LET key(n) == as[1].v \o [i \in 1 .. n |-> <<"key", as[i + 1].v>>]
        set(v) == [st EXCEPT !.val = v]
    IN  CASE name[1] = "Init" ->
                IF as[1].w THEN Stop(st, "stuck") ELSE set(CValue(name[2], Fit(name[2], as[1].v), TRUE))
          [] name[1] = "sol_require" -> IF as[1].v = 0 THEN Stop(st, "revert") ELSE st
          [] name[1] = "sol_assert" -> IF as[1].v = 0 THEN Stop(st, "assert") ELSE st
          [] name[1] = "Read" ->
                set(IF key(Len(as) - 1) \in DOMAIN st.mem THEN st.mem[key(Len(as) - 1)]
                    ELSE CValue(name[3], 0, TRUE))
          [] name[1] = "Write" ->
                [set(Last(as)) EXCEPT !.mem = CStoreAt(@, key(Len(as) - 2), Last(as))]
          [] name[1] = "ZeroInitMap" -> set(CValue("struct", <<>>, TRUE))
          [] name[1] = "pay" ->
                LET bal == st.mem[as[1].v].v
                IN  IF bal < as[2].v THEN Stop(st, "revert")
                    ELSE [set(as[2]) EXCEPT !.mem = CStoreAt(@, as[1].v, CValue("uint", bal - as[2].v, TRUE))]
          [] name[1] = "sol_emit" -> st
          [] OTHER -> Stop(st, "stuck")

RECURSIVE CLoc(_, _, _), CEval(_, _, _), CEvals(_, _, _), CRun(_, _, _)

\* val becomes the location of an lvalue.
CLoc(defs, e, st) ==
    LET to(s, l) == [s EXCEPT !.val = CValue("ptr", l, FALSE)]
        base == IF e.k = "cmember" /\ ~ e.arrow
                THEN CLoc(defs, e.sub[1], st) ELSE CEval(defs, e.sub[1], st)
    IN  CASE st.err /= "ok" -> st
          [] e.k = "cid" ->
                IF CFind(st, e.name) = <<>> THEN Stop(st, "stuck") ELSE to(st, CFind(st, e.name))
          [] e.k = "cmember" \/ (e.k = "cunary" /\ e.op = "*") ->
                IF base.err /= "ok" \/ base.val.t /= "ptr" THEN Stop(base, "stuck")
                ELSE IF e.k = "cunary" \/ e.member = <<"v">> THEN base
                ELSE to(base, Append(base.val.v, e.member))
          [] OTHER -> Stop(st, "stuck")

\* An assignment: a raw value that is stored into a wrapper takes its type.
CAssignTo(defs, e, st) ==
    LET l     == CLoc(defs, e.sub[1], st)
        r     == CEval(defs, e.sub[2], l)
        at    == l.val.v
        old   == CLoad(r.mem, at)
        inner == e.sub[1].k = "cmember" /\ e.sub[1].member = <<"v">>
        put(v) == [r EXCEPT !.mem = CStoreAt(@, at, v), !.val = [v EXCEPT !.w = ~ inner]]
    IN  IF r.err /= "ok" THEN r
        ELSE IF inner /= ~ r.val.w \/ (inner /\ old.t = "struct") THEN Stop(r, "stuck")
        ELSE IF inner THEN put(CValue(old.t, Fit(old.t, r.val.v), TRUE))
        ELSE put(r.val)

\* A unary operator.
CUnary(defs, e, st) ==
    LET sub  == CEval(defs, e.sub[1], st)
        loc  == CLoc(defs, e.sub[1], st)
        at   == loc.val.v
        old  == CLoad(loc.mem, at)
        new  == Fit(old.t, IF e.op = "++" THEN old.v + 1 ELSE old.v - 1)
        int(v) == [sub EXCEPT !.val = CValue("int", v, FALSE)]
    IN  CASE e.op = "&" -> loc
          [] e.op = "*" -> IF loc.err /= "ok" THEN loc ELSE CLoc(defs, e, st)
          [] e.op \in {"++", "--"} ->
                IF loc.err /= "ok" \/ old.v = Uninitialized THEN Stop(loc, "stuck")
                ELSE [loc EXCEPT !.mem = CStoreAt(@, at, [old EXCEPT !.v = new]),
                                 !.val = CValue(old.t, IF e.pre THEN new ELSE old.v, FALSE)]
          [] sub.err /= "ok" \/ sub.val.w -> Stop(sub, "stuck")
          [] e.op = "!" -> int(Truth(sub.val.v = 0))
          [] OTHER -> IF sub.val.t = "uint" THEN [sub EXCEPT !.val.v = Fit("uint", - @)] ELSE int(- sub.val.v)

CBinary(defs, e, st) ==
    LET lhs == CEval(defs, e.sub[1], st)
        rhs == CEval(defs, e.sub[2], lhs)
    IN  IF lhs.err /= "ok" \/ lhs.val.w THEN Stop(lhs, "stuck")
        ELSE IF (e.op = "&&" /\ lhs.val.v = 0) \/ (e.op = "||" /\ lhs.val.v /= 0)
        THEN [lhs EXCEPT !.val = CValue("int", Truth(lhs.val.v /= 0), FALSE)]
        ELSE IF rhs.err /= "ok" \/ rhs.val.w \/ (e.op \in {"/", "%"} /\ rhs.val.v = 0)
        THEN Stop(rhs, "stuck")
        ELSE [rhs EXCEPT !.val = CArith(e.op, lhs.val, rhs.val)]

\* A call of a function of the program or of the library.
CCall(defs, e, st) ==
    LET as  == CEvals(defs, e.sub, [st EXCEPT !.vals = <<>>])
        def == defs[e.name]
        in  == FoldLeft(LAMBDA s, i : CBind(s, def.params[i].name, as.vals[i]),
                        [as EXCEPT !.env = <<<<>>>>], [i \in DOMAIN def.params |-> i])
        out == CRun(defs, def.body, in)
        back(s) == [s EXCEPT !.env = st.env, !.ctl = "next", !.vals = st.vals]
    IN  IF as.err /= "ok" THEN as
        ELSE IF e.name \notin DOMAIN defs THEN back(CBuiltin(e.name, as.vals, as))
        ELSE IF Len(def.params) /= Len(as.vals) THEN Stop(as, "stuck")
        ELSE back(out)

CEval(defs, e, st) ==
    LET loc  == CLoc(defs, e, st)
        sub  == CEval(defs, e.sub[1], st)
        read(s) == [s EXCEPT !.val = CLoad(s.mem, s.val.v)]
        inner(s) == IF s.val.v = Uninitialized THEN Stop(s, "stuck") ELSE [s EXCEPT !.val.w = FALSE]
        temp == e.k = "cmember" /\ e.sub[1].k \in {"ccall", "ccond"} /\ ~ e.arrow
    IN  CASE st.err /= "ok" -> st
          [] e.k = "cint" -> [st EXCEPT !.val = CValue("int", e.val, FALSE)]
          [] temp -> IF sub.err /= "ok" THEN sub
                     ELSE IF e.member = <<"v">> /\ sub.val.w THEN inner(sub)
                     ELSE Stop(sub, "stuck")
          [] e.k = "cid" \/ e.k = "cmember" \/ (e.k = "cunary" /\ e.op = "*") ->
                IF loc.err /= "ok" THEN loc
                ELSE IF e.k = "cmember" /\ e.member = <<"v">> THEN inner(read(loc))
                ELSE read(loc)
          [] e.k = "cunary" -> CUnary(defs, e, st)
          [] e.k = "cbinary" -> IF e.op = "=" THEN CAssignTo(defs, e, st) ELSE CBinary(defs, e, st)
          [] e.k = "ccond" ->
                IF sub.err /= "ok" \/ sub.val.w THEN Stop(sub, "stuck")
                ELSE CEval(defs, IF sub.val.v /= 0 THEN e.sub[2] ELSE e.sub[3], sub)
          [] e.k = "ccast" -> [sub EXCEPT !.val.t = e.type, !.val.v = Fit(e.type, @)]
          [] e.k = "ccall" -> CCall(defs, e, st)
          [] OTHER -> Stop(st, "stuck")

CEvals(defs, es, st) ==
    IF es = <<>> THEN st
    ELSE LET s == CEval(defs, Head(es), st)
         IN  CEvals(defs, Tail(es), [s EXCEPT !.vals = Append(st.vals, s.val)])

\* Statements.  ctl is "next", "return", "break" or "continue".
CRun(defs, s, st) ==
    LET run(t, x)  == CRun(defs, t, x)
        eval(t, x) == CEval(defs, t, x)
        scoped(x)  == [x EXCEPT !.env = st.env]
        \* One round of a loop with condition c, body b and step l.
        after(x) == [x EXCEPT !.ctl = IF @ \in {"break", "continue"} THEN "next" ELSE @]
        round(c, b, l, x) ==
            LET cond == IF c = <<>> THEN [x EXCEPT !.val = CValue("int", 1, FALSE)] ELSE eval(c[1], x)
                body == run(b, cond)
                step == IF l = <<>> THEN after(body) ELSE run(l[1], after(body))
            IN  IF cond.err /= "ok" \/ cond.val.v = 0 THEN cond
                ELSE IF body.err /= "ok" \/ body.ctl \in {"return", "break"} THEN after(body)
                ELSE IF step.err /= "ok" THEN step
                ELSE run(CForLoop(<<>>, c, l, b), step)
        cond == eval(s.sub[1], st)
        branch == IF cond.val.v /= 0 THEN <<s.sub[2]>> ELSE Tail(Tail(s.sub))
        first == run(s.sub[2], st)
    IN  CASE st.err /= "ok" \/ st.ctl /= "next" -> st
          [] s.k = "cexpr" -> cond
          [] s.k = "cblock" ->
                scoped(FoldLeft(LAMBDA x, t : run(t, x), [st EXCEPT !.env = <<<<>>>> \o @], s.sub))
          [] s.k = "cvar" ->
                IF s.sub = <<>>
                THEN CBind(st, s.name, CValue(s.type, IF s.type = "struct" THEN <<>> ELSE Uninitialized, TRUE))
                ELSE IF cond.err /= "ok" THEN cond
                ELSE CBind(cond, s.name, cond.val)
          [] s.k = "cif" ->
                IF cond.err /= "ok" \/ cond.val.w THEN Stop(cond, "stuck")
                ELSE IF branch = <<>> THEN cond ELSE scoped(run(branch[1], cond))
          [] s.k = "cwhile" ->
                IF ~ s.do THEN round(<<s.sub[1]>>, s.sub[2], <<>>, st)
                ELSE IF first.err /= "ok" \/ first.ctl \in {"return", "break"} THEN after(first)
                ELSE round(<<s.sub[1]>>, s.sub[2], <<>>, after(first))
          [] s.k = "cfor" ->
                scoped(LET x == [st EXCEPT !.env = <<<<>>>> \o @]
                       IN  round(s.cond, Last(s.sub), s.loop,
                                 IF s.init = <<>> THEN x ELSE run(s.init[1], x)))
          [] s.k \in {"cbreak", "ccontinue"} -> [st EXCEPT !.ctl = IF s.k = "cbreak" THEN "break" ELSE "continue"]
          [] s.k = "creturn" ->
                IF s.sub = <<>> THEN [st EXCEPT !.ctl = "return"] ELSE [cond EXCEPT !.ctl = "return"]
          [] OTHER -> Stop(st, "stuck")
=============================================================================
