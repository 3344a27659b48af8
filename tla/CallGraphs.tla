------------------------------ MODULE CallGraphs ------------------------------
(***************************************************************************)
(* Which contract an expression yields (ContractRvAnalyzer,                *)
(* ContractExpressionAnalyzer), which code is executed (CallGraphBuilder,  *)
(* CallGraph), and what is collected from that code: LibrarySummary,       *)
(* CallState, StringLookup, the influence of variables (TaintAnalysis,     *)
(* AbstractTaintPass), and what the address domain is computed from, the   *)
(* literals, roles and clients of a model and the reasons to reject it     *)
(* (LiteralExtractor, RoleExtractor, ClientExtractor).                     *)
(*                                                                         *)
(* The parameter env holds the results of the earlier analyses: the flat   *)
(* contracts (flat), the contracts of the model (view), the types of       *)
(* contract variables (truetypes), and the contracts that functions return *)
(* (rv).                                                                   *)
(***************************************************************************)
EXTENDS Allocation

-----------------------------------------------------------------------------
(***************************************************************************)
(* ContractRvAnalyzer.                                                     *)
(***************************************************************************)
NoRefs == [int |-> {}, ext |-> {}, deps |-> {}, throws |-> FALSE]

Join(a, b) == [int |-> a.int \cup b.int, ext |-> a.ext \cup b.ext,
               deps |-> a.deps \cup b.deps, throws |-> a.throws \/ b.throws]

Failed == [NoRefs EXCEPT !.throws = TRUE]

\* A key is a contract and a function of its flat view.
Dependency(user, f) == [NoRefs EXCEPT !.deps = {<<user, f>>}]

record_ref(env, e) ==
    LET type == specialize(env.truetypes, expr_to_decl(e))
    IN  IF type = None THEN Failed ELSE [NoRefs EXCEPT !.int = {type}]

\* A call whose result is returned.
ReturnedCall(env, src, f, n) ==
    LET ctx  == CallData(n).context
        decl == method_decl(n)
        user == IF ctx = None THEN src ELSE specialize(env.truetypes, expr_to_decl(ctx))
    IN  CASE classify(n) = "Method" /\ is_explicit_super(n) -> Dependency(src, decl)
          [] classify(n) = "Method" /\ is_super(n) ->
                Dependency(src, super_call(env.flat, src, prog.fn[f].scope, decl))
          [] classify(n) = "Method" /\ is_getter(n) -> NoRefs
          [] classify(n) = "Method" ->
                IF ctx /= None /\ (ctx.k \in {"call", "index"} \/
                                    ~ isStateVariable(expr_to_decl(ctx)) \/ user = None)
                THEN Failed
                ELSE Dependency(user, IF is_in_library(n) THEN decl
                                      ELSE try_resolve(env.flat[user], decl))
          [] is_in_library(n) -> Dependency(None, decl)
          [] classify(n) = "Delegate" -> Failed
          [] OTHER -> NoRefs

\* What a function of src returns.  ret holds below a return, and on the right
\* of an assignment to the return variable.
RECURSIVE Returned(_, _, _, _, _)
Returned(env, src, f, n, ret) ==
    LET each(ns, r) == FoldLeft(LAMBDA acc, m : Join(acc, Returned(env, src, f, m, r)), NoRefs, ns)
    IN  CASE n.k \in {"if", "cond", "while"} -> each(Tail(n.sub), ret)
          [] n.k = "return" -> each(n.sub, TRUE)
          [] n.k = "assign" -> each(<<n.sub[2]>>, isReturnParameter(expr_to_decl(n.sub[1])))
          [] ~ ret /\ n.k \in {"call", "cast", "member", "index", "id"} -> NoRefs
          [] n.k = "call" -> ReturnedCall(env, src, f, n)
          [] n.k = "cast" -> [NoRefs EXCEPT !.ext = {n.of}]
          [] n.k \in {"member", "id"} -> record_ref(env, n)
          [] n.k = "index" -> Failed
          [] OTHER -> each(n.sub, ret)

ContractRvAnalyzer(env, key) == Returned(env, key[1], key[2], prog.fn[key[2]].body, FALSE)

\* Functions with one return value, which is a contract.
check_method_rv(f) ==
    Len(prog.fn[f].rets) = 1 /\ prog.var[prog.fn[f].rets[1]].cat = "contract"

-----------------------------------------------------------------------------
(***************************************************************************)
(* ContractRvLookup and ContractExpressionAnalyzer.                        *)
(***************************************************************************)

\* The worklist of ContractRvLookup.  A dependency is entered with the refs of
\* the function that depends on it.
RECURSIVE Register(_, _, _)
Register(env, pending, registry) ==
    IF pending = <<>> THEN registry
    ELSE LET key   == Head(pending)
             fresh == SetToSeq(registry[key].deps \ DOMAIN registry)
             more  == [d \in ToSet(fresh) |-> ContractRvAnalyzer(env, key)]
         IN  Register(env, Tail(pending) \o fresh, registry @@ more)

ContractRvLookup(env) ==
    LET keys == {<<c, f>> \in ToSet(env.view) \X DOMAIN prog.fn :
                    /\ f \in ToSet(env.flat[c].interface) \cup ToSet(env.flat[c].internals)
                    /\ check_method_rv(f)}
    IN  Register(env, SetToSeq(keys), [k \in keys |-> ContractRvAnalyzer(env, k)])

\* What a key returns by itself and through its direct dependencies.  Further
\* dependencies are marked as seen when they are queued, and then skipped.
Aggregated(registry, key) ==
    FoldSet(LAMBDA dep, acc : Join(acc, registry[dep]), registry[key], registry[key].deps \ {key})

\* The possible values of m_rv_types: the first of a set of pointers is any
\* element of it.  An empty set has no first element (None stands for what is
\* read there).
RvTypes(registry) ==
    LET refs(k) == Aggregated(registry, k)
    IN  {t \in [DOMAIN registry -> DOMAIN prog.con \cup {None}] :
            \A k \in DOMAIN registry :
                IF refs(k).int = {} THEN t[k] = None ELSE t[k] \in refs(k).int}

RvThrows(registry) ==
    \E k \in DOMAIN registry :
        \/ registry[k].throws
        \/ Aggregated(registry, k).ext /= {} /\ Cardinality(Aggregated(registry, k).int) /= 1

\* The contract that a contract expression yields in contract ctx, or None.
RECURSIVE resolve(_, _, _)
resolve(env, e, ctx) ==
    LET call  == clean(e)
        owner == IF is_in_library(call) THEN None
                 ELSE IF CallData(call).context /= None /\ ~ context_is_this(call)
                 THEN resolve(env, CallData(call).context, ctx)
                 ELSE ctx
        key   == <<owner, method_decl(call)>>
    IN  IF call.k /= "call" THEN specialize(env.truetypes, expr_to_decl(e))
        ELSE IF key \in DOMAIN env.rv THEN env.rv[key] ELSE None

-----------------------------------------------------------------------------
(***************************************************************************)
(* CallGraphBuilder.                                                       *)
(***************************************************************************)
NoGraph == [vertices |-> {}, edges |-> {}, labels |-> {}, mods |-> {}, throws |-> FALSE]

\* A contract and the contract that defines the function it executes.
Location(entry, scope) == [entry |-> entry, scope |-> scope]

\* CallGraphBuilder::devirtualize; throws if either part is None.
devirtualize(env, loc, n) ==
    LET decl   == method_decl(n)
        ctx    == CallData(n).context
        sup    == super_call(env.flat, loc.entry, loc.scope, decl)
        entry  == IF ctx = None \/ context_is_this(n) THEN loc.entry
                  ELSE resolve(env, ctx, loc.entry)
        actual == IF entry = None THEN None ELSE try_resolve(env.flat[entry], decl)
        scope(f) == IF f = None THEN None ELSE prog.fn[f].scope
    IN  CASE is_explicit_super(n) -> Location(loc.entry, scope(decl))
          [] is_super(n) -> Location(loc.entry, scope(sup))
          [] OTHER -> Location(entry, scope(actual))

\* What endVisit(FunctionCall) follows: a function, its location, the labels.
Target(env, loc, n) ==
    LET to == devirtualize(env, loc, n)
        labels == IF is_super(n) THEN {"Super"}
                  ELSE IF CallData(n).context /= None THEN {"External"} ELSE {}
        nothing == [fn |-> None, loc |-> loc, labels |-> {}, throws |-> FALSE]
    IN  CASE n.k /= "call" \/ CallData(n).low -> nothing
          [] is_in_library(n) ->
                [nothing EXCEPT !.fn = n.fn, !.loc = Location(None, None), !.labels = {"Library"}]
          [] classify(n) = "Method" /\ ~ is_getter(n) ->
                IF to.entry = None \/ to.scope = None THEN [nothing EXCEPT !.throws = TRUE]
                ELSE [nothing EXCEPT !.fn = try_resolve(env.flat[to.scope], n.fn),
                                     !.loc = to, !.labels = labels]
          [] classify(n) = "Constructor" /\ env.flat[n.of].constructors /= <<>> ->
                [nothing EXCEPT !.fn = env.flat[n.of].constructors[1],
                                !.loc = Location(n.of, n.of), !.labels = {"Alloc"}]
          [] classify(n) = "Delegate" -> [nothing EXCEPT !.throws = TRUE]
          [] OTHER -> nothing

\* visit(ModifierInvocation): the modifiers of the contract that executes f.
\* The arguments of the invocation are not visited.
ModifierBodies(env, loc, f) ==
    LET named(m) == \E i \in DOMAIN prog.fn[f].mods : prog.fn[f].mods[i].of = prog.mod[m].name
    IN  IF loc.entry = None THEN <<>> ELSE SelectSeq(env.flat[loc.entry].modifiers, named)

\* The calls of a function, in the order in which they are followed.
CallSites(env, loc, f) ==
    LET mods == ModifierBodies(env, loc, f)
    IN  NodesOf(prog.fn[f].body)
            \o FlattenSeq([i \in DOMAIN mods |-> NodesOf(prog.mod[mods[i]].body)])

\* visit(FunctionDefinition): the body of f is followed when f is new, in the
\* location of its first caller; caller is None for a root.
RECURSIVE Follow(_, _, _, _, _, _)
Follow(env, caller, f, loc, labels, g) ==
    LET visited == [g EXCEPT !.vertices = @ \cup {f},
                             !.mods = @ \cup ToSet(ModifierBodies(env, loc, f))]
        step(acc, n) ==
            LET t == Target(env, loc, n)
            IN  IF t.throws THEN [acc EXCEPT !.throws = TRUE]
                ELSE IF t.fn = None THEN acc
                ELSE Follow(env, f, t.fn, t.loc, t.labels, acc)
        g1 == IF f \in g.vertices THEN g
              ELSE FoldLeft(step, visited, CallSites(env, loc, f))
    IN  IF caller = None THEN g1
        ELSE [g1 EXCEPT !.edges = @ \cup {<<caller, f>>},
                        !.labels = @ \cup {<<caller, f, l>> : l \in labels}]

\* The roots of contract c with their locations.
Roots(env, c) ==
    LET flat == env.flat[c]
        here == Location(c, c)
        pub  == [i \in DOMAIN flat.interface |->
                    <<flat.interface[i], Location(c, prog.fn[flat.interface[i]].scope)>>]
        ctor == [i \in DOMAIN flat.constructors |-> <<flat.constructors[i], here>>]
    IN  pub \o ctor \o (IF flat.fallback = None THEN <<>> ELSE <<<<flat.fallback, here>>>>)

CallGraph(env) ==
    FoldLeft(LAMBDA g, r : Follow(env, None, r[1], r[2], {}, g), NoGraph,
             FlattenSeq([i \in DOMAIN env.view |-> Roots(env, env.view[i])]))

-----------------------------------------------------------------------------
(***************************************************************************)
(* CallGraph: queries.                                                     *)
(***************************************************************************)

\* Functions reached from fs without leaving the contract.
RECURSIVE Inside(_, _)
Inside(g, fs) ==
    LET leaves(f, h) == \E l \in {"External", "Library"} : <<f, h, l>> \in g.labels
        next == {e[2] : e \in {e \in g.edges : e[1] \in fs /\ ~ leaves(e[1], e[2])}}
    IN  IF next \subseteq fs THEN fs ELSE Inside(g, fs \cup next)

internals(env, g, c) ==
    {f \in Inside(g, {Roots(env, c)[i][1] : i \in DOMAIN Roots(env, c)}) : ~ inInterface(f)}

super_calls(env, g, c, call) ==
    LET fs == IF inInterface(call) THEN env.flat[c].interface ELSE env.flat[c].internals
    IN  {f \in Inside(g, ToSet(fs)) : collid(call, f)}

-----------------------------------------------------------------------------
(***************************************************************************)
(* What is read off the executed code.                                     *)
(***************************************************************************)

\* LibrarySummary: the library functions in use, by library.
LibrarySummary(g) ==
    [l \in {c \in DOMAIN prog.con : isLibrary(c) /\ \E f \in g.vertices : prog.fn[f].scope = c} |->
        {f \in g.vertices : prog.fn[f].scope = l}]

\* The calls in the bodies and modifier arguments of the executed functions.
ExecutedNodes(g) ==
    UNION {ToSet(NodesOf(prog.fn[f].body)) : f \in g.vertices}
        \cup UNION {UNION {UNION {ToSet(NodesOf(m.args[i])) : i \in DOMAIN m.args} :
                             m \in {m \in ToSet(prog.fn[f].mods) : m.args /= None}} :
                      f \in g.vertices}

\* CallState: how ether is moved.
CallState(g) ==
    LET calls(group) == \E n \in ExecutedNodes(g) : n.k = "call" /\ classify(n) = group
    IN  [uses_pay |-> \E f \in g.vertices : prog.fn[f].payable,
         uses_send |-> calls("Send"), uses_transfer |-> calls("Transfer")]

\* StringLookup: the empty string is 0, the others are numbered as they are met.
StringLookup(env, g) ==
    LET inits   == UNION {UNION {ToSet(NodesOf(prog.var[d].value[i])) : i \in DOMAIN prog.var[d].value} :
                            d \in UNION {ToSet(env.flat[env.view[j]].vars) : j \in DOMAIN env.view}}
        nodes   == inits \cup ExecutedNodes(g) \cup UNION {ToSet(NodesOf(prog.mod[m].body)) : m \in g.mods}
        strings == SetToSeq({n.val : n \in {n \in nodes : n.k = "lit" /\ n.cat = "string"}} \ {""})
    IN  [s \in ToSet(strings) \cup {""} |->
            IF s = "" THEN 0 ELSE CHOOSE i \in DOMAIN strings : strings[i] = s]

-----------------------------------------------------------------------------
(***************************************************************************)
(* TaintAnalysis.  A taint state maps variables to sets of sources.        *)
(***************************************************************************)

\* The declarations that name the target of an assignment.
RECURSIVE TaintDests(_)
TaintDests(e) ==
    CASE e.k = "index" -> TaintDests(e.sub[1])
      [] e.k \in {"member", "id"} -> <<e.decl>>
      [] OTHER -> FlattenSeq([i \in DOMAIN e.sub |-> TaintDests(e.sub[i])])

\* TaintDestination::extract; None where it throws.
TaintDestination(e) ==
    LET ds == TaintDests(e)
    IN  IF Len(ds) = 1 /\ ds[1] \in DOMAIN prog.var THEN ds[1] ELSE None

taint_for(t, d) == IF d \in DOMAIN t.of THEN t.of[d] ELSE {}

\* propogate and propogate_unknown: m_taintee receives sources.
propogate(t, taintee, srcs) ==
    IF taintee = None THEN t
    ELSE [t EXCEPT !.of = (taintee :> (taint_for(t, taintee) \cup srcs)) @@ t.of]

\* One pass over a tree.  all are the sources; a null taintee is None, and the
\* flag throws records an exception.
RECURSIVE TaintAnalysis(_, _, _, _)
TaintAnalysis(t, all, n, taintee) ==
    LET each(acc, ns, d) == FoldLeft(LAMBDA a, m : TaintAnalysis(a, all, m, d), acc, ns)
        fail   == [t EXCEPT !.throws = TRUE]
        into(acc, l, ns) ==
            IF TaintDestination(l) = None THEN [acc EXCEPT !.throws = TRUE]
            ELSE each(acc, ns, TaintDestination(l))
        lhs    == clean(n.sub[1])
        rhs    == clean(n.sub[2])
        tuple  == FoldLeft(LAMBDA acc, i :
                       IF rhs.k \in {"call", "cast", "struct"}
                       THEN propogate(acc, TaintDestination(lhs.sub[i]), all)
                       ELSE into(acc, lhs.sub[i], <<rhs.sub[i]>>),
                       t, [i \in DOMAIN lhs.sub |-> i])
    IN  CASE n.k = "vardecl" -> each(t, n.sub, n.decl)
          [] n.k = "assign" /\ lhs.k = "tuple" ->
                IF rhs.k \in {"call", "cast", "struct", "tuple"} THEN tuple ELSE fail
          [] n.k = "assign" -> into(t, lhs, <<n.sub[2]>>)
          [] n.k \in {"call", "cast", "struct"} -> propogate(t, taintee, all)
          [] n.k = "member" /\ n.decl = None ->
                IF n.name \in {"sender", "value", "timestamp", "balance"} THEN t ELSE fail
          [] n.k \in {"member", "id"} ->
                IF n.decl \in DOMAIN prog.var THEN propogate(t, taintee, taint_for(t, n.decl)) ELSE t
          [] OTHER -> each(t, n.sub, taintee)

\* Mutant: the body is analysed only once.
TaintRun_once(t, all, f) == TaintAnalysis(t, all, prog.fn[f].body, None)

\* TaintAnalysis::run: passes until nothing changes.
RECURSIVE TaintRun(_, _, _)
TaintRun(t, all, f) ==
    LET next == TaintAnalysis(t, all, prog.fn[f].body, None)
    IN  IF next = t THEN t ELSE TaintRun(next, all, f)

-----------------------------------------------------------------------------
(***************************************************************************)
(* AbstractTaintPass.                                                      *)
(***************************************************************************)

\* AbstractTaintPass::process_declaration.  Fields of structures are not local.
process_declaration(t, d, in_sink) ==
    IF d \in DOMAIN prog.var /\ (in_sink \/ prog.var[d].loc \notin {"local", "param"})
    THEN taint_for(t, d) ELSE {}

\* The sources that reach a sink below n.
RECURSIVE Reached(_, _, _)
Reached(t, n, in_sink) ==
    LET each(ns, s) == UNION {Reached(t, ns[i], s) : i \in DOMAIN ns}
    IN  CASE n.k \in {"return", "unary", "binary", "cast"} -> each(n.sub, TRUE)
          [] n.k = "call" ->
                each(args(n), TRUE) \cup
                    (IF n.sub[1].k = "member" THEN each(n.sub[1].sub, TRUE) ELSE {})
          [] n.k = "index" -> each(<<n.sub[2]>>, TRUE) \cup each(<<n.sub[1]>>, in_sink)
          [] n.k = "member" -> process_declaration(t, n.decl, in_sink) \cup each(n.sub, FALSE)
          [] n.k = "id" -> process_declaration(t, n.decl, in_sink)
          [] OTHER -> each(n.sub, in_sink)

\* AbstractTaintPass::setup: sources is a sequence of variables.
AbstractTaintPass(f, sources) ==
    LET all  == DOMAIN sources
        t0   == [of |-> [d \in ToSet(sources) |-> {i \in all : sources[i] = d}], throws |-> FALSE]
        t    == TaintRun(t0, all, f)
        mods == {m \in ToSet(prog.fn[f].mods) : m.args /= None}
    IN  IF sources = <<>> THEN {}
        ELSE Reached(t, prog.fn[f].body, FALSE)
                \cup UNION {UNION {Reached(t, m.args[i], TRUE) : i \in DOMAIN m.args} : m \in mods}

\* ClientTaintPass: the sources are the parameters that are addresses.
AddressParams(f) == SelectSeq(prog.fn[f].params, LAMBDA d : prog.var[d].cat = "address")

ClientTaintPass(f) == AbstractTaintPass(f, AddressParams(f))

\* RoleTaintPass: the sources are private roles.
RoleTaintPass(f, roles) == AbstractTaintPass(f, roles)

-----------------------------------------------------------------------------
(***************************************************************************)
(* LiteralExtractor.                                                       *)
(***************************************************************************)
Found(lits, viols) == [literals |-> lits, violations |-> viols]

Both(a, b) == Found(a.literals \cup b.literals, a.violations \cup b.violations)

\* cast holds while the operand of a conversion to an address is visited.
RECURSIVE LiteralVisit(_, _)
LiteralVisit(n, cast) ==
    LET each(ns, c) ==
            FoldLeft(LAMBDA acc, m : Both(acc, LiteralVisit(m, c)), Found({}, {}), ns)
        bad(v) == Found({}, {v})
        to     == category(n)
        from   == category(n.sub[1])
    IN  CASE n.k \in {"unary", "binary", "member"} /\ cast -> bad("Mutate")
          [] n.k = "binary" /\ from = "address" /\ n.op \notin {"==", "!="} -> bad("Compare")
          [] n.k \in {"call", "cast"} /\ cast /\ to \notin {"contract", "address"} -> bad("Mutate")
          [] n.k = "cast" /\ to = "address" -> each(n.sub, cast \/ from /= "address")
          [] n.k = "cast" -> IF from = "address" THEN bad("Cast") ELSE each(n.sub, cast)
          [] n.k = "call" -> each(n.sub, FALSE)
          [] n.k = "id" /\ cast /\ n.decl /= "this" ->
                IF to = "contract" THEN Found({}, {}) ELSE bad("Mutate")
          [] n.k = "lit" /\ cast -> Found({n.val}, {})
          [] OTHER -> each(n.sub, cast)

\* LiteralExtractor: state variables, executed functions, applied modifiers.
LiteralExtractor(env, g) ==
    LET inits == UNION {UNION {ToSet(prog.var[d].value) : d \in ToSet(env.flat[c].vars)} :
                          c \in ToSet(env.view)}
        trees == inits \cup {prog.fn[f].body : f \in g.vertices}
                       \cup {prog.mod[m].body : m \in g.mods}
    IN  FoldSet(LAMBDA n, acc : Both(acc, LiteralVisit(n, FALSE)), Found({}, {}), trees)

-----------------------------------------------------------------------------
(***************************************************************************)
(* RoleExtractor.                                                          *)
(***************************************************************************)
NoRoles == [vars |-> <<>>, paths |-> {}, violations |-> {}]

\* extract_from_struct and check_map_conformance: the addresses in a structure
\* d, with their paths, and the mappings that no address domain supports.
RECURSIVE extract_from_struct(_), check_map_conformance(_)
extract_from_struct(d) ==
    LET field(acc, f) ==
            LET cat == prog.var[f].cat
                sub == extract_from_struct(f)
            IN  CASE cat = "address" -> [acc EXCEPT !.vars = Append(@, f),
                                                    !.paths = @ \cup {<<prog.var[d].name, prog.var[f].name>>}]
                  [] cat = "mapping" -> [acc EXCEPT !.violations = @ \cup check_map_conformance(f)]
                  [] cat = "struct" -> [vars |-> acc.vars \o sub.vars,
                                        paths |-> acc.paths \cup {<<prog.var[d].name>> \o p : p \in sub.paths},
                                        violations |-> acc.violations \cup sub.violations]
                  [] OTHER -> acc
    IN  FoldLeft(field, NoRoles, prog.var[d].of)

\* MapDeflate flattens nested mappings: of has all keys and the last value.
check_map_conformance(d) ==
    LET map == prog.var[d].of
    IN  (IF \E i \in DOMAIN map.keys : map.keys[i] /= "address" THEN {"KeyType"} ELSE {})
            \cup (IF prog.var[map.value].cat = "address"
                        \/ (prog.var[map.value].cat = "struct"
                            /\ extract_from_struct(map.value).paths /= {})
                  THEN {"ValueType"} ELSE {})

\* The functions in which a private role may be used.
RoleFunctions(env, g, c) ==
    internals(env, g, c) \cup UNION {super_calls(env, g, c, f) : f \in ToSet(env.flat[c].interface)}

\* RoleExtractor: every public role counts, a private one if it is used.
RoleExtractor(env, g, c) ==
    LET collect(acc, d) ==
            LET cat == prog.var[d].cat
                sub == IF cat = "address"
                       THEN [NoRoles EXCEPT !.vars = <<d>>, !.paths = {<<prog.var[d].name>>}]
                       ELSE IF cat = "struct" THEN extract_from_struct(d) ELSE NoRoles
                viol == IF cat = "mapping" THEN check_map_conformance(d) ELSE sub.violations
            IN  [public  |-> IF prog.var[d].public THEN acc.public \o sub.vars ELSE acc.public,
                 private |-> IF prog.var[d].public THEN acc.private ELSE acc.private \o sub.vars,
                 paths   |-> acc.paths \cup sub.paths,
                 violations |-> acc.violations \cup viol]
        all  == FoldLeft(collect, [public |-> <<>>, private |-> <<>>, paths |-> {}, violations |-> {}],
                         env.flat[c].vars)
        used == UNION {RoleTaintPass(f, all.private) : f \in RoleFunctions(env, g, c)}
    IN  [count |-> Len(all.public) + Cardinality(used), paths |-> all.paths,
         public |-> all.public, private |-> all.private, used |-> used, violations |-> all.violations]

-----------------------------------------------------------------------------
(***************************************************************************)
(* ClientExtractor and PTGBuilder.                                         *)
(***************************************************************************)

\* ClientExtractor: the sender and the parameters that matter, at most.
ClientExtractor(env) ==
    LET fs == UNION {ToSet(env.flat[c].interface) \cup ({env.flat[c].fallback} \ {None}) :
                       c \in ToSet(env.view)}
        compute_clients(f) == 1 + Cardinality(ClientTaintPass(f))
    IN  FoldSet(LAMBDA f, acc : IF compute_clients(f) > acc THEN compute_clients(f) ELSE acc, 0, fs)

\* PTGBuilder: what AddressDomain takes as constants.
PTGBuilder(env, g, contracts) ==
    LET lits  == LiteralExtractor(env, g)
        roles == [c \in ToSet(env.view) |-> RoleExtractor(env, g, c)]
    IN  [contract_ct |-> contracts,
         literals    |-> lits.literals,
         role_ct     |-> FoldSet(LAMBDA c, acc : acc + roles[c].count, 0, ToSet(env.view)),
         client_ct   |-> ClientExtractor(env),
         roles       |-> roles,
         violations  |-> lits.violations \cup UNION {roles[c].violations : c \in ToSet(env.view)}]
=============================================================================
