------------------------------- MODULE Stages -------------------------------
(***************************************************************************)
(* What the stages of the SmartACE pipeline compute for the bundle prog:   *)
(* the members of AnalysisStack, the translation of the model, and one     *)
(* transaction that is executed twice, by the generated C code and by the  *)
(* reference semantics of Solidity.  stack holds the members computed so   *)
(* far; a stage throws or adds members.                                    *)
(***************************************************************************)
EXTENDS FunctionConverter, SolSemantics

Member(ok, members) == [ok |-> ok, members |-> members]

-----------------------------------------------------------------------------
(***************************************************************************)
(* The analyses.                                                           *)
(***************************************************************************)

\* The contracts that the user names.
Actors ==
    LET b == BundleExtractor(prog.model)
    IN  Member(b.missing = <<>> /\ b.contracts /= <<>>, "actors" :> b.contracts)

\* AllocationGraph, with check_allocation_graph_errs.
Allocations(stack) ==
    LET g == AllocationGraph(stack.actors)
    IN  Member(~ g.throws /\ g.violations = 0, "alloc" :> g)

Model(stack) ==
    LET m == FlatModel(stack.actors, stack.alloc.vertices)
    IN  Member(\A i \in DOMAIN m.view : ~ m.flat[m.view[i]].clash, "model" :> m)

\* The contract that a function returns is the first of a set of pointers: any
\* of them.
Contracts(stack) ==
    LET env == [flat |-> stack.model.flat, view |-> stack.model.view,
                truetypes |-> stack.alloc.truetypes]
        reg == ContractRvLookup(env)
    IN  IF RvThrows(reg) THEN {Member(FALSE, <<>>)}
        ELSE {Member(TRUE, "env" :> ("rv" :> rv @@ env)) : rv \in RvTypes(reg)}

CallGraphStage(stack) == LET g == CallGraph(stack.env) IN Member(~ g.throws, "graph" :> g)

Libraries(stack) == Member(TRUE, "libs" :> LibrarySummary(stack.graph))

\* CallState; requirements are escalated if the user asks for it.
Environment(stack) ==
    Member(TRUE, "state" :> CallState(stack.graph) @@ "escalate" :> prog.escalate)

TightBundle(stack) ==
    Member(TRUE, "bundle" :> TightBundleModel(stack.model.bundle, stack.model.children))

\* size of the bundle: the last address that is given to a contract.
BundleSize(stack) == IF stack.bundle = <<>> THEN 0 ELSE Last(stack.bundle).next

\* TypeAnalyzer names the mappings.
Types(stack) ==
    LET m == MapDeflate(FlattenSeq([i \in DOMAIN stack.model.view |-> prog.con[stack.model.view[i]].vars]))
    IN  Member(~ m.throws, "maps" :> m.name)

\* PTGBuilder, with check_address_errs.
Addresses(stack) ==
    LET p == PTGBuilder(stack.env, stack.graph, BundleSize(stack))
    IN  Member(p.violations = {}, "addresses" :> p)

Strings(stack) == Member(TRUE, "strings" :> StringLookup(stack.env, stack.graph))

\* The structures of cmodel.h, the functions of cmodel.c and the wrappers of
\* primitive.h.
Translate(stack) ==
    LET st   == [env |-> stack.env, graph |-> stack.graph, strings |-> stack.strings,
                 escalate |-> stack.escalate]
        defs == PrintFunctions(st)
    IN  Member(Translated(defs), "st" :> st @@ "defs" :> defs @@ "prims" :> PrimitiveTypes(st)
                    @@ "adts" :> ADTConverter(stack.env.truetypes, stack.model, DOMAIN stack.libs))

\* The results of the constructor of a stage.
ResultsOf(stage, stack) ==
    CASE stage = "actors" -> {Actors}
      [] stage = "allocations" -> {Allocations(stack)}
      [] stage = "model" -> {Model(stack)}
      [] stage = "contracts" -> Contracts(stack)
      [] stage = "calls" -> {CallGraphStage(stack)}
      [] stage = "libraries" -> {Libraries(stack)}
      [] stage = "environment" -> {Environment(stack)}
      [] stage = "bundle" -> {TightBundle(stack)}
      [] stage = "types" -> {Types(stack)}
      [] stage = "addresses" -> {Addresses(stack)}
      [] stage = "strings" -> {Strings(stack)}
      [] stage = "translate" -> {Translate(stack)}

-----------------------------------------------------------------------------
(***************************************************************************)
(* Execution.  The instance is in the variable <<"root">>.                 *)
(***************************************************************************)
Root == <<<<"root">>>>

\* Places of the instances of a bundle, with their addresses.
RECURSIVE Places(_, _)
Places(b, path) ==
    (path :> b.address) @@
        FoldLeft(LAMBDA acc, k : acc @@ Places(k, Field(path, k.var)), <<>>, b.kids)

AddressesIn(stack, mem(_)) ==
    LET at == Places(stack.bundle[1], Root)
    IN  [l \in {Append(p, address_member) : p \in DOMAIN at} |-> mem(at[Front(l)])]

\* The arguments of a transaction in C, as run_model passes them.
SchedulerState(stack, t) ==
    LET val(f) == CASE f = "sender" -> t.sender [] f = "value" -> t.value [] f = "paid" -> 1 [] OTHER -> 0
        fs     == order(stack.st)
    IN  [i \in DOMAIN fs |-> wrap(FieldType(fs[i]), CIntLiteral(val(fs[i])))]

CArgs(ds, vs) == [i \in DOMAIN ds |-> wrap(prog.var[ds[i]].cat, CIntLiteral(vs[i]))]

\* The constructor and then the function of the transaction.
RunC(stack, t) ==
    LET c    == stack.bundle[1].contract
        ctor == constructor(c)
        self == CReference(CIdentifier(<<"root">>, FALSE))
        s0   == [CState(AddressesIn(stack, LAMBDA a : CValue("address", a, TRUE)))
                    EXCEPT !.env = <<(<<"root">> :> Root)>>]
        s1   == CEval(stack.defs, CFuncCall(<<"InitContract", c, c>>,
                    <<self>> \o SchedulerState(stack, [t EXCEPT !.value = 0]) \o
                        (IF ctor = None THEN <<>> ELSE CArgs(prog.fn[ctor].params, t.init)), FALSE), s0)
    IN  IF s1.err /= "ok" THEN s1
        ELSE CEval(stack.defs, CFuncCall(SpecName(try_resolve(stack.env.flat[c], t.fn), c, 0),
                    <<self>> \o SchedulerState(stack, t) \o CArgs(prog.fn[t.fn].params, t.args), FALSE), s1)

RunSol(stack, t) ==
    LET c    == stack.bundle[1].contract
        ctor == constructor(c)
        lits(vs) == [i \in DOMAIN vs |-> Typed("lit", vs[i])]
        s0   == [SolState(AddressesIn(stack, LAMBDA a : Typed("address", a)))
                    EXCEPT !.sender = t.sender, !.vals = lits(t.init)]
        s1   == SolNew(s0, Root, c, FALSE)
        s2   == [s1 EXCEPT !.this = Root, !.sender = t.sender, !.value = t.value,
                           !.bal[Root] = t.value, !.vals = lits(t.args)]
    IN  IF s1.err /= "ok" THEN s1
        ELSE SolCall(s2, Root, Dispatch(c, t.fn, 1), FALSE, 0)

\* What can be seen of a run: how it ended, what is not zero in the storage of
\* the instances, and the first value it returns.
Outcome(f, err, mem, val) ==
    [err |-> err,
     mem |-> IF err /= "ok" THEN <<>>
             ELSE [l \in {l \in DOMAIN mem : l[1] = Root[1] /\ mem[l].v /= 0} |-> mem[l].v],
     val |-> IF err /= "ok" \/ prog.fn[f].rets = <<>> THEN 0
             ELSE IF val.t = "tuple" THEN val.v[1].v ELSE val.v]

OutcomeC(f, r) == Outcome(f, r.err, r.mem, r.val)

OutcomeSol(stack, f, r) ==
    LET balance(p) == Append(p, balance_member)
        number(x)  == IF x.t = "string" THEN Typed("uint", stack.strings[x.v]) ELSE x
    IN  Outcome(f, r.err, [l \in {balance(p) : p \in DOMAIN r.bal} |-> Typed("uint", r.bal[Front(l)])]
                           @@ [l \in DOMAIN r.mem |-> number(r.mem[l])], r.val)

\* Both outcomes, with the types of the contracts that exist after the run.
Execution(stack, t) ==
    LET sol == RunSol(stack, t)
    IN  [c |-> OutcomeC(t.fn, RunC(stack, t)), sol |-> OutcomeSol(stack, t.fn, sol), made |-> sol.type]

\* The transactions that differ from t in an address which the taint analysis
\* does not count as a client, and the outcome of each.
UntaintedOutcomes(stack, t) ==
    LET f     == Dispatch(stack.bundle[1].contract, t.fn, 1)
        ps    == AddressParams(f)
        place == [i \in DOMAIN ps |-> CHOOSE j \in DOMAIN t.args : prog.fn[f].params[j] = ps[i]]
    IN  {OutcomeSol(stack, f, RunSol(stack, [t EXCEPT !.args[place[i]] = a])) :
            i \in DOMAIN ps \ ClientTaintPass(f), a \in {0, 1, 6}}
=============================================================================
