------------------------------ MODULE Allocation ------------------------------
(***************************************************************************)
(* The order of constructor calls (InheritanceTree) and the flat view of a *)
(* contract and of a model, in which inheritance is resolved               *)
(* (FlatContract, FlatModel); calls and allocations: the classification of *)
(* a call expression (FunctionCallAnalyzer), the contracts that each       *)
(* contract allocates (AllocationSummary, AllocationGraph), and the        *)
(* instances of the bundle with their addresses (TightBundleModel).        *)
(***************************************************************************)
EXTENDS SolAst

-----------------------------------------------------------------------------
(***************************************************************************)
(* InheritanceTree.                                                        *)
(***************************************************************************)

\* The constructor calls of a contract: the ones that its constructor makes as
\* modifiers, unless the contract that is expanded has no base at all, and then
\* the bases in the order of their declaration.
BaseCalls(c, linear) ==
    LET ctor == constructor(c)
    IN  (IF Cardinality(linear) > 1 /\ ctor /= None THEN prog.fn[ctor].mods ELSE <<>>)
            \o prog.con[c].bases

\* Nobody passes the arguments that the constructor of b wants.
LacksArguments(b, given) ==
    given = None /\ constructor(b) /= None /\ prog.fn[constructor(b)].params /= <<>>

\* The tree for c.  seen are the contracts with a constructor call so far; it is
\* shared by the whole tree.  A constructor modifier that is no base contract is
\* not in the table, and its lookup is undefined behaviour.
RECURSIVE initialize(_, _, _)
initialize(c, linear, seen) ==
    LET analyze_ancestor(acc, call) ==
            IF isInterface(call.of) \/ call.of \in acc.seen THEN acc
            ELSE IF LacksArguments(call.of, call.args) THEN [acc EXCEPT !.abstract = TRUE]
            ELSE LET parent == initialize(call.of, linear, acc.seen \cup {call.of})
                 IN  [acc EXCEPT !.calls = Append(@, [parent EXCEPT !.args = call.args]),
                                 !.seen = parent.seen]
    IN  FoldLeft(analyze_ancestor,
                 [raw |-> c, args |-> None, calls |-> <<>>, seen |-> seen, abstract |-> FALSE],
                 BaseCalls(c, linear))

InheritanceTree(c) ==
    LET linear == ToSet(prog.con[c].lin) IN initialize(c, linear, {c})

\* The order in which the generated initializers run the constructors: the
\* subtrees of a node, from left to right, and then the node.
RECURSIVE ConstructorOrder(_)
ConstructorOrder(t) ==
    FlattenSeq([i \in DOMAIN t.calls |-> ConstructorOrder(t.calls[i])]) \o <<t.raw>>

\* The order in which the constructors of a tree are analysed.
RECURSIVE TreeOrder(_)
TreeOrder(t) ==
    <<t.raw>> \o FlattenSeq([i \in DOMAIN t.calls |-> TreeOrder(t.calls[i])])

-----------------------------------------------------------------------------
(***************************************************************************)
(* FlatContract.                                                           *)
(***************************************************************************)

\* The functions of a list that collide with no earlier one.
NewFunctions(fs) ==
    FoldLeft(LAMBDA acc, f : IF \E i \in DOMAIN acc : collid(f, acc[i]) THEN acc ELSE Append(acc, f),
             <<>>, fs)

\* Elements of a list whose name is new.
NewNames(table, ds) ==
    FoldLeft(LAMBDA acc, d : IF \E i \in DOMAIN acc : table[acc[i]].name = table[d].name
                             THEN acc ELSE Append(acc, d),
             <<>>, ds)

\* What the contracts of the linearisation that are no interfaces declare.
Inherited(c, field) ==
    FlattenSeq([i \in DOMAIN prog.con[c].lin |->
        IF isInterface(prog.con[c].lin[i]) THEN <<>> ELSE prog.con[prog.con[c].lin[i]][field]])

\* A function after the first fallback that is a fallback itself is treated like
\* a method without a name.
FlatContract(c) ==
    LET funs      == Inherited(c, "funs")
        fallbacks == SelectSeq(funs, isFallback)
        methods   == NewFunctions(SelectSeq(funs, LAMBDA f :
                         ~ isConstructor(f) /\ (isFallback(f) => f /= fallbacks[1])))
        private   == {d \in ToSet(Inherited(c, "vars")) : ~ prog.var[d].public}
    IN  [name         |-> c,
         interface    |-> SelectSeq(methods, inInterface),
         internals    |-> SelectSeq(methods, LAMBDA f : ~ inInterface(f)),
         constructors |-> SelectSeq(funs, isConstructor),
         fallback     |-> IF fallbacks = <<>> THEN None ELSE fallbacks[1],
         modifiers    |-> NewNames(prog.mod, Inherited(c, "mods")),
         vars         |-> NewNames(prog.var, Inherited(c, "vars")),
         tree         |-> InheritanceTree(c),
         clash        |-> \E d \in private :
                              d \notin ToSet(NewNames(prog.var, Inherited(c, "vars")))]

\* The function of a flat contract that a reference to f means, or None.
try_resolve(flat, f) ==
    LET hits == SelectSeq(IF inInterface(f) THEN flat.interface ELSE flat.internals,
                          LAMBDA g : collid(f, g))
    IN  IF isFallback(f) THEN flat.fallback
        ELSE IF hits = <<>> THEN None ELSE hits[1]

-----------------------------------------------------------------------------
(***************************************************************************)
(* FlatModel.  children maps a contract to the contracts that it allocates *)
(* (AllocationGraph::children_of).                                         *)
(***************************************************************************)

\* The contracts of the model and everything that they allocate, in the order
\* of a breadth-first search.
RECURSIVE Expand(_, _, _)
Expand(pending, visited, children) ==
    IF pending = <<>> THEN visited
    ELSE IF Contains(visited, Head(pending)) THEN Expand(Tail(pending), visited, children)
    ELSE Expand(Tail(pending) \o [i \in DOMAIN children[Head(pending)] |->
                                    children[Head(pending)][i].type],
                Append(visited, Head(pending)), children)

\* view are the contracts of the model; flat also knows their ancestors.
FlatModel(model, children) ==
    LET view  == Expand(model, <<>>, children)
        known == UNION {ToSet(prog.con[view[i]].lin) : i \in DOMAIN view}
        flat  == [c \in known |-> FlatContract(c)]
    IN  [view     |-> view,
         flat     |-> flat,
         bundle   |-> SelectSeq(model, LAMBDA c : ~ flat[c].tree.abstract),
         children |-> [c \in ToSet(view) |-> children[c]]]

\* The contract after _ancestor in the linearisation of _contract.
next_ancestor(c, ancestor) ==
    LET hits == SelectInSeq(prog.con[c].lin, LAMBDA a : a = ancestor)
    IN  IF hits \in 1 .. Len(prog.con[c].lin) - 1 THEN prog.con[c].lin[hits + 1] ELSE None

\* A super call is resolved against the ancestors that follow the scope of the
\* caller; the loop of the code runs past the end if there is no such function.
RECURSIVE super_call(_, _, _, _)
super_call(flat, entry, ancestor, f) ==
    LET next == next_ancestor(entry, ancestor)
    IN  IF next = None THEN None
        ELSE IF try_resolve(flat[next], f) /= None THEN try_resolve(flat[next], f)
        ELSE super_call(flat, entry, next, f)

-----------------------------------------------------------------------------
(***************************************************************************)
(* FunctionCallAnalyzer.                                                   *)
(***************************************************************************)

\* Walks down the callee.  Options such as .value(v) and .gas(g) are calls of
\* members, whose argument is in last when the member is reached.
RECURSIVE Descend(_, _)
Descend(e, d) ==
    CASE e.k = "member" ->
            LET base == clean(e.sub[1])
                next == CASE e.name = "gas"   -> [d EXCEPT !.gas = d.last]
                          [] e.name = "value" -> [d EXCEPT !.value = d.last]
                          [] e.name = "call"  -> [d EXCEPT !.low = TRUE, !.context = base]
                          [] OTHER -> IF d.context /= None \/ (base.k = "id" /\
                                            base.decl \in DOMAIN prog.con /\ isLibrary(base.decl))
                                      THEN d
                                      ELSE [d EXCEPT !.context = base]
            IN  Descend(e.sub[1], next)
      [] e.k = "call" ->
            Descend(e.sub[1], [d EXCEPT !.last = IF args(e) = <<>> THEN None ELSE args(e)[1]])
      [] e.k = "id" -> [d EXCEPT !.root = e.decl]
      [] OTHER -> d

\* The constructor.  A declaration is a method or the variable of a getter.
CallData(n) ==
    LET d == [context |-> None, root |-> None, value |-> None, gas |-> None,
              last |-> None, low |-> FALSE]
    IN  Descend(n.sub[1], d)

method_decl(n) == IF n.fn \in DOMAIN prog.fn THEN n.fn ELSE None

is_getter(n) == n.fn \in DOMAIN prog.var

is_in_library(n) == method_decl(n) /= None /\ isLibrary(prog.fn[n.fn].scope)

\* The root names a contract, as in Base.f().
is_explicit_super(n) == CallData(n).root \in DOMAIN prog.con /\ ~ is_in_library(n)

is_super(n) == is_explicit_super(n) \/ CallData(n).root = "super"

context_is_this(n) == CallData(n).context = Identifier("this")

\* FunctionCallAnalyzer::classify.
classify(n) ==
    CASE n.kind \in {"Internal", "External", "BareCall", "BareStaticCall"} -> "Method"
      [] n.kind \in {"DelegateCall", "BareDelegateCall", "BareCallCode"} -> "Delegate"
      [] n.kind = "Creation" -> "Constructor"
      [] n.kind \in {"KECCAK256", "ECRecover", "SHA256", "RIPEMD160"} -> "Crypto"
      [] n.kind = "Selfdestruct" -> "Destruct"
      [] n.kind \in {"Log0", "Log1", "Log2", "Log3", "Log4", "Event"} -> "Logging"
      [] n.kind \in {"ArrayPush", "ByteArrayPush"} -> "Push"
      [] n.kind = "ArrayPop" -> "Pop"
      [] n.kind = "ObjectCreation" -> "NewArray"
      [] n.kind \in {"ABIEncode", "ABIEncodePacked", "ABIEncodeWithSelector",
                     "ABIEncodeWithSignature", "ABIDecode"} -> "ABI"
      [] n.kind = "MetaType" -> "NoOp"
      [] n.kind \in {"Send", "Transfer", "Revert", "Assert", "Require", "BlockHash",
                     "AddMod", "MulMod", "GasLeft"} -> n.kind
      [] OTHER -> "UnhandledCall"

-----------------------------------------------------------------------------
(***************************************************************************)
(* AllocationSummary.                                                      *)
(***************************************************************************)

\* Calls are followed to this depth before the analysis gives up.
DepthLimit == 2

\* An allocation found in function context.  type is None for a call that
\* returns a contract that it did not allocate.
NewCall(type, context, dest, retval) ==
    [type |-> type, context |-> context, dest |-> dest, retval |-> retval]

\* The analysis stops with an error: the depth limit is reached, or a contract
\* variable is assigned the result of an external call.
Throws(call) == call.type \in {"deep", "external"}

\* The function an internal call is bound to while src is analysed.
InternalMatch(src, context, n) ==
    LET request == method_decl(n)
        lin     == prog.con[src].lin
        after   == SelectInSeq(lin, LAMBDA c : c = prog.fn[context].scope)
        later   == FlattenSeq([i \in DOMAIN lin |->
                       IF i > after THEN prog.con[lin[i]].funs ELSE <<>>])
        named   == FlattenSeq([i \in DOMAIN lin |-> prog.con[lin[i]].funs])
        pick(s) == IF s = <<>> THEN None ELSE s[1]
    IN  CASE is_explicit_super(n) \/ is_in_library(n) -> request
          [] is_super(n) -> pick(SelectSeq(later, LAMBDA f : collid(request, f)))
          [] OTHER -> pick(SelectSeq(named, LAMBDA f : prog.fn[f].name = prog.fn[request].name))

\* AllocationSummary::Visitor: the allocations below n.  dest is the variable
\* that is assigned to, ret says that the value is returned.  The first three
\* operators are mutually recursive, as the methods of the visitor are.
RECURSIVE Visitor(_, _, _, _), handle_call_type(_, _, _), Calls(_, _, _)
Visitor(at, n, dest, ret) ==
    LET each(ns, d, r) == FlattenSeq([i \in DOMAIN ns |-> Visitor(at, ns[i], d, r)])
        def == IF classify(n) = "Constructor" THEN n.of
               ELSE IF is_super(n) \/ is_in_library(n) \/ CallData(n).context = None
               THEN handle_call_type(at.src, InternalMatch(at.src, at.context, n), at.depth)
               ELSE IF dest = None THEN None ELSE "external"
        here == IF n.of = None THEN <<>>
                ELSE <<NewCall(def, at.context,
                               IF ret THEN prog.fn[at.context].rets[1] ELSE dest, ret)>>
        ctx  == CallData(n).context
    IN  CASE n.k = "call" ->
                here \o (IF ctx = None THEN <<>> ELSE Visitor(at, ctx, dest, ret))
                     \o each(args(n), dest, ret)
          [] n.k = "cast" -> each(n.sub, dest, ret)
          [] n.k = "assign" ->
                each(<<n.sub[2]>>, IF category(n.sub[1]) = "contract"
                                   THEN expr_to_decl(n.sub[1]) ELSE None, ret)
          [] n.k = "return" -> each(n.sub, dest, TRUE)
          [] OTHER -> each(n.sub, dest, ret)

\* The contract that an internal function allocates and returns, if any.
handle_call_type(src, f, depth) ==
    IF depth = 1 THEN "deep"
    ELSE LET calls == Calls(src, f, depth - 1)
             rets  == SelectSeq(calls, LAMBDA c : c.retval)
         IN  IF \E i \in DOMAIN calls : Throws(calls[i]) THEN "deep"
             ELSE IF rets = <<>> THEN None ELSE rets[1].type

\* All allocations of a function; a constructor stands for its whole tree.
Calls(src, f, depth) ==
    LET at    == [src |-> src, context |-> f, depth |-> depth]
        tree  == TreeOrder(InheritanceTree(src))
        ctors == SelectSeq([i \in DOMAIN tree |-> constructor(tree[i])], LAMBDA c : c /= None)
    IN  IF isConstructor(f)
        THEN FlattenSeq([i \in DOMAIN ctors |-> Visitor(at, prog.fn[ctors[i]].body, None, FALSE)])
        ELSE Visitor(at, prog.fn[f].body, None, FALSE)

\* Whether an allocation of f makes a child of the contract, or why it does not.
Verdict(f, call) ==
    CASE isConstructor(f) /\ call.dest /= None
            /\ prog.var[call.dest].loc \notin {"local", "ret"} -> "child"
      [] ~ isConstructor(f) /\ ~ inInterface(f) /\ call.retval -> "child"
      [] inInterface(f) -> "Unbounded"
      [] OTHER -> "Orphaned"

\* AllocationSummary: every call that allocates, with its verdict.
AllocationSummary(c) ==
    FlattenSeq([i \in DOMAIN prog.con[c].funs |->
        LET f     == prog.con[c].funs[i]
            calls == SelectSeq(Calls(c, f, DepthLimit), LAMBDA call : call.type /= None)
        IN  [j \in DOMAIN calls |-> [call |-> calls[j], verdict |-> Verdict(f, calls[j])]]])

-----------------------------------------------------------------------------
(***************************************************************************)
(* AllocationGraph.                                                        *)
(***************************************************************************)

\* One child of contract c is added to the graph g.
AddChild(g, c, call) ==
    LET known == {e \in g.truetypes : e[1] = call.dest}
    IN  IF known = {}
        THEN [g EXCEPT !.truetypes = @ \cup {<<call.dest, call.type>>},
                       !.vertices[c] = Append(@, call)]
        ELSE IF <<call.dest, call.type>> \in known
        THEN [g EXCEPT !.vertices[c] = Append(@, call)]
        ELSE [g EXCEPT !.violations = @ + 1]

\* The worklist of the constructor.
RECURSIVE BuildGraph(_, _)
BuildGraph(pending, g) ==
    IF pending = <<>> THEN g
    ELSE IF Head(pending) \in g.visited THEN BuildGraph(Tail(pending), g)
    ELSE IF \E i \in DOMAIN AllocationSummary(Head(pending)) :
                Throws(AllocationSummary(Head(pending))[i].call) THEN [g EXCEPT !.throws = TRUE]
    ELSE LET c     == Head(pending)
             sum   == AllocationSummary(c)
             kids  == SelectSeq(sum, LAMBDA s : s.verdict = "child")
             g1    == FoldLeft(LAMBDA acc, s : AddChild(acc, c, s.call),
                               [g EXCEPT !.visited = @ \cup {c},
                                         !.violations = @ + Len(sum) - Len(kids)], kids)
             fresh == [i \in DOMAIN g1.vertices[c] |-> g1.vertices[c][i].type]
         IN  BuildGraph(Tail(pending) \o fresh, g1)

AllocationGraph(model) ==
    BuildGraph(model, [visited |-> {}, truetypes |-> {}, violations |-> 0, throws |-> FALSE,
                       vertices |-> [c \in DOMAIN prog.con |-> <<>>]])

\* AllocationGraph::analyze: the contracts that come with one contract.
RECURSIVE cost_of(_, _)
cost_of(vertices, c) ==
    FoldLeft(LAMBDA acc, call : acc + cost_of(vertices, call.type), 1, vertices[c])

\* The contract that a variable really holds; parameters keep their type.
specialize(truetypes, d) ==
    IF prog.var[d].loc = "param" THEN prog.var[d].of
    ELSE IF \E e \in truetypes : e[1] = d
    THEN (CHOOSE e \in truetypes : e[1] = d)[2]
    ELSE None

-----------------------------------------------------------------------------
(***************************************************************************)
(* TightBundleModel: an instance has the next free address, then come its  *)
(* children.                                                               *)
(***************************************************************************)

\* Mutant: the children of a child are not counted.
RECURSIVE BundleContract_shared(_, _, _, _)
BundleContract_shared(c, id, var, children) ==
    FoldLeft(LAMBDA b, call :
                 LET kid == BundleContract_shared(call.type, b.next, call.dest, children)
                 IN  [b EXCEPT !.kids = Append(@, kid), !.next = b.next + 1],
             [contract |-> c, address |-> id + 1, var |-> var, next |-> id + 1, kids |-> <<>>],
             children[c])

RECURSIVE BundleContract(_, _, _, _)
BundleContract(c, id, var, children) ==
    FoldLeft(LAMBDA b, call :
                 LET kid == BundleContract(call.type, b.next, call.dest, children)
                 IN  [b EXCEPT !.kids = Append(@, kid), !.next = kid.next],
             [contract |-> c, address |-> id + 1, var |-> var, next |-> id + 1, kids |-> <<>>],
             children[c])

\* The sequence of all top-level instances.
TightBundleModel(bundle, children) ==
    FoldLeft(LAMBDA top, c :
                 Append(top, BundleContract(c, IF top = <<>> THEN 0 ELSE Last(top).next,
                                            None, children)),
             <<>>, bundle)

RECURSIVE Instances(_)
Instances(b) == <<b>> \o FlattenSeq([i \in DOMAIN b.kids |-> Instances(b.kids[i])])
=============================================================================
