------------------------------- MODULE FrontEnd -------------------------------
(***************************************************************************)
(* The checks of the compiler on the syntax tree, in the stages of         *)
(* CompilerStack::analyze.  A check is TRUE if it reports no error;        *)
(* warnings are sets of their own.  At the end, the meaning of a           *)
(* transaction of a single contract, against which the checks are          *)
(* compared.                                                               *)
(***************************************************************************)
EXTENDS NameResolution, ControlFlow

CONSTANT SmallBits     \* number of values of each type in programs that are only compiled

Smt == INSTANCE SmtChecker WITH Bits <- SmallBits
Sol == INSTANCE SolSemantics WITH Bits <- SmallBits

CONSTANTS ByteBits, WordBytes, AddressBits     \* the words of programs with types

Types == INSTANCE SolTypes WITH typed <- prog.typed

AllContracts == DOMAIN prog.con

\* Bodies of the functions and modifiers, None for a function without one.
Body(d) == IF d \in DOMAIN prog.fn THEN prog.fn[d].body ELSE prog.mod[d].body

Nodes(d) == IF Body(d) = None THEN {} ELSE ToSet(NodesOf(Body(d)))

-----------------------------------------------------------------------------
(***************************************************************************)
(* SyntaxChecker.                                                          *)
(***************************************************************************)

\* break and continue are inside of loops.
RECURSIVE jumpsInLoops(_, _)
jumpsInLoops(n, m_inLoopDepth) ==
    /\ (n.k \in {"break", "continue"} => m_inLoopDepth > 0)
    /\ LET d == IF n.k \in {"while", "for"} THEN m_inLoopDepth + 1 ELSE m_inLoopDepth
       IN  \A i \in DOMAIN n.sub : jumpsInLoops(n.sub[i], d)

\* A branch or a loop body is no bare declaration.
checkSingleStatementVariableDeclaration(n) ==
    LET bodies == CASE n.k = "if" -> Tail(n.sub) [] n.k \in {"while", "for"} -> <<Last(n.sub)>> [] OTHER -> <<>>
    IN  \A i \in DOMAIN bodies : bodies[i].k /= "vardecl"

checkSyntax ==
    /\ \A d \in DOMAIN prog.fn \cup DOMAIN prog.mod :
           /\ (Body(d) /= None => jumpsInLoops(Body(d), 0))
           /\ \A n \in Nodes(d) : checkSingleStatementVariableDeclaration(n) /\ ~ (n.k = "unary" /\ n.op = "+")
    /\ \A m \in DOMAIN prog.mod : \E n \in Nodes(m) : n.k = "placeholder"
    /\ \A f \in DOMAIN prog.fn :
           /\ prog.fn[f].name /= prog.fn[f].scope
           /\ (prog.fn[f].body = None => prog.fn[f].mods = <<>>)
    /\ \A c \in AllContracts : \A i \in DOMAIN prog.con[c].structs : prog.con[c].structs[i] /= <<>>

-----------------------------------------------------------------------------
(***************************************************************************)
(* ContractLevelChecker.                                                   *)
(***************************************************************************)
Pure == 0
View == 1
NonPayable == 2
Payable == 3

\* prog.mutability has the functions that are declared pure or view.
stateMutability(f) ==
    IF f \in DOMAIN prog.mutability THEN prog.mutability[f]
    ELSE IF prog.fn[f].payable THEN Payable ELSE NonPayable

hasEqualReturnTypes(f, g) ==
    LET types(x) == [i \in DOMAIN prog.fn[x].rets |-> prog.var[prog.fn[x].rets[i]].cat] IN types(f) = types(g)

checkDuplicateFunctions(c) ==
    LET funs == prog.con[c].funs
    IN  \A i, j \in DOMAIN funs : i < j =>
            /\ ~ (isConstructor(funs[i]) /\ isConstructor(funs[j]))
            /\ ~ (isFallback(funs[i]) /\ isFallback(funs[j]))
            /\ ~ (prog.fn[funs[i]].kind = "function" /\ prog.fn[funs[j]].kind = "function" /\ collid(funs[i], funs[j]))

\* Mutant: an override may weaken the mutability.
checkFunctionOverride_loose(f, super) ==
    collid(f, super) => hasEqualReturnTypes(f, super) /\ prog.fn[f].public = prog.fn[super].public

\* f overrides super; the same parameters with another result, visibility or
\* mutability are an error.
checkFunctionOverride(f, super) ==
    collid(f, super) =>
        /\ hasEqualReturnTypes(f, super)
        /\ prog.fn[f].public = prog.fn[super].public
        /\ stateMutability(f) = stateMutability(super)

checkIllegalOverrides(c) ==
    LET lin   == prog.con[c].lin
        funs  == SelectSeq(FlattenSeq([i \in DOMAIN lin |-> prog.con[lin[i]].funs]), LAMBDA f : ~ isConstructor(f))
        mods  == FlattenSeq([i \in DOMAIN lin |-> prog.con[lin[i]].mods])
        sig(m) == [i \in DOMAIN prog.mod[m].params |-> prog.var[prog.mod[m].params[i]].cat]
    IN  /\ \A i, j \in DOMAIN funs : i < j => checkFunctionOverride(funs[i], funs[j])
        /\ \A i, j \in DOMAIN mods : prog.mod[mods[i]].name = prog.mod[mods[j]].name => sig(mods[i]) = sig(mods[j])
        /\ \A i \in DOMAIN funs, j \in DOMAIN mods : prog.fn[funs[i]].name /= prog.mod[mods[j]].name

\* From base to derived, a function with a body is not declared without one.
checkAbstractFunctions(c) ==
    LET lin  == Reverse(prog.con[c].lin)
        funs == SelectSeq(FlattenSeq([i \in DOMAIN lin |-> prog.con[lin[i]].funs]), LAMBDA f : ~ isConstructor(f))
    IN  \A i, j \in DOMAIN funs :
            i < j /\ collid(funs[i], funs[j]) /\ prog.fn[funs[i]].body /= None => prog.fn[funs[j]].body /= None

\* The modifiers of the constructor of c that name base contracts.
baseModifiers(c) ==
    IF constructor(c) = None THEN <<>>
    ELSE SelectSeq(prog.fn[constructor(c)].mods, LAMBDA m : m.of \in AllContracts)

\* The arguments for base constructors that contract c gets, in the order of the code.
baseConstructorCalls(c) ==
    LET lin == prog.con[c].lin
        mods(k) == SelectSeq(baseModifiers(k), LAMBDA m : m.args /= None)
        spec(k) == SelectSeq(prog.con[k].bases, LAMBDA b : b.args /= None /\ b.args /= <<>>)
    IN  SelectSeq(FlattenSeq([i \in DOMAIN lin |-> mods(lin[i]) \o spec(lin[i])]), LAMBDA x : constructor(x.of) /= None)

\* Arguments are given once, and a constructor modifier has an argument list.
checkBaseConstructorArguments(c) ==
    LET calls == baseConstructorCalls(c)
    IN  /\ \A i, j \in DOMAIN calls : calls[i].of = calls[j].of => i = j
        /\ \A k \in ToSet(prog.con[c].lin) : \A i \in DOMAIN baseModifiers(k) : baseModifiers(k)[i].args /= None

\* Functions and base constructors that keep a contract from being created.
unimplementedFunctions(c) ==
    LET lin   == prog.con[c].lin
        funs  == FlattenSeq([i \in DOMAIN lin |-> prog.con[lin[i]].funs])
        calls == baseConstructorCalls(c)
        open(f) == \A i \in DOMAIN funs : (~ isConstructor(funs[i]) /\ collid(f, funs[i])) => prog.fn[funs[i]].body = None
    IN  {f \in ToSet(funs) : ~ isConstructor(f) /\ open(f)}
        \cup {f \in ToSet(funs) : isConstructor(f) /\ prog.fn[f].scope /= c /\ prog.fn[f].params /= <<>>
                                  /\ \A i \in DOMAIN calls : calls[i].of /= prog.fn[f].scope}

checkConstructor(c) ==
    LET f == constructor(c)
    IN  f = None \/ (prog.fn[f].rets = <<>> /\ stateMutability(f) \in {NonPayable, Payable})

checkFallbackFunction(c) ==
    \A f \in {f \in ToSet(prog.con[c].funs) : isFallback(f)} :
        /\ ~ isLibrary(c)
        /\ stateMutability(f) \in {NonPayable, Payable}
        /\ prog.fn[f].params = <<>> /\ prog.fn[f].rets = <<>>

\* The external signature of contract types and addresses is the same.
externalSig(f) == [i \in DOMAIN Sigs(f) |-> IF Sigs(f)[i] = "contract" THEN "address" ELSE Sigs(f)[i]]

checkExternalTypeClashes(c) ==
    LET lin  == prog.con[c].lin
        funs == SelectSeq(FlattenSeq([i \in DOMAIN lin |-> prog.con[lin[i]].funs]), inInterface)
    IN  \A i, j \in DOMAIN funs :
            prog.fn[funs[i]].name = prog.fn[funs[j]].name /\ externalSig(funs[i]) = externalSig(funs[j])
                => Sigs(funs[i]) = Sigs(funs[j])

checkLibraryRequirements(c) ==
    isLibrary(c) => /\ prog.con[c].bases = <<>>
                    /\ \A i \in DOMAIN prog.con[c].vars : prog.var[prog.con[c].vars[i]].loc = "constant"

ContractLevelChecker(c) ==
    /\ checkDuplicateFunctions(c)
    /\ checkIllegalOverrides(c)
    /\ checkAbstractFunctions(c)
    /\ checkBaseConstructorArguments(c)
    /\ checkConstructor(c)
    /\ checkFallbackFunction(c)
    /\ checkExternalTypeClashes(c)
    /\ checkLibraryRequirements(c)

-----------------------------------------------------------------------------
(***************************************************************************)
(* PostTypeChecker: the values of constants do not depend on themselves.   *)
(***************************************************************************)
constVariables == {d \in DOMAIN prog.var : prog.var[d].loc = "constant"}

dependencies(d) ==
    {n.decl : n \in {n \in UNION {ToSet(NodesOf(prog.var[d].value[i])) : i \in DOMAIN prog.var[d].value} :
                        n.k = "id" /\ n.decl \in constVariables}}

RECURSIVE findCycle(_, _)
findCycle(start, seen) ==
    \E d \in seen : start \in dependencies(d) \/
        \E n \in dependencies(d) \ seen : findCycle(start, seen \cup {n})

PostTypeChecker == \A d \in constVariables : ~ findCycle(d, {d})

-----------------------------------------------------------------------------
(***************************************************************************)
(* StaticAnalyzer.                                                         *)
(***************************************************************************)

\* Parameters and local variables with a name that the function never mentions;
\* a returned value is a use of all results.
unusedVariables(f) ==
    LET fn     == prog.fn[f]
        locals == {d \in ToSet(fn.params) \cup ToSet(fn.rets) \cup {n.decl : n \in {n \in Nodes(f) : n.k = "vardecl"}} :
                      prog.var[d].name /= ""}
        used   == {n.decl : n \in {n \in Nodes(f) : n.k = "id"}}
                    \cup (IF \E n \in Nodes(f) : n.k = "return" /\ n.sub /= <<>> THEN ToSet(fn.rets) ELSE {})
    IN  IF fn.body = None \/ fn.body.sub = <<>> THEN {} ELSE locals \ used

\* ConstantEvaluator: None for what is not constant.
RECURSIVE evaluate(_)
evaluate(e) ==
    LET l == evaluate(e.sub[1])
        r == evaluate(e.sub[2])
    IN  CASE e.k = "lit" /\ e.cat = "int" -> e.val
          [] e.k = "tuple" /\ Len(e.sub) = 1 -> l
          [] e.k = "unary" /\ e.op = "-" -> IF l = None THEN None ELSE - l
          [] e.k = "binary" /\ e.op \in {"+", "-", "*"} ->
                IF None \in {l, r} THEN None
                ELSE (CASE e.op = "+" -> l + r [] e.op = "-" -> l - r [] e.op = "*" -> l * r)
          [] e.k = "id" /\ e.decl \in constVariables -> evaluate(prog.var[e.decl].value[1])
          [] OTHER -> None

divisionByZero(n) == n.k = "binary" /\ n.op \in {"/", "%"} /\ evaluate(n.sub[2]) = 0

StaticAnalyzer(f) == \A n \in Nodes(f) : ~ divisionByZero(n)

-----------------------------------------------------------------------------
(***************************************************************************)
(* ViewPureChecker.                                                        *)
(***************************************************************************)

\* Whether the base of a member or index access is in storage.
RECURSIVE dataStoredInStorage(_)
dataStoredInStorage(e) ==
    CASE e.k = "id" -> e.decl \in DOMAIN prog.var /\ prog.var[e.decl].loc \in {"state", "storage"}
                       /\ prog.var[e.decl].cat \in {"struct", "mapping", "array"}
      [] e.k \in {"member", "index", "tuple"} -> dataStoredInStorage(e.sub[1])
      [] OTHER -> FALSE

visitIdentifier(e, writes) ==
    IF e.decl \in DOMAIN prog.var
    THEN IF prog.var[e.decl].loc = "state" THEN IF writes THEN NonPayable ELSE View ELSE Pure
    ELSE IF e.decl = "this" THEN View ELSE Pure

visitMemberAccess(e, writes) ==
    IF e.decl = None THEN IF e.name = "value" THEN Payable ELSE View
    ELSE IF dataStoredInStorage(e.sub[1]) THEN IF writes THEN NonPayable ELSE View ELSE Pure

visitIndexAccess(e, writes) ==
    IF dataStoredInStorage(e.sub[1]) THEN IF writes THEN NonPayable ELSE View ELSE Pure

\* A payable function needs no more than a non-payable one to be called.
visitCall(n) ==
    CASE n.kind \in {"Require", "Assert", "Revert", "SetValue"} -> Pure
      [] n.fn \in DOMAIN prog.fn -> IF stateMutability(n.fn) = Payable THEN NonPayable ELSE stateMutability(n.fn)
      [] n.fn \in DOMAIN prog.var -> View
      [] OTHER -> NonPayable

\* What the nodes of a tree require; writes is lValueRequested of its root.
RECURSIVE reported(_, _)
reported(n, writes) ==
    LET own == CASE n.k = "id" -> visitIdentifier(n, writes)
                 [] n.k = "member" -> visitMemberAccess(n, writes)
                 [] n.k = "index" -> visitIndexAccess(n, writes)
                 [] n.k = "call" -> visitCall(n)
                 [] n.k = "emit" -> NonPayable
                 [] OTHER -> Pure
        lv(i) == \/ n.k = "assign" /\ i = 1
                 \/ n.k = "unary" /\ n.op \in {"++", "--", "delete"}
                 \/ n.k = "tuple" /\ writes
    IN  {own} \cup UNION {reported(n.sub[i], lv(i)) : i \in DOMAIN n.sub}

Greatest(levels) == CHOOSE l \in levels : \A k \in levels : k <= l

\* Modifiers are checked first.
inferredMutability(m) == Greatest(reported(prog.mod[m].body, FALSE))

requiredMutability(f) ==
    LET fn == prog.fn[f]
        mods == [i \in DOMAIN fn.mods |->
                    {IF modifierOf(f, fn.mods[i].of) = None THEN Pure ELSE inferredMutability(modifierOf(f, fn.mods[i].of))}
                    \cup (IF fn.mods[i].args = None THEN {}
                          ELSE UNION {reported(fn.mods[i].args[j], FALSE) : j \in DOMAIN fn.mods[i].args})]
    IN  {Pure} \cup (IF fn.body = None THEN {} ELSE reported(fn.body, FALSE)) \cup UNION {mods[i] : i \in DOMAIN mods}

\* msg.value is free in functions that are not called from outside, and in
\* libraries.
reportMutability(f, level) ==
    \/ level <= stateMutability(f)
    \/ /\ level = Payable
       /\ stateMutability(f) /= Pure
       /\ ~ (prog.fn[f].public /\ ~ isLibrary(prog.fn[f].scope))

ViewPureChecker(f) == \A l \in requiredMutability(f) : reportMutability(f, l)
-----------------------------------------------------------------------------
(***************************************************************************)
(* CompilerStack::analyze.                                                 *)
(***************************************************************************)
Stage(ok, members) == [ok |-> ok, members |-> members]

\* Errors of the syntax do not stop the analysis, they are counted.
SyntaxStage == Stage(TRUE, "noErrors" :> checkSyntax)

\* Base contracts, then the names of every contract.
NamesStage ==
    LET lins == Linearizations
        good == {c \in DOMAIN lins : lins[c] /= <<>>}
        all  == [c \in good |-> resolveNamesAndTypes(c, lins[c])]
    IN  Stage(good = AllContracts /\ \A c \in good : all[c].ok,
              "lins" :> lins @@ "refs" :> [c \in good |-> all[c].refs])

LevelsStage(stack) ==
    Stage(TRUE, "noErrors" :> (stack.noErrors /\ \A c \in AllContracts : ContractLevelChecker(c)))

\* TypeChecker, on the expressions of programs with types.
TypesStage(stack) ==
    Stage(TRUE, "noErrors" :> (stack.noErrors /\ (prog.typed /= None => \A f \in DOMAIN prog.fn : Types!checkTypes(Body(f).sub))))

PostTypesStage(stack) == Stage(stack.noErrors /\ PostTypeChecker, <<>>)

FlowStage ==
    Stage(\A f \in DOMAIN prog.fn : ControlFlowAnalyzer(f),
          "unreachable" :> {f \in DOMAIN prog.fn : prog.fn[f].body /= None /\ checkUnreachable(f) /= {}})

StaticStage ==
    Stage(\A f \in DOMAIN prog.fn : StaticAnalyzer(f), "unused" :> UNION {unusedVariables(f) : f \in DOMAIN prog.fn})

MutabilityStage == Stage(\A f \in DOMAIN prog.fn : ViewPureChecker(f), <<>>)

\* Only with "pragma experimental SMTChecker"; its findings are warnings.
SmtStage ==
    Stage(TRUE, "smt" :> IF ~ prog.smt THEN <<>>
                         ELSE [f \in ToSet(prog.con["T"].funs) |-> Smt!SmtAnalyze("T", f)])

StageResult(stage, stack) ==
    CASE stage = "syntax" -> SyntaxStage
      [] stage = "names" -> NamesStage
      [] stage = "levels" -> LevelsStage(stack)
      [] stage = "typecheck" -> TypesStage(stack)
      [] stage = "posttypes" -> PostTypesStage(stack)
      [] stage = "flow" -> FlowStage
      [] stage = "static" -> StaticStage
      [] stage = "mutability" -> MutabilityStage
      [] stage = "smt" -> SmtStage

-----------------------------------------------------------------------------
(***************************************************************************)
(* Meaning.                                                                *)
(***************************************************************************)
Instance == <<<<"root">>>>

\* Function t.fn of contract T with arguments t.args, from the storage t.mem, a
\* function from state variables to numbers.
UntypedTransact(t) ==
    LET place(d) == Append(Instance, <<"user", prog.var[d].name>>)
        mem == [l \in {place(d) : d \in DOMAIN t.mem} |->
                    LET d == CHOOSE d \in DOMAIN t.mem : place(d) = l IN Sol!Typed(prog.var[d].cat, t.mem[d])]
        s0  == [Sol!SolState(mem) EXCEPT !.type = (Instance :> "T"), !.bal = (Instance :> 0), !.this = Instance,
                                         !.sender = 1, !.vals = [i \in DOMAIN t.args |-> Sol!Typed("uint", t.args[i])]]
        out == Sol!SolCall(s0, Instance, t.fn, FALSE, 0)
    IN  [err |-> out.err, val |-> out.val.v, stray |-> out.stray,
         changed |-> out.err = "ok" /\ \E l \in DOMAIN out.mem :
                        out.mem[l].v /= IF l \in DOMAIN mem THEN mem[l].v ELSE 0]

\* A program with types starts with the storage that the expressions t.mem leave.
Transact(t) == IF prog.typed = None THEN UntypedTransact(t) ELSE Types!TypedTransact(t.mem, Body(t.fn).sub)

\* What the names of a program and the order of its bases should be.
Meanings(lins) == [c \in DOMAIN lins |-> MeantBy(c, lins[c])]

\* An order of the contracts in which c comes first and which keeps the order
\* of the linearisation of each base and of the list of bases, reversed.
RECURSIVE Ancestors(_)
Ancestors(c) == {c} \cup UNION {Ancestors(prog.con[c].bases[i].of) : i \in DOMAIN prog.con[c].bases}

Linearizes(c, lins, order) ==
    LET bases == [i \in DOMAIN prog.con[c].bases |-> prog.con[c].bases[i].of]
    IN  /\ ToSet(order) = Ancestors(c) /\ Len(order) = Cardinality(Ancestors(c))
        /\ Keeps(order, <<c>> \o Reverse(bases))
        /\ \A b \in ToSet(bases) : Keeps(order, lins[b])

\* The contracts whose bases can be put in order, given those before them.
Orders(c, lins) ==
    {o \in [1 .. Cardinality(Ancestors(c)) -> Ancestors(c)] : Linearizes(c, lins, o)}
=============================================================================
